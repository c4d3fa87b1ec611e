------------------------- MODULE DBProcessor_proofs -------------------------
(***************************************************************************)
(* Proofs about ProcessorController, with arbitrary processors and with    *)
(* DBProcessor among them, for any number of sessions and processors.      *)
(***************************************************************************)
EXTENDS DBProcessor, DataLemmas

-----------------------------------------------------------------------------
(* list.remove.                                                            *)

\* Kept satisfies its equation.
LEMMA KeptDef ==
  ASSUME NEW S, NEW q \in Seq(S), NEW F
  PROVE  Kept(q, F) = [k \in 0..Len(q) |->
           IF k = 0 THEN <<>>
           ELSE IF q[k] \in F THEN Kept(q, F)[k - 1] ELSE Append(Kept(q, F)[k - 1], q[k])]
<1> DEFINE IsKept(g, n) ==
      g = [k \in 0..n |-> IF k = 0 THEN <<>>
                          ELSE IF q[k] \in F THEN g[k - 1] ELSE Append(g[k - 1], q[k])]
           Good == {n \in 0..Len(q) : \E g : IsKept(g, n)}
<1>0. Len(q) \in Nat
  OBVIOUS
<1>1. 0 \in Good
  <2> DEFINE g == [k \in 0..0 |-> <<>>]
  <2>1. IsKept(g, 0)
    OBVIOUS
  <2> HIDE DEF g, IsKept
  <2>2. \E f : IsKept(f, 0)
    BY <2>1
  <2> QED BY <2>2, <1>0
<1>2. ASSUME NEW n \in 0..(Len(q) - 1), n \in Good PROVE n + 1 \in Good
  <2>1. PICK g : IsKept(g, n)
    BY <1>2
  <2> DEFINE h == [k \in 0..(n + 1) |->
        IF k = n + 1 THEN (IF q[n + 1] \in F THEN g[n] ELSE Append(g[n], q[n + 1])) ELSE g[k]]
  <2>2. IsKept(h, n + 1)
    <3>1. \A k \in 0..n : h[k] = g[k]
      OBVIOUS
    <3>2. h[n + 1] = IF q[n + 1] \in F THEN g[n] ELSE Append(g[n], q[n + 1])
      OBVIOUS
    <3>3. ASSUME NEW k \in 0..(n + 1)
          PROVE  h[k] = IF k = 0 THEN <<>>
                        ELSE IF q[k] \in F THEN h[k - 1] ELSE Append(h[k - 1], q[k])
      <4>1. CASE k = n + 1
        <5>1. k # 0 /\ k - 1 = n /\ h[n] = g[n]
          BY <4>1, <3>1
        <5> QED BY <4>1, <5>1, <3>2
      <4>2. CASE k = 0
        <5>1. g[0] = <<>>
          BY <2>1
        <5> QED BY <4>2, <3>1, <5>1
      <4>3. CASE k \in 1..n
        <5>1. k - 1 \in 0..n /\ k \in 0..n /\ k # 0
          BY <4>3
        <5>2. g[k] = IF k = 0 THEN <<>>
                     ELSE IF q[k] \in F THEN g[k - 1] ELSE Append(g[k - 1], q[k])
          BY <5>1, <2>1
        <5> HIDE DEF h
        <5> QED BY <5>1, <5>2, <3>1
      <4> QED BY <4>1, <4>2, <4>3
    <3>4. h = [k \in 0..(n + 1) |-> h[k]]
      OBVIOUS
    <3> HIDE DEF h
    <3> QED BY <3>3, <3>4
  <2> HIDE DEF h, IsKept
  <2>3. \E f : IsKept(f, n + 1)
    BY <2>2
  <2> QED BY <2>3, <1>0
<1> HIDE DEF Good
<1>3. 0..Len(q) \subseteq Good
  BY <1>0, <1>1, <1>2, Induction
<1>4. \E g : IsKept(g, Len(q))
  BY <1>0, <1>3 DEF Good
<1> QED BY <1>4 DEF Kept

\* What is left, in order: the elements not in F; and an element that was only
\* at the end is only at the end.
LEMMA KeptProperties ==
  ASSUME NEW S, NEW q \in Seq(S), NEW F
  PROVE  LET r == Kept(q, F)[Len(q)] IN
         /\ r \in Seq(S)
         /\ ToSet(r) = ToSet(q) \ F
         /\ \A Z : (\A i \in 1..Len(q) : q[i] \in Z => i = Len(q))
                     => \A i \in 1..Len(r) : r[i] \in Z => i = Len(r)
<1> DEFINE f == Kept(q, F)
           n == Len(q)
           Elems(k) == {q[i] : i \in 1..k}
           Good == {k \in 0..n : f[k] \in Seq(S) /\ ToSet(f[k]) = Elems(k) \ F}
<1>1. n \in Nat /\ ToSet(q) = Elems(n)
  BY DEF ToSet
<1>2. f = [k \in 0..n |-> IF k = 0 THEN <<>>
                          ELSE IF q[k] \in F THEN f[k - 1] ELSE Append(f[k - 1], q[k])]
  BY KeptDef
<1> HIDE DEF f
<1>3. /\ f[0] = <<>>
      /\ \A k \in 1..n : IF q[k] \in F THEN f[k] = f[k - 1] ELSE f[k] = Append(f[k - 1], q[k])
  <2>1. 0 \in 0..n
    BY <1>1
  <2>2. f[0] = <<>>
    BY <2>1, <1>2
  <2>3. ASSUME NEW k \in 1..n
        PROVE  IF q[k] \in F THEN f[k] = f[k - 1] ELSE f[k] = Append(f[k - 1], q[k])
    <3>1. k \in 0..n /\ k # 0
      BY <1>1
    <3>2. f[k] = IF k = 0 THEN <<>>
                 ELSE IF q[k] \in F THEN f[k - 1] ELSE Append(f[k - 1], q[k])
      BY <3>1, <1>2
    <3> QED BY <3>1, <3>2
  <2> QED BY <2>2, <2>3
<1>4. 0 \in Good
  <2>1. Elems(0) = {} /\ ToSet(<<>>) = {} /\ <<>> \in Seq(S) /\ 0 \in 0..n
    BY <1>1 DEF ToSet
  <2> HIDE DEF Elems, n
  <2> QED BY <2>1, <1>3
<1>5. ASSUME NEW k \in 0..(n - 1), k \in Good PROVE k + 1 \in Good
  <2>1. k + 1 \in 1..n /\ (k + 1) - 1 = k /\ q[k + 1] \in S
    BY <1>1
  <2>2. Elems(k + 1) = Elems(k) \cup {q[k + 1]}
    BY <2>1
  <2> HIDE DEF Elems, n
  <2>3. f[k] \in Seq(S) /\ ToSet(f[k]) = Elems(k) \ F
    BY <1>5
  <2>4. CASE q[k + 1] \in F
    BY <2>1, <2>2, <2>3, <2>4, <1>1, <1>3
  <2>5. CASE q[k + 1] \notin F
    <3>1. f[k + 1] = Append(f[k], q[k + 1])
      BY <2>1, <2>5, <1>3
    <3>2. f[k + 1] \in Seq(S) /\ ToSet(f[k + 1]) = ToSet(f[k]) \cup {q[k + 1]}
      BY <2>1, <2>3, <3>1, AppendToSet
    <3> QED BY <2>1, <2>2, <2>3, <2>5, <3>2, <1>1
  <2> QED BY <2>4, <2>5
<1> HIDE DEF Good
<1>6. 0..n \subseteq Good
  BY <1>1, <1>4, <1>5, Induction
<1>7. f[n] \in Seq(S) /\ ToSet(f[n]) = ToSet(q) \ F
  <2> HIDE DEF Elems, n
  <2>1. n \in Good
    BY <1>1, <1>6
  <2> QED BY <1>1, <2>1 DEF Good
<1>8. ASSUME NEW Z, \A i \in 1..Len(q) : q[i] \in Z => i = Len(q),
             NEW i \in 1..Len(f[n]), f[n][i] \in Z
      PROVE  i = Len(f[n])
  <2>1. n # 0
    BY <1>3, <1>8
  <2>2. n - 1 \in 0..n /\ n \in 1..n
    BY <2>1, <1>1
  <2>3. f[n - 1] \in Seq(S) /\ ToSet(f[n - 1]) = Elems(n - 1) \ F
    BY <2>2, <1>6 DEF Good
  <2>4. \A j \in 1..Len(f[n - 1]) : f[n - 1][j] \notin Z
    <3>1. ASSUME NEW j \in 1..Len(f[n - 1]) PROVE f[n - 1][j] \notin Z
      <4>1. f[n - 1][j] \in Elems(n - 1)
        <5>1. f[n - 1][j] \in ToSet(f[n - 1])
          BY <2>3 DEF ToSet
        <5> HIDE DEF Elems
        <5> QED BY <5>1, <2>3
      <4>2. PICK m \in 1..(n - 1) : f[n - 1][j] = q[m]
        BY <4>1
      <4>3. m \in 1..Len(q) /\ m # Len(q)
        BY <4>2, <1>1
      <4> QED BY <4>2, <4>3, <1>8
    <3> QED BY <3>1
  <2>5. f[n] = f[n - 1] \/ f[n] = Append(f[n - 1], q[n])
    BY <2>2, <1>3
  <2> DEFINE a == f[n - 1]
             b == f[n]
  <2>6. /\ a \in Seq(S) /\ (b = a \/ b = Append(a, q[n])) /\ \A j \in 1..Len(a) : a[j] \notin Z
        /\ i \in 1..Len(b) /\ b[i] \in Z
    BY <2>3, <2>4, <2>5, <1>8
  <2> HIDE DEF a, b
  <2>7. i = Len(b)
    BY <2>6
  <2> QED BY <2>7 DEF b
<1> QED BY <1>7, <1>8 DEF f

-----------------------------------------------------------------------------
(* ProcessorController: the inductive invariant.                           *)

Results == {"pending", "ok", "error", "cancelled"}

\* The types TypeOK leaves out.
Shapes ==
  /\ said \in [Sessions -> Seq(Transactions)]
  /\ finished \in [Sessions -> Nat]
  /\ results = [s \in Sessions |-> results[s]]
  /\ \A s \in Sessions : results[s] \in [DOMAIN results[s] -> Results]
  /\ seen \in [Processors -> [Sessions -> Seq(Transactions)]]

\* A commit under way is the one of a transaction that was chained.
UnderWay == \A s \in Sessions : results[s] # NoCommit => finished[s] < Len(said[s])

\* Only some processors cancel.
CancelsOnly ==
  \A s \in Sessions : \A p \in DOMAIN results[s] : results[s][p] = "cancelled" => p \in Cancels

CInv == TypeOK /\ Shapes /\ UnderWay /\ CancelsOnly

\* CInv holds at first.
LEMMA InitCInv == Init => CInv
<1> SUFFICES ASSUME Init PROVE CInv
  OBVIOUS
<1> USE DEF Init, NoCommit
<1>1. Shapes
  BY DEF Shapes, Results
<1>2. UnderWay /\ CancelsOnly
  BY DEF UnderWay, CancelsOnly
<1>3. TypeOK
  BY ConfiguredAssumption DEF TypeOK
<1> QED BY <1>1, <1>2, <1>3 DEF CInv

\* A transaction is chained.
LEMMA ChainKeeps ==
  ASSUME CInv, NEW s \in Sessions, NEW t \in Transactions, Chain(s, t),
         UNCHANGED <<procs, finished, results, seen, opened>>,
         closing' \subseteq linked', linked' \subseteq linked
  PROVE  CInv'
<1>1. /\ said' \in [Sessions -> Seq(Transactions)]
      /\ \A u \in Sessions : Len(said'[u]) >= Len(said[u]) /\ Len(said[u]) \in Nat /\ Len(said'[u]) \in Nat
  BY DEF CInv, Shapes, Chain
<1>2. Shapes' /\ CancelsOnly'
  BY <1>1 DEF CInv, Shapes, CancelsOnly
<1>3. \A u \in Sessions : finished[u] \in Nat /\ finished[u] <= Len(said[u])
  BY DEF CInv, TypeOK, Shapes
<1>4. UnderWay'
  BY <1>1, <1>3 DEF CInv, UnderWay
<1>5. TypeOK'
  <2>1. \A u \in Sessions : said'[u] \in Seq(Transactions) /\ finished'[u] \in 0..Len(said'[u])
    BY <1>1, <1>3
  <2> QED BY <2>1 DEF CInv, TypeOK
<1> QED BY <1>2, <1>4, <1>5 DEF CInv

\* A session flushes.
LEMMA UploadKeeps == ASSUME CInv, NEW s \in Sessions, NEW b \in Bodies, Upload(s, b) PROVE CInv'
<1> DEFINE t == [initial |-> said[s] = <<>>, connected |-> TRUE, body |-> b]
<1>1. t \in Transactions
  BY DEF Transactions
<1>2. Chain(s, t) /\ UNCHANGED <<procs, finished, results, seen, linked, closing, opened>>
  BY DEF Upload
<1>3. closing' \subseteq linked' /\ linked' \subseteq linked
  BY <1>2 DEF CInv, TypeOK
<1> QED BY <1>1, <1>2, <1>3, ChainKeeps

\* A session is closed.
LEMMA LoseKeeps == ASSUME CInv, NEW s \in Sessions, Lose(s) PROVE CInv'
<1> DEFINE t == [initial |-> FALSE, connected |-> FALSE, body |-> NoBody]
<1>1. t \in Transactions
  BY DEF Transactions
<1>2. Chain(s, t) /\ UNCHANGED <<procs, finished, results, seen, opened>>
  BY DEF Lose
<1>3. closing' \subseteq linked' /\ linked' \subseteq linked
  BY DEF Lose, CInv, TypeOK
<1> QED BY <1>1, <1>2, <1>3, ChainKeeps

\* A session is opened.
LEMMA OpenKeeps ==
  ASSUME CInv, NEW s \in Sessions, NEW a \in Addresses[s], Open(s, a)
  PROVE  CInv'
<1>1. /\ UNCHANGED <<procs, said, finished, results, seen, closing>>
      /\ linked' = linked \cup {s}
      /\ opened' = [u \in DOMAIN opened \cup {s} |-> IF u = s THEN a ELSE opened[u]]
  BY DEF Open, With
<1>2. a \in AllAddresses
  BY DEF AllAddresses
<1>3. opened' \in [DOMAIN opened' -> AllAddresses] /\ DOMAIN opened' = DOMAIN opened \cup {s}
  BY <1>1, <1>2 DEF CInv, TypeOK
<1>4. closing' \subseteq linked' /\ linked' \subseteq DOMAIN opened' /\ DOMAIN opened' \subseteq Sessions
  BY <1>1, <1>3 DEF CInv, TypeOK
<1>5. TypeOK'
  BY <1>1, <1>3, <1>4 DEF CInv, TypeOK
<1>6. Shapes' /\ UnderWay' /\ CancelsOnly'
  BY <1>1 DEF CInv, Shapes, UnderWay, CancelsOnly
<1> QED BY <1>5, <1>6 DEF CInv

\* What punish leaves.
LEMMA PunishedProcs ==
  ASSUME procs \in Seq(Processors), NEW F
  PROVE  /\ Punished(F) \in Seq(Processors) /\ ToSet(Punished(F)) = ToSet(procs) \ F
         /\ \A Z : (\A i \in 1..Len(procs) : procs[i] \in Z => i = Len(procs))
                => \A i \in 1..Len(Punished(F)) : Punished(F)[i] \in Z => i = Len(Punished(F))
  BY KeptProperties DEF Punished

\* The comprehension calls processors of the list only.
LEMMA VisitedSubset ==
  ASSUME procs \in Seq(Processors), NEW F
  PROVE  Visited(F) \subseteq ToSet(procs) /\ ToSet(procs) \subseteq Processors
<1>1. ToSet(procs) = {procs[k] : k \in 1..Len(procs)}
  BY DEF ToSet
<1> QED BY <1>1 DEF Visited

\* What a commit does, in terms of the set of processors it is given to.
LEMMA CommitFacts ==
  ASSUME CInv, NEW s \in Sessions, commit(s)
  PROVE  \E F \in SUBSET (Raises \cap ToSet(procs)), given \in SUBSET ToSet(procs) :
           /\ given = Visited(F) /\ given \subseteq Processors
           /\ finished[s] < Len(said[s]) /\ results[s] = NoCommit
           /\ results'[s] = [p \in given |-> IF p \in F THEN "error" ELSE "pending"]
           /\ results' = [results EXCEPT ![s] = results'[s]]
           /\ results'[s] = NoCommit <=> given = {}
           /\ finished' = IF given = {} THEN [finished EXCEPT ![s] = @ + 1] ELSE finished
           /\ seen' = [p \in Processors |->
                IF p \in given THEN [seen[p] EXCEPT ![s] = Append(@, said[s][finished[s] + 1])]
                               ELSE seen[p]]
           /\ procs' = Punished(F \cap given)
<1>1. PICK F \in SUBSET (Raises \cap ToSet(procs)) :
        LET given == Visited(F) IN
        /\ results' = [results EXCEPT ![s] =
             [p \in given |-> IF p \in F THEN "error" ELSE "pending"]]
        /\ seen' = [p \in Processors |->
             IF p \in given THEN [seen[p] EXCEPT ![s] = Append(@, said[s][finished[s] + 1])]
                            ELSE seen[p]]
        /\ procs' = Punished(F \cap given)
        /\ finished' = IF given = {} THEN [finished EXCEPT ![s] = @ + 1] ELSE finished
  BY DEF commit
<1> DEFINE given == Visited(F)
           new == [p \in given |-> IF p \in F THEN "error" ELSE "pending"]
<1>2. given \subseteq ToSet(procs) /\ given \subseteq Processors
  BY VisitedSubset DEF CInv, TypeOK
<1>3. finished[s] < Len(said[s]) /\ results[s] = NoCommit
  BY DEF commit, Runnable, Unfinished
<1>4. s \in DOMAIN results
  BY DEF CInv, Shapes
<1>5. results' = [results EXCEPT ![s] = new]
  BY <1>1
<1>6. new \in [given -> {"error", "pending"}]
  OBVIOUS
<1>7. new = <<>> <=> given = {}
  BY <1>6, EmptyFunction
<1> HIDE DEF given, new
<1>8. results'[s] = new
  BY <1>4, <1>5
<1>9. results' = [results EXCEPT ![s] = results'[s]]
  BY <1>5, <1>8
<1>10. results'[s] = NoCommit <=> given = {}
  BY <1>7, <1>8 DEF NoCommit
<1> QED BY <1>1, <1>2, <1>3, <1>8, <1>9, <1>10 DEF given, new

\* A commit is handed out.
LEMMA CommitKeeps == ASSUME CInv, NEW s \in Sessions, commit(s) PROVE CInv'
<1>1. PICK F \in SUBSET (Raises \cap ToSet(procs)), given \in SUBSET ToSet(procs) :
           /\ given = Visited(F) /\ given \subseteq Processors
           /\ finished[s] < Len(said[s]) /\ results[s] = NoCommit
           /\ results'[s] = [p \in given |-> IF p \in F THEN "error" ELSE "pending"]
           /\ results' = [results EXCEPT ![s] = results'[s]]
           /\ results'[s] = NoCommit <=> given = {}
           /\ finished' = IF given = {} THEN [finished EXCEPT ![s] = @ + 1] ELSE finished
           /\ seen' = [p \in Processors |->
                IF p \in given THEN [seen[p] EXCEPT ![s] = Append(@, said[s][finished[s] + 1])]
                               ELSE seen[p]]
           /\ procs' = Punished(F \cap given)
  BY CommitFacts
<1>2. UNCHANGED <<said, linked, closing, opened>>
  BY DEF commit
<1>3. procs' \in Seq(Processors)
  BY <1>1, PunishedProcs DEF CInv, TypeOK
<1>4. /\ said \in [Sessions -> Seq(Transactions)] /\ finished \in [Sessions -> Nat]
      /\ \A u \in Sessions : finished[u] \in 0..Len(said[u]) /\ Len(said[u]) \in Nat
  BY DEF CInv, Shapes, TypeOK
<1>5. /\ finished' \in [Sessions -> Nat]
      /\ \A u \in Sessions : finished'[u] \in 0..Len(said[u])
      /\ \A u \in Sessions : results'[u] # NoCommit => finished'[u] < Len(said[u])
  <2>1. \A u \in Sessions : u # s => results'[u] = results[u]
    BY <1>1 DEF CInv, Shapes
  <2>2. CASE given = {}
    <3>1. finished' = [finished EXCEPT ![s] = finished[s] + 1] /\ results'[s] = NoCommit
      BY <1>1, <2>2
    <3> QED BY <1>1, <1>4, <2>1, <3>1 DEF CInv, UnderWay
  <2>3. CASE given # {}
    <3>1. finished' = finished
      BY <1>1, <2>3
    <3> QED BY <1>1, <1>4, <2>1, <3>1 DEF CInv, UnderWay
  <2> QED BY <2>2, <2>3
<1>6. seen' \in [Processors -> [Sessions -> Seq(Transactions)]]
  <2>1. said[s][finished[s] + 1] \in Transactions
    BY <1>1, <1>4
  <2>2. ASSUME NEW p \in Processors
        PROVE  [seen[p] EXCEPT ![s] = Append(@, said[s][finished[s] + 1])] \in [Sessions -> Seq(Transactions)]
               /\ seen[p] \in [Sessions -> Seq(Transactions)]
    BY <2>1 DEF CInv, Shapes
  <2> QED BY <1>1, <2>2
<1>7. /\ results' = [u \in Sessions |-> results'[u]]
      /\ \A u \in Sessions : /\ results'[u] \in [DOMAIN results'[u] -> Results]
                             /\ DOMAIN results'[u] \subseteq Processors
                             /\ \A p \in DOMAIN results'[u] : results'[u][p] = "cancelled" => p \in Cancels
  <2>1. results' = [u \in Sessions |-> results'[u]]
    BY <1>1 DEF CInv, Shapes
  <2>2. ASSUME NEW u \in Sessions
        PROVE  /\ results'[u] \in [DOMAIN results'[u] -> Results]
               /\ DOMAIN results'[u] \subseteq Processors
               /\ \A p \in DOMAIN results'[u] : results'[u][p] = "cancelled" => p \in Cancels
    <3>1. CASE u = s
      BY <1>1, <3>1 DEF Results
    <3>2. CASE u # s
      <4>1. results'[u] = results[u]
        BY <1>1, <3>2 DEF CInv, Shapes
      <4> QED BY <4>1 DEF CInv, Shapes, TypeOK, CancelsOnly
    <3> QED BY <3>1, <3>2
  <2> QED BY <2>1, <2>2
<1>8. Shapes' /\ UnderWay' /\ CancelsOnly'
  BY <1>2, <1>4, <1>5, <1>6, <1>7 DEF Shapes, UnderWay, CancelsOnly
<1>9. TypeOK'
  BY <1>2, <1>3, <1>4, <1>5, <1>6, <1>7 DEF CInv, TypeOK, Results
<1> QED BY <1>8, <1>9 DEF CInv

\* What an outcome changes.
LEMMA EndsFacts ==
  ASSUME CInv, NEW s \in Sessions, NEW p \in Processors, NEW r \in Outcomes(p), Ends(p, s, r)
  PROVE  /\ results'[s] = [results[s] EXCEPT ![p] = r]
         /\ results' = [u \in Sessions |-> results'[u]]
         /\ \A u \in Sessions : u # s => results'[u] = results[u]
         /\ results'[s] \in [DOMAIN results[s] -> Results] /\ DOMAIN results'[s] = DOMAIN results[s]
         /\ results'[s] # NoCommit /\ results[s] # NoCommit
<1>1. /\ p \in DOMAIN results[s] /\ results[s][p] = "pending"
      /\ results' = [results EXCEPT ![s][p] = r]
  BY DEF Ends
<1>2. r \in Results
  BY DEF Outcomes, Results
<1>4. /\ results'[s] = [results[s] EXCEPT ![p] = r]
      /\ results' = [u \in Sessions |-> results'[u]]
      /\ \A u \in Sessions : u # s => results'[u] = results[u]
  BY <1>1 DEF CInv, Shapes
<1>5. results'[s] \in [DOMAIN results[s] -> Results]
  BY <1>1, <1>2, <1>4 DEF CInv, Shapes
<1>6. DOMAIN results'[s] = DOMAIN results[s]
  BY <1>5
<1>7. results'[s] # NoCommit /\ results[s] # NoCommit
  <2>1. results[s] \in [DOMAIN results[s] -> Results] /\ DOMAIN results[s] # {}
    BY <1>1 DEF CInv, Shapes
  <2> QED BY <1>5, <2>1, EmptyFunction DEF NoCommit
<1> QED BY <1>4, <1>5, <1>6, <1>7

\* A processor ends its part of a commit.
LEMMA EndsKeeps ==
  ASSUME CInv, NEW s \in Sessions, NEW p \in Processors, NEW r \in Outcomes(p), Ends(p, s, r)
  PROVE  CInv'
<1>1. /\ p \in DOMAIN results[s] /\ results[s][p] = "pending"
      /\ results' = [results EXCEPT ![s][p] = r]
      /\ procs' = IF r = "error" THEN Punished({p}) ELSE procs
      /\ UNCHANGED <<said, finished, seen, linked, closing, opened>>
  BY DEF Ends
<1>2. r \in Results /\ (r = "cancelled" => p \in Cancels)
  BY DEF Outcomes, Results
<1>3. procs' \in Seq(Processors)
  BY <1>1, PunishedProcs DEF CInv, TypeOK
<1>4. /\ results'[s] = [results[s] EXCEPT ![p] = r]
      /\ results' = [u \in Sessions |-> results'[u]]
      /\ \A u \in Sessions : u # s => results'[u] = results[u]
      /\ results'[s] \in [DOMAIN results[s] -> Results] /\ DOMAIN results'[s] = DOMAIN results[s]
      /\ results'[s] # NoCommit /\ results[s] # NoCommit
  BY EndsFacts
<1>8. \A u \in Sessions : /\ results'[u] \in [DOMAIN results'[u] -> Results]
                          /\ DOMAIN results'[u] \subseteq Processors
                          /\ \A q \in DOMAIN results'[u] : results'[u][q] = "cancelled" => q \in Cancels
  <2> SUFFICES ASSUME NEW u \in Sessions
               PROVE  /\ results'[u] \in [DOMAIN results'[u] -> Results]
                      /\ DOMAIN results'[u] \subseteq Processors
                      /\ \A q \in DOMAIN results'[u] : results'[u][q] = "cancelled" => q \in Cancels
    OBVIOUS
  <2>1. CASE u = s
    <3>1. results[s] \in [DOMAIN results[s] -> Results] /\ DOMAIN results[s] \subseteq Processors
      BY DEF CInv, Shapes, TypeOK
    <3>2. \A q \in DOMAIN results[s] : results[s][q] = "cancelled" => q \in Cancels
      BY DEF CInv, CancelsOnly
    <3> QED BY <2>1, <3>1, <3>2, <1>2, <1>4
  <2>2. CASE u # s
    BY <2>2, <1>4 DEF CInv, Shapes, TypeOK, CancelsOnly
  <2> QED BY <2>1, <2>2
<1>9. Shapes' /\ CancelsOnly'
  BY <1>1, <1>4, <1>8 DEF CInv, Shapes, CancelsOnly
<1>10. UnderWay'
  BY <1>1, <1>4 DEF CInv, UnderWay
<1>11. TypeOK'
  BY <1>1, <1>3, <1>8 DEF CInv, TypeOK, Results
<1> QED BY <1>9, <1>10, <1>11 DEF CInv

\* The DeferredList fires.
LEMMA FiresKeeps == ASSUME CInv, NEW s \in Sessions, Fires(s) PROVE CInv'
<1>1. /\ results[s] # NoCommit
      /\ closing' \in {closing, closing \cup ({s} \cap linked)}
      /\ finished' = [finished EXCEPT ![s] = finished[s] + 1]
      /\ results' = [results EXCEPT ![s] = <<>>]
      /\ UNCHANGED <<procs, said, seen, linked, opened>>
  BY DEF Fires, AllFired, abort, NoCommit
<1>2. finished[s] < Len(said[s])
  BY <1>1 DEF CInv, UnderWay
<1>3. /\ said \in [Sessions -> Seq(Transactions)] /\ finished \in [Sessions -> Nat]
      /\ \A u \in Sessions : finished[u] \in 0..Len(said[u]) /\ Len(said[u]) \in Nat
  BY DEF CInv, Shapes, TypeOK
<1>4. /\ results' = [u \in Sessions |-> results'[u]] /\ results'[s] = <<>>
      /\ \A u \in Sessions : u # s => results'[u] = results[u]
  BY <1>1 DEF CInv, Shapes
<1>5. DOMAIN <<>> = {} /\ <<>> \in [{} -> Results]
  OBVIOUS
<1>6. \A u \in Sessions : /\ results'[u] \in [DOMAIN results'[u] -> Results]
                          /\ DOMAIN results'[u] \subseteq Processors
                          /\ \A q \in DOMAIN results'[u] : results'[u][q] = "cancelled" => q \in Cancels
  BY <1>4, <1>5 DEF CInv, Shapes, TypeOK, CancelsOnly
<1>7. finished' \in [Sessions -> Nat] /\ \A u \in Sessions : finished'[u] \in 0..Len(said[u])
  BY <1>1, <1>2, <1>3
<1>8. Shapes' /\ CancelsOnly'
  BY <1>1, <1>4, <1>6, <1>7 DEF CInv, Shapes, CancelsOnly
<1>9. UnderWay'
  BY <1>1, <1>3, <1>4 DEF CInv, UnderWay, NoCommit
<1>10. TypeOK'
  <2>1. closing' \subseteq linked'
    BY <1>1 DEF CInv, TypeOK
  <2> QED BY <1>1, <1>6, <1>7, <2>1 DEF CInv, TypeOK, Results
<1> QED BY <1>8, <1>9, <1>10 DEF CInv

\* Every step keeps CInv.
LEMMA StepCInv == CInv /\ [Next]_vars => CInv'
<1> SUFFICES ASSUME CInv, [Next]_vars PROVE CInv'
  OBVIOUS
<1>1. CASE UNCHANGED vars
  BY <1>1 DEF vars, CInv, TypeOK, Shapes, UnderWay, CancelsOnly
<1>2. CASE Next
  <2>1. PICK s \in Sessions :
          \/ SessionNext(s)
          \/ \E p \in Processors : \E r \in Outcomes(p) : Ends(p, s, r)
    BY <1>2 DEF Next
  <2> QED BY <2>1, OpenKeeps, LoseKeeps, UploadKeeps, CommitKeeps, FiresKeeps, EndsKeeps
          DEF SessionNext
<1> QED BY <1>1, <1>2

\* Every reachable state satisfies the inductive invariant of ProcessorController.
THEOREM Invariance == Spec => []CInv
  BY InitCInv, StepCInv, PTL DEF Spec

\* The controller's state has its types.
THEOREM TypeCorrect == Spec => []TypeOK
<1>1. CInv => TypeOK
  BY DEF CInv
<1> QED BY <1>1, Invariance, PTL

-----------------------------------------------------------------------------
(* A failure closes the connection.                                        *)

\* Of the configured processors at most the last is in P.
LastOnly(P) == \A k \in 1..Len(Configured) : Configured[k] \in P => k = Len(Configured)

\* The first bad outcome is an error when there is one.
LEMMA FirstError ==
  ASSUME CInv, LastOnly(Cancels), NEW s \in Sessions, AllFired(s),
         NEW p \in DOMAIN results[s], results[s][p] = "error"
  PROVE  find_first_error(s) = "error"
<1>1. Configured \in Seq(Processors) /\ Len(Configured) \in Nat
  BY ConfiguredAssumption
<1>2. PICK k \in 1..Len(Configured) : p = Configured[k]
  <2>1. p \in Processors
    BY DEF CInv, TypeOK
  <2> QED BY <2>1 DEF Processors, ToSet
<1>3. k \in Bad(s)
  BY <1>2 DEF Bad
<1> DEFINE m == Min(Bad(s))
<1>4. m \in Bad(s) /\ m <= k
  <2>1. Bad(s) \in SUBSET Nat /\ Bad(s) # {}
    BY <1>3 DEF Bad
  <2>2. \E n \in Bad(s) : \A j \in Bad(s) : n <= j
    BY <2>1, LeastNumber
  <2>3. m \in Bad(s) /\ \A j \in Bad(s) : m <= j
    BY <2>2 DEF Min
  <2> QED BY <1>3, <2>3
<1>5. find_first_error(s) = results[s][Configured[m]]
  BY <1>3 DEF find_first_error
<1> HIDE DEF m
<1>6. m \in 1..Len(Configured) /\ Configured[m] \in DOMAIN results[s] /\ results[s][Configured[m]] # "ok"
  BY <1>4 DEF Bad
<1>7. results[s][Configured[m]] \in {"error", "cancelled"}
  <2>1. results[s][Configured[m]] # "pending"
    BY <1>6 DEF AllFired
  <2> QED BY <1>6, <2>1 DEF CInv, TypeOK
<1>8. CASE results[s][Configured[m]] = "cancelled"
  <2>1. Configured[m] \in Cancels
    BY <1>6, <1>8 DEF CInv, CancelsOnly
  <2>2. m = Len(Configured)
    BY <1>6, <2>1 DEF LastOnly
  <2>3. k = m
    BY <1>1, <1>4, <2>2
  <2> QED BY <1>2, <1>5, <2>3
<1> QED BY <1>5, <1>7, <1>8

Closes(s) ==
  /\ results[s] # NoCommit /\ results'[s] = NoCommit
  /\ \E p \in DOMAIN results[s] : results[s][p] = "error"
  => s \in closing'

\* A step that ends a failed commit has the connection closed.
LEMMA StepCloses ==
  ASSUME CInv, LastOnly(Cancels), [Next]_vars, NEW s \in linked
  PROVE  Closes(s)
<1> SUFFICES ASSUME results[s] # NoCommit, results'[s] = NoCommit,
                    NEW p \in DOMAIN results[s], results[s][p] = "error"
             PROVE  s \in closing'
  BY DEF Closes
<1>1. s \in Sessions
  BY DEF CInv, TypeOK
<1>2. CASE UNCHANGED vars
  BY <1>2 DEF vars
<1>3. CASE Next
  <2>1. PICK u \in Sessions :
          \/ SessionNext(u)
          \/ \E q \in Processors : \E r \in Outcomes(q) : Ends(q, u, r)
    BY <1>3 DEF Next
  <2>2. CASE \/ \E a \in Addresses[u] : Open(u, a)
             \/ Lose(u) \/ \E b \in Bodies : Upload(u, b)
    BY <2>2 DEF Open, Lose, Upload
  <2>3. CASE commit(u)
    <3>1. results[u] = NoCommit /\ results' = [results EXCEPT ![u] = results'[u]]
      BY <2>3, CommitFacts
    <3> QED BY <1>1, <3>1 DEF CInv, Shapes
  <2>4. CASE Fires(u)
    <3>1. CASE u = s
      <4>1. find_first_error(s) = "error"
        BY <1>1, <2>4, <3>1, FirstError DEF Fires
      <4> QED BY <2>4, <3>1, <4>1 DEF Fires, abort
    <3>2. CASE u # s
      <4>1. results'[s] = results[s]
        BY <1>1, <2>4, <3>2 DEF Fires, CInv, Shapes
      <4> QED BY <4>1
    <3> QED BY <3>1, <3>2
  <2>5. CASE \E q \in Processors : \E r \in Outcomes(q) : Ends(q, u, r)
    <3>1. results'[u] # NoCommit /\ (u # s => results'[s] = results[s])
      BY <1>1, <2>5, EndsFacts
    <3> QED BY <3>1
  <2> QED BY <2>1, <2>2, <2>3, <2>4, <2>5 DEF SessionNext
<1> QED BY <1>2, <1>3

\* When a commit ends that a processor failed, abort closes the connection it
\* came from, for any processors of which at most the last cancels commits: an
\* outcome that comes before the error in the order of procs would hide it.
THEOREM FailureClosesTheConnection ==
  ASSUME LastOnly(Cancels)
  PROVE  Spec => FailureCloses
<1>1. CInv /\ [Next]_vars => \A s \in linked : Closes(s)
  BY StepCloses
<1>2. CInv /\ [Next]_vars =>
        [\A s \in linked :
           /\ results[s] # NoCommit /\ results'[s] = NoCommit
           /\ \E p \in DOMAIN results[s] : results[s][p] = "error"
           => s \in closing']_vars
  BY <1>1 DEF Closes
<1> QED BY <1>2, Invariance, PTL DEF Spec, FailureCloses

-----------------------------------------------------------------------------
(* Fan-out is a broadcast.                                                 *)

\* Of the processors that are left at most the last raises.
RaisersLast == \A k \in 1..Len(procs) : procs[k] \in Raises => k = Len(procs)

\* Then the comprehension over procs passes over none.
LEMMA VisitedAll ==
  ASSUME procs \in Seq(Processors), RaisersLast, NEW F \in SUBSET Raises
  PROVE  Visited(F) = ToSet(procs)
<1> DEFINE n == Len(procs)
           IsVisited(g) == g = [k \in 1..n |-> k = 1 \/ ~(g[k - 1] /\ procs[k - 1] \in F)]
           all == [k \in 1..n |-> TRUE]
           v == CHOOSE g : IsVisited(g)
<1>1. n \in Nat /\ ToSet(procs) = {procs[k] : k \in 1..n}
  BY DEF ToSet
<1>2. \A k \in 1..n : k # 1 => procs[k - 1] \notin F
  <2> SUFFICES ASSUME NEW k \in 1..n, k # 1 PROVE procs[k - 1] \notin F
    OBVIOUS
  <2>1. k - 1 \in 1..Len(procs) /\ k - 1 # Len(procs)
    OBVIOUS
  <2> QED BY <2>1 DEF RaisersLast
<1>3. IsVisited(all)
  <2>1. ASSUME NEW k \in 1..n PROVE TRUE = (k = 1 \/ ~(all[k - 1] /\ procs[k - 1] \in F))
    BY <1>2
  <2> QED BY <2>1
<1> HIDE DEF all
<1>4. IsVisited(v)
  <2> HIDE DEF IsVisited
  <2> QED BY <1>3
<1>5. Visited(F) = {procs[k] : k \in {j \in 1..n : v[j]}}
  BY DEF Visited
<1> HIDE DEF v
<1>6. \A k \in 1..n : v[k]
  BY <1>2, <1>4
<1> QED BY <1>1, <1>5, <1>6

\* RaisersLast holds at first.
LEMMA InitRaisersLast == ASSUME LastOnly(Raises), Init PROVE RaisersLast
  BY DEF LastOnly, Init, RaisersLast

\* Removals keep the processors that raise at the end of procs.
LEMMA StepRaisersLast == CInv /\ RaisersLast /\ [Next]_vars => RaisersLast'
<1> SUFFICES ASSUME CInv, RaisersLast, [Next]_vars PROVE RaisersLast'
  OBVIOUS
<1>1. procs \in Seq(Processors)
  BY DEF CInv, TypeOK
<1>2. procs' = procs \/ \E F : procs' = Punished(F)
  BY DEF Next, SessionNext, Open, Lose, Upload, commit, Fires, Ends, vars
<1> QED BY <1>1, <1>2, PunishedProcs DEF RaisersLast

-----------------------------------------------------------------------------
Log == [s \in Sessions |-> HandedOver(s)]
FeedVars == <<ToSet(procs), Log, seen>>

\* What was handed over is said already.
LEMMA HandedOverLen ==
  ASSUME CInv, NEW s \in Sessions
  PROVE  /\ said[s] \in Seq(Transactions) /\ Len(said[s]) \in Nat /\ finished[s] \in Nat
         /\ finished[s] + (IF results[s] = NoCommit THEN 0 ELSE 1) \in 0..Len(said[s])
  BY DEF CInv, TypeOK, Shapes, UnderWay

\* What is chained is not handed over yet.
LEMMA ChainStutters ==
  ASSUME CInv, NEW s \in Sessions, NEW t \in Transactions, Chain(s, t),
         UNCHANGED <<procs, finished, results, seen>>
  PROVE  UNCHANGED FeedVars
<1>1. ASSUME NEW u \in Sessions PROVE HandedOver(u)' = HandedOver(u)
  <2> DEFINE n == finished[u] + (IF results[u] = NoCommit THEN 0 ELSE 1)
  <2>1. said[u] \in Seq(Transactions) /\ n \in 0..Len(said[u])
    BY HandedOverLen
  <2>2. HandedOver(u) = SubSeq(said[u], 1, n) /\ HandedOver(u)' = SubSeq(said'[u], 1, n)
    BY DEF HandedOver
  <2>3. said'[u] = said[u] \/ said'[u] = Append(said[u], t)
    BY DEF Chain, CInv, Shapes
  <2> HIDE DEF n
  <2> QED BY <2>1, <2>2, <2>3, PrefixOfAppend
<1>2. Log' = Log
  BY <1>1 DEF Log
<1> QED BY <1>2 DEF FeedVars

\* A commit is a broadcast, followed by the removal of the processor that
\* raised.
LEMMA CommitHandsOver ==
  ASSUME CInv, RaisersLast, NEW s \in Sessions, commit(s)
  PROVE  \E t \in Transactions : Feed!HandOver(s, t)
<1>1. PICK F \in SUBSET (Raises \cap ToSet(procs)), given \in SUBSET ToSet(procs) :
           /\ given = Visited(F) /\ given \subseteq Processors
           /\ finished[s] < Len(said[s]) /\ results[s] = NoCommit
           /\ results'[s] = [p \in given |-> IF p \in F THEN "error" ELSE "pending"]
           /\ results' = [results EXCEPT ![s] = results'[s]]
           /\ results'[s] = NoCommit <=> given = {}
           /\ finished' = IF given = {} THEN [finished EXCEPT ![s] = @ + 1] ELSE finished
           /\ seen' = [p \in Processors |->
                IF p \in given THEN [seen[p] EXCEPT ![s] = Append(@, said[s][finished[s] + 1])]
                               ELSE seen[p]]
           /\ procs' = Punished(F \cap given)
  BY CommitFacts
<1> DEFINE t == said[s][finished[s] + 1]
           n == finished[s]
<1>2. procs \in Seq(Processors)
  BY DEF CInv, TypeOK
<1>3. given = ToSet(procs)
  BY <1>1, <1>2, VisitedAll
<1>4. ToSet(procs)' \in SUBSET ToSet(procs)
  BY <1>1, <1>2, PunishedProcs
<1>5. /\ said' = said /\ n \in Nat /\ n < Len(said[s]) /\ said[s] \in Seq(Transactions)
      /\ finished \in [Sessions -> Nat] /\ t \in Transactions
  BY <1>1 DEF commit, CInv, Shapes
<1>6. HandedOver(s) = SubSeq(said[s], 1, n)
  BY <1>1, <1>5 DEF HandedOver
<1>7. HandedOver(s)' = SubSeq(said[s], 1, n + 1)
  <2>1. HandedOver(s)' = SubSeq(said[s], 1, finished'[s] + IF results'[s] = NoCommit THEN 0 ELSE 1)
    BY <1>5 DEF HandedOver
  <2>2. CASE given = {}
    <3>1. results'[s] = NoCommit /\ finished'[s] = n + 1
      BY <1>1, <1>5, <2>2
    <3>2. finished'[s] + (IF results'[s] = NoCommit THEN 0 ELSE 1) = n + 1
      BY <1>5, <3>1
    <3> QED BY <2>1, <3>2
  <2>3. CASE given # {}
    <3>1. results'[s] # NoCommit /\ finished'[s] = n
      BY <1>1, <1>5, <2>3
    <3>2. finished'[s] + (IF results'[s] = NoCommit THEN 0 ELSE 1) = n + 1
      BY <1>5, <3>1
    <3> QED BY <2>1, <3>2
  <2> QED BY <2>2, <2>3
<1>8. HandedOver(s)' = Append(HandedOver(s), t)
  BY <1>5, <1>6, <1>7, PrefixGrows
<1>9. ASSUME NEW u \in Sessions, u # s PROVE HandedOver(u)' = HandedOver(u)
  <2>1. results'[u] = results[u] /\ finished'[u] = finished[u]
    BY <1>1, <1>5, <1>9 DEF CInv, Shapes
  <2> QED BY <1>5, <2>1 DEF HandedOver
<1>10. Log' = [Log EXCEPT ![s] = Append(@, t)]
  BY <1>8, <1>9 DEF Log
<1> HIDE DEF t
<1>11. seen' = [p \in Processors |->
         IF p \in ToSet(procs) THEN [seen[p] EXCEPT ![s] = Append(@, t)] ELSE seen[p]]
  BY <1>1, <1>3 DEF t
<1>12. Feed!HandOver(s, t)
  BY <1>4, <1>10, <1>11 DEF Feed!HandOver, Log
<1> QED BY <1>5, <1>12

\* A processor that fails is detached, one that succeeds changes nothing.
LEMMA EndsDetaches ==
  ASSUME CInv, NEW s \in Sessions, NEW p \in Processors, NEW r \in Outcomes(p), Ends(p, s, r)
  PROVE  UNCHANGED FeedVars \/ \E q \in ToSet(procs) : Feed!Detach(q)
<1>1. /\ UNCHANGED <<said, finished, seen>>
      /\ procs' = IF r = "error" THEN Punished({p}) ELSE procs
  BY DEF Ends
<1>2. \A u \in Sessions : results'[u] = NoCommit <=> results[u] = NoCommit
  BY EndsFacts
<1>3. \A u \in Sessions : HandedOver(u)' = HandedOver(u)
  BY <1>1, <1>2 DEF HandedOver
<1>4. Log' = Log
  BY <1>3 DEF Log
<1>5. ToSet(procs)' = ToSet(procs) \/ ToSet(procs)' = ToSet(procs) \ {p}
  BY <1>1, PunishedProcs DEF CInv, TypeOK
<1>6. CASE ToSet(procs)' = ToSet(procs)
  BY <1>1, <1>4, <1>6 DEF FeedVars
<1>7. CASE ToSet(procs)' = ToSet(procs) \ {p} /\ p \in ToSet(procs)
  <2>1. Feed!Detach(p)
    BY <1>1, <1>4, <1>7 DEF Feed!Detach, Log
  <2> QED BY <1>7, <2>1
<1> QED BY <1>5, <1>6, <1>7

\* The end of a commit is no step of the feed.
LEMMA FiresStutters == ASSUME CInv, NEW s \in Sessions, Fires(s) PROVE UNCHANGED FeedVars
<1>1. /\ results[s] # NoCommit /\ UNCHANGED <<procs, said, seen>>
      /\ finished' = [finished EXCEPT ![s] = @ + 1]
      /\ results' = [results EXCEPT ![s] = NoCommit]
  BY DEF Fires, AllFired
<1>2. finished \in [Sessions -> Nat] /\ results = [u \in Sessions |-> results[u]]
  BY DEF CInv, Shapes
<1>3. ASSUME NEW u \in Sessions PROVE HandedOver(u)' = HandedOver(u)
  <2>1. CASE u = s
    <3>1. finished'[s] = finished[s] + 1 /\ results'[s] = NoCommit
      BY <1>1, <1>2
    <3>2. finished'[s] + (IF results'[s] = NoCommit THEN 0 ELSE 1)
            = finished[s] + (IF results[s] = NoCommit THEN 0 ELSE 1)
      BY <1>1, <1>2, <3>1
    <3> QED BY <1>1, <2>1, <3>2 DEF HandedOver
  <2>2. CASE u # s
    <3>1. finished'[u] = finished[u] /\ results'[u] = results[u]
      BY <1>1, <1>2, <2>2
    <3> QED BY <1>1, <3>1 DEF HandedOver
  <2> QED BY <2>1, <2>2
<1>4. Log' = Log
  BY <1>3 DEF Log
<1> QED BY <1>1, <1>4 DEF FeedVars

\* Every step is one of CommitFeed, or none.
LEMMA StepFeeds ==
  ASSUME CInv, RaisersLast, [Next]_vars
  PROVE  Feed!FeedNext \/ UNCHANGED FeedVars
<1>1. CASE UNCHANGED vars
  BY <1>1 DEF vars, FeedVars, Log, HandedOver
<1>2. CASE Next
  <2>1. PICK s \in Sessions :
          \/ SessionNext(s)
          \/ \E p \in Processors : \E r \in Outcomes(p) : Ends(p, s, r)
    BY <1>2 DEF Next
  <2>2. CASE \E a \in Addresses[s] : Open(s, a)
    BY <2>2 DEF Open, FeedVars, Log, HandedOver
  <2>3. CASE Lose(s)
    <3> DEFINE t == [initial |-> FALSE, connected |-> FALSE, body |-> NoBody]
    <3>1. t \in Transactions /\ Chain(s, t) /\ UNCHANGED <<procs, finished, results, seen>>
      BY <2>3 DEF Lose, Transactions
    <3> QED BY <3>1, ChainStutters
  <2>4. CASE \E b \in Bodies : Upload(s, b)
    <3>1. PICK b \in Bodies : Upload(s, b)
      BY <2>4
    <3> DEFINE t == [initial |-> said[s] = <<>>, connected |-> TRUE, body |-> b]
    <3>2. t \in Transactions
      BY DEF Transactions
    <3>3. Chain(s, t) /\ UNCHANGED <<procs, finished, results, seen>>
      BY <3>1 DEF Upload
    <3> HIDE DEF t
    <3> QED BY <3>2, <3>3, ChainStutters
  <2>5. CASE commit(s)
    BY <2>5, CommitHandsOver DEF Feed!FeedNext
  <2>6. CASE Fires(s)
    BY <2>6, FiresStutters
  <2>7. CASE \E p \in Processors : \E r \in Outcomes(p) : Ends(p, s, r)
    BY <2>7, EndsDetaches DEF Feed!FeedNext
  <2> QED BY <2>1, <2>2, <2>3, <2>4, <2>5, <2>6, <2>7 DEF SessionNext
<1> QED BY <1>1, <1>2

\* The feed begins with all processors.
LEMMA InitFeeds == ASSUME Init PROVE Feed!FeedInit
<1>1. \A s \in Sessions : HandedOver(s) = <<>>
  <2>1. \A s \in Sessions : said[s] = <<>> /\ finished[s] = 0 /\ results[s] = NoCommit
    BY DEF Init
  <2>2. SubSeq(<<>>, 1, 0 + 0) = <<>>
    OBVIOUS
  <2> QED BY <2>1, <2>2 DEF HandedOver
<1>2. ToSet(procs) = Processors
  BY DEF Init, Processors
<1> QED BY <1>1, <1>2 DEF Init, Feed!FeedInit

\* The controller implements CommitFeed, for any processors of which at most the
\* last raises at the call: a processor that is still in procs was given every
\* transaction of every session, once and in order.
THEOREM FanOutIsABroadcast ==
  ASSUME LastOnly(Raises)
  PROVE  Spec => Broadcast
<1>1. Init => RaisersLast /\ Feed!FeedInit
  BY InitRaisersLast, InitFeeds
<1>2. CInv /\ RaisersLast /\ [Next]_vars
        => [Feed!FeedNext]_<<ToSet(procs), [s \in Sessions |-> HandedOver(s)], seen>>
  BY StepFeeds DEF FeedVars, Log
<1> QED BY <1>1, <1>2, StepRaisersLast, Invariance, PTL DEF Spec, Broadcast, Feed!FeedSpec

-----------------------------------------------------------------------------
(* DBProcessor is one of the processors of the controller.                 *)

\* What "db" does is a step of an arbitrary processor.
LEMMA DBStep == [DBNext]_allvars => [Next]_vars
<1> SUFFICES ASSUME [DBNext]_allvars PROVE Next \/ UNCHANGED vars
  OBVIOUS
<1>1. CASE UNCHANGED allvars
  BY <1>1 DEF allvars
<1>2. CASE stopService \/ dec_count
  BY <1>2 DEF stopService, dec_count
<1>3. CASE \E s \in Sessions : Others(s) \/ DBTakes(s) \/ Interaction(s)
  <2>1. PICK s \in Sessions : Others(s) \/ DBTakes(s) \/ Interaction(s)
    BY <1>3
  <2>2. CASE Others(s)
    BY <2>2 DEF Others, Next, SessionNext
  <2>3. CASE DBTakes(s)
    BY <2>3 DEF DBTakes, Next, SessionNext
  <2>4. CASE Interaction(s)
    <3>1. \E r \in {"ok", "error"} : Ended(s, r)
      BY <2>4 DEF Interaction, DBStores, DBRefuses, DBNoSource, DBFails
    <3>2. \E r \in Outcomes("db") : Ends("db", s, r)
      BY <3>1 DEF Ended, Outcomes
    <3> QED BY <3>2, DBAssumption DEF Next
  <2> QED BY <2>1, <2>2, <2>3, <2>4
<1> QED BY <1>1, <1>2, <1>3 DEF DBNext

\* Everything proved of the controller holds with the database behind it.
THEOREM DBIsAProcessor == DBSpec => Spec
<1>1. DBInit => Init
  BY DEF DBInit
<1> QED BY <1>1, DBStep, PTL DEF DBSpec, Spec

-----------------------------------------------------------------------------
(* The tables follow.                                                      *)

\* The first transaction is initial, unless it is the disconnect; the
\* disconnect is the last one and the client is gone.
Saying ==
  \A s \in Sessions :
    /\ \A k \in 1..Len(said[s]) :
         /\ said[s][k].initial <=> k = 1 /\ said[s][k].connected
         /\ ~said[s][k].connected => k = Len(said[s]) /\ s \notin linked
    /\ s \in DOMAIN opened \ linked => said[s] # <<>> /\ ~said[s][Len(said[s])].connected
    /\ said[s] # <<>> => s \in DOMAIN opened

\* Nothing of the session is left to do.
Gone(s) == s \notin linked /\ finished[s] = Len(said[s])

\* Two clients with one address are not there at the same time.
Apart ==
  \A s, u \in DOMAIN opened : s # u /\ opened[s] = opened[u] => Gone(s) \/ Gone(u)

\* "db" was given all that was handed over.
Given == "db" \in ToSet(procs) => \A s \in Sessions : seen["db"][s] = HandedOver(s)

KInv == CInv /\ RaisersLast /\ Saying /\ Apart /\ Given

\* KInv holds at first.
LEMMA InitKInv == ASSUME LastOnly(Raises), Init PROVE KInv
<1>1. CInv /\ RaisersLast
  BY InitCInv, InitRaisersLast
<1>2. Feed!FeedInit
  BY InitFeeds
<1>3. Given
  BY <1>2 DEF Feed!FeedInit, Given, Init, Processors
<1>4. Saying /\ Apart
  BY DEF Init, Saying, Apart
<1> QED BY <1>1, <1>3, <1>4 DEF KInv

\* "db" is given what is handed over, as long as it is in service.
LEMMA StepGiven == ASSUME KInv, [Next]_vars PROVE Given'
<1>1. Feed!FeedNext \/ UNCHANGED FeedVars
  BY StepFeeds DEF KInv
<1>2. "db" \in Processors
  BY DBAssumption
<1> SUFFICES ASSUME "db" \in ToSet(procs)', NEW u \in Sessions PROVE seen'["db"][u] = HandedOver(u)'
  BY DEF Given
<1>3. CASE UNCHANGED FeedVars
  <2>1. Log'[u] = Log[u] /\ Log[u] = HandedOver(u) /\ Log'[u] = HandedOver(u)'
    BY <1>3 DEF FeedVars, Log
  <2> QED BY <1>3, <2>1 DEF FeedVars, KInv, Given
<1>4. CASE \E q \in ToSet(procs) : Feed!Detach(q)
  <2>1. "db" \in ToSet(procs) /\ Log' = Log /\ seen' = seen
    BY <1>4 DEF Feed!Detach, Log
  <2>2. Log'[u] = Log[u] /\ Log[u] = HandedOver(u) /\ Log'[u] = HandedOver(u)'
    BY <2>1 DEF Log
  <2> QED BY <2>1, <2>2 DEF KInv, Given
<1>5. CASE \E s \in Sessions, t \in Transactions : Feed!HandOver(s, t)
  <2>1. PICK s \in Sessions, t \in Transactions : Feed!HandOver(s, t)
    BY <1>5
  <2>2. /\ "db" \in ToSet(procs) /\ Log' = [Log EXCEPT ![s] = Append(@, t)]
        /\ seen'["db"] = [seen["db"] EXCEPT ![s] = Append(@, t)]
    BY <1>2, <2>1 DEF Feed!HandOver, Log
  <2>3. /\ Log[u] = HandedOver(u) /\ Log'[u] = HandedOver(u)' /\ DOMAIN Log = Sessions
        /\ Log'[u] = IF u = s THEN Append(Log[u], t) ELSE Log[u]
    BY <2>2 DEF Log
  <2>4. seen["db"] \in [Sessions -> Seq(Transactions)]
    BY <1>2 DEF KInv, CInv, Shapes
  <2>5. seen'["db"][u] = IF u = s THEN Append(seen["db"][u], t) ELSE seen["db"][u]
    BY <2>2, <2>4
  <2> QED BY <2>2, <2>3, <2>5 DEF KInv, Given
<1> QED BY <1>1, <1>3, <1>4, <1>5 DEF Feed!FeedNext

\* A transaction is chained by s, which is linked: all before it are uploads.
LEMMA ChainSaying ==
  ASSUME KInv, NEW s \in linked, NEW t \in Transactions, Chain(s, t), opened' = opened,
         t.initial <=> said[s] = <<>> /\ t.connected,
         linked' = IF t.connected THEN linked ELSE linked \ {s}
  PROVE  Saying'
<1>1. s \in Sessions /\ s \in DOMAIN opened
  BY DEF KInv, CInv, TypeOK
<1>2. \A u \in Sessions : u # s => said'[u] = said[u] /\ (u \in linked' <=> u \in linked)
  BY <1>1 DEF Chain, KInv, CInv, Shapes
<1>3. ASSUME NEW u \in Sessions, u # s
      PROVE  /\ \A k \in 1..Len(said'[u]) :
                  /\ said'[u][k].initial <=> k = 1 /\ said'[u][k].connected
                  /\ ~said'[u][k].connected => k = Len(said'[u]) /\ u \notin linked'
             /\ u \in DOMAIN opened' \ linked' => said'[u] # <<>> /\ ~said'[u][Len(said'[u])].connected
             /\ said'[u] # <<>> => u \in DOMAIN opened'
  BY <1>2, <1>3 DEF KInv, Saying
<1> DEFINE q == said[s]
           r == said'[s]
<1>4. q \in Seq(Transactions) /\ Len(q) \in Nat /\ r = Append(q, t)
  BY <1>1 DEF Chain, KInv, CInv, Shapes
<1>5. \A k \in 1..Len(q) : q[k].connected /\ (q[k].initial <=> k = 1)
  BY <1>1 DEF KInv, Saying
<1>6. /\ Len(r) = Len(q) + 1 /\ r[Len(q) + 1] = t /\ r # <<>>
      /\ \A k \in 1..Len(q) : r[k] = q[k]
  BY <1>4
<1>7. q = <<>> <=> Len(q) + 1 = 1
  BY <1>4
<1>8. ASSUME NEW k \in 1..Len(r)
      PROVE  /\ r[k].initial <=> k = 1 /\ r[k].connected
             /\ ~r[k].connected => k = Len(r) /\ s \notin linked'
  <2>1. CASE k \in 1..Len(q)
    BY <2>1, <1>5, <1>6
  <2>2. CASE k = Len(q) + 1
    <3>1. r[k] = t /\ k = Len(r)
      BY <2>2, <1>6
    <3>2. t.initial <=> k = 1 /\ t.connected
      BY <2>2, <1>7
    <3> QED BY <3>1, <3>2
  <2> QED BY <1>4, <1>6, <2>1, <2>2
<1>9. s \notin linked' => ~r[Len(r)].connected
  BY <1>6
<1> QED BY <1>1, <1>3, <1>6, <1>8, <1>9 DEF Saying

\* Sessions keep the order of their transactions.
LEMMA StepSaying == ASSUME KInv, [Next]_vars PROVE Saying'
<1>1. CASE UNCHANGED <<said, linked, opened>>
  BY <1>1 DEF KInv, Saying
<1>2. ASSUME NEW s \in Sessions, NEW a \in Addresses[s], Open(s, a) PROVE Saying'
  <2>1. /\ said' = said /\ linked' = linked \cup {s} /\ s \notin DOMAIN opened
        /\ DOMAIN opened' = DOMAIN opened \cup {s}
    BY <1>2 DEF Open, With
  <2>2. said[s] = <<>> /\ Len(said[s]) = 0
    BY <2>1 DEF KInv, Saying
  <2> QED BY <2>1, <2>2 DEF KInv, Saying
<1>3. ASSUME NEW s \in Sessions, Lose(s) PROVE Saying'
  <2> DEFINE t == [initial |-> FALSE, connected |-> FALSE, body |-> NoBody]
  <2>1. t \in Transactions /\ ~t.initial /\ ~t.connected
    BY DEF Transactions
  <2>2. s \in linked /\ Chain(s, t) /\ opened' = opened /\ linked' = linked \ {s}
    BY <1>3 DEF Lose
  <2> HIDE DEF t
  <2> QED BY <2>1, <2>2, ChainSaying
<1>4. ASSUME NEW s \in Sessions, NEW b \in Bodies, Upload(s, b) PROVE Saying'
  <2> DEFINE t == [initial |-> said[s] = <<>>, connected |-> TRUE, body |-> b]
  <2>1. t \in Transactions
    BY DEF Transactions
  <2>2. t.connected /\ (t.initial <=> said[s] = <<>>)
    BY Zenon
  <2>3. s \in linked /\ Chain(s, t) /\ opened' = opened /\ linked' = linked
    BY <1>4 DEF Upload
  <2> HIDE DEF t
  <2> QED BY <2>1, <2>2, <2>3, ChainSaying
<1> QED BY <1>1, <1>2, <1>3, <1>4 DEF Next, SessionNext, commit, Fires, Ends, vars

\* A session that is gone stays so.
LEMMA GoneStays ==
  ASSUME KInv, [Next]_vars, NEW u \in DOMAIN opened, Gone(u)
  PROVE  Gone(u)'
<1>1. u \in Sessions /\ said \in [Sessions -> Seq(Transactions)] /\ finished \in [Sessions -> Nat]
  BY DEF KInv, CInv, TypeOK, Shapes
<1>2. u \notin linked /\ ~(finished[u] < Len(said[u]))
  BY <1>1 DEF Gone
<1>3. results[u] = NoCommit
  BY <1>1, <1>2 DEF KInv, CInv, UnderWay
<1>4. said'[u] = said[u]
  BY <1>1, <1>2 DEF Next, SessionNext, Open, Lose, Upload, Chain, commit, Fires, Ends, vars
<1>5. u \notin linked'
  <2>1. linked' \subseteq linked \/ \E s \in Sessions : s \notin DOMAIN opened /\ linked' = linked \cup {s}
    BY DEF Next, SessionNext, Open, Lose, Upload, commit, Fires, Ends, vars
  <2> QED BY <1>2, <2>1
<1>6. finished'[u] = finished[u]
  BY <1>1, <1>2, <1>3 DEF Next, SessionNext, Open, Lose, Upload, commit, Runnable, Unfinished,
                          Fires, AllFired, Ends, vars
<1> QED BY <1>4, <1>5, <1>6 DEF Gone

\* An address comes back when its earlier session is gone.
LEMMA StepApart == ASSUME ~ReuseEarly, KInv, [Next]_vars PROVE Apart'
<1>1. \A u \in DOMAIN opened : Gone(u) => Gone(u)'
  BY GoneStays
<1>2. CASE opened' = opened
  BY <1>1, <1>2 DEF KInv, Apart
<1>3. ASSUME NEW s \in Sessions, NEW a \in Addresses[s], Open(s, a) PROVE Apart'
  <2>1. /\ s \notin DOMAIN opened
        /\ \A u \in DOMAIN opened : opened[u] = a => u \notin linked /\ ~Unfinished(u)
        /\ opened' = [u \in DOMAIN opened \cup {s} |-> IF u = s THEN a ELSE opened[u]]
    BY <1>3 DEF Open, With
  <2>2. \A u \in DOMAIN opened : opened[u] = a => Gone(u)
    <3>1. \A u \in DOMAIN opened : finished[u] \in Nat /\ Len(said[u]) \in Nat /\ finished[u] <= Len(said[u])
      BY DEF KInv, CInv, TypeOK, Shapes
    <3> QED BY <2>1, <3>1 DEF Gone, Unfinished
  <2>3. ASSUME NEW u \in DOMAIN opened', NEW v \in DOMAIN opened', u # v, opened'[u] = opened'[v]
        PROVE  Gone(u)' \/ Gone(v)'
    <3>1. CASE u = s
      BY <1>1, <2>1, <2>2, <2>3, <3>1
    <3>2. CASE v = s
      BY <1>1, <2>1, <2>2, <2>3, <3>2
    <3>3. CASE u # s /\ v # s
      BY <1>1, <2>1, <2>3, <3>3 DEF KInv, Apart
    <3> QED BY <3>1, <3>2, <3>3
  <2> QED BY <2>3 DEF Apart
<1> QED BY <1>2, <1>3 DEF Next, SessionNext, Lose, Upload, commit, Fires, Ends, vars

\* Every step keeps KInv.
LEMMA StepKInv == ASSUME ~ReuseEarly, KInv, [Next]_vars PROVE KInv'
  BY StepCInv, StepRaisersLast, StepSaying, StepApart, StepGiven DEF KInv

TablesTyped ==
  /\ server \in [DOMAIN server -> AllAddresses] /\ DOMAIN server \subseteq Nat
  /\ \E n \in Nat : \A i \in DOMAIN server : i <= n
  /\ record \in [DOMAIN server -> SUBSET RecIds]

TInv == KInv /\ TablesTyped /\ TablesFollow

\* The tables are empty at first.
LEMMA InitTables == ASSUME DBInit PROVE TablesTyped /\ TablesFollow
<1>1. /\ server = <<>> /\ record = <<>> /\ sources = <<>>
      /\ \A s \in Sessions : results[s] = <<>> /\ seen["db"][s] = <<>>
  BY DBAssumption DEF DBInit, Init, None, NoCommit
<1>2. DOMAIN <<>> = {} /\ \A S : <<>> \in [{} -> S]
  OBVIOUS
<1>3. Stored = {}
  BY <1>1, <1>2 DEF Stored, Applied
<1>4. TablesTyped
  BY <1>1, <1>2 DEF TablesTyped
<1>5. TablesFollow
  BY <1>1, <1>2, <1>3 DEF TablesFollow, IsInjective, Range
<1> QED BY <1>4, <1>5

\* What "db" is given and has finished with, in terms of what the session said.
LEMMA AppliedIs ==
  ASSUME KInv, "db" \in ToSet(procs), NEW s \in Sessions
  PROVE  /\ said[s] \in Seq(Transactions) /\ finished[s] \in 0..Len(said[s]) /\ Len(said[s]) \in Nat
         /\ \/ /\ Applied(s) = SubSeq(said[s], 1, finished[s])
               /\ results[s] = NoCommit \/ ("db" \in DOMAIN results[s] /\ results[s]["db"] = "pending")
            \/ /\ Applied(s) = SubSeq(said[s], 1, finished[s] + 1) /\ results[s] # NoCommit
               /\ finished[s] < Len(said[s])
<1>1. said[s] \in Seq(Transactions) /\ finished[s] \in 0..Len(said[s]) /\ Len(said[s]) \in Nat
  BY DEF KInv, CInv, Shapes, TypeOK
<1>2. seen["db"][s] = HandedOver(s)
  BY DEF KInv, Given
<1>3. CASE results[s] = NoCommit
  <2>1. HandedOver(s) = SubSeq(said[s], 1, finished[s] + 0)
    BY <1>3 DEF HandedOver
  <2>2. HandedOver(s) = SubSeq(said[s], 1, finished[s])
    BY <1>1, <2>1
  <2>3. DOMAIN results[s] = {}
    BY <1>3 DEF NoCommit
  <2> QED BY <1>1, <1>2, <1>3, <2>2, <2>3 DEF Applied
<1>4. CASE results[s] # NoCommit
  <2>1. HandedOver(s) = SubSeq(said[s], 1, finished[s] + 1) /\ finished[s] < Len(said[s])
    BY <1>4 DEF HandedOver, KInv, CInv, UnderWay
  <2>2. CASE "db" \in DOMAIN results[s] /\ results[s]["db"] = "pending"
    <3> DEFINE t == said[s][finished[s] + 1]
               q == SubSeq(said[s], 1, finished[s])
    <3>1. t \in Transactions /\ q \in Seq(Transactions) /\ finished[s] \in Nat
      BY <1>1, <2>1
    <3>2. HandedOver(s) = Append(q, t)
      BY <1>1, <2>1, <3>1, PrefixGrows
    <3> HIDE DEF t, q
    <3>3. Front(HandedOver(s)) = q
      BY <3>1, <3>2, FrontLastOfAppend
    <3> USE DEF q
    <3> QED BY <1>1, <1>2, <2>2, <3>3 DEF Applied
  <2>3. CASE ~("db" \in DOMAIN results[s] /\ results[s]["db"] = "pending")
    BY <1>1, <1>2, <1>4, <2>1, <2>3 DEF Applied
  <2> QED BY <2>2, <2>3
<1> QED BY <1>3, <1>4

\* A client that the tables hold has connected, and is not gone.
LEMMA StoredOpened ==
  ASSUME KInv, "db" \in ToSet(procs), NEW s \in Stored
  PROVE  s \in DOMAIN opened /\ ~Gone(s)
<1>1. s \in Sessions /\ Applied(s) # <<>> /\ Last(Applied(s)).connected
  BY DEF Stored
<1> DEFINE q == said[s]
           n == finished[s]
<1>2. /\ q \in Seq(Transactions) /\ n \in 0..Len(q) /\ Len(q) \in Nat
      /\ \/ Applied(s) = SubSeq(q, 1, n)
         \/ Applied(s) = SubSeq(q, 1, n + 1) /\ n < Len(q)
  BY <1>1, AppliedIs
<1>3. q # <<>>
  <2> HIDE DEF q, n
  <2> QED BY <1>1, <1>2
<1>4. s \in DOMAIN opened
  BY <1>1, <1>3 DEF KInv, Saying
<1>5. ASSUME Gone(s) PROVE FALSE
  <2>1. n = Len(q) /\ ~q[Len(q)].connected
    BY <1>1, <1>4, <1>5 DEF Gone, KInv, Saying
  <2> HIDE DEF q, n
  <2>2. Applied(s) = q
    BY <1>2, <2>1
  <2> QED BY <1>1, <2>1, <2>2 DEF Last
<1> QED BY <1>4, <1>5

\* An outcome of "db" aside, no step changes what it has finished with.
LEMMA AppliedStays ==
  ASSUME KInv, "db" \in ToSet(procs), NEW u \in Sessions, [Next]_vars,
         results[u] = NoCommit \/ results'[u] = NoCommit \/ "db" \notin DOMAIN results[u]
           \/ results'[u]["db"] = results[u]["db"]
  PROVE  Applied(u)' = Applied(u)
<1>1. "db" \in Processors /\ "db" \notin Raises /\ DOMAIN NoCommit = {}
  BY DBAssumption DEF NoCommit
<1>2. CASE UNCHANGED <<seen, results>>
  BY <1>2 DEF Applied
<1>3. ASSUME NEW s \in Sessions, commit(s) PROVE Applied(u)' = Applied(u)
  <2>1. PICK F \in SUBSET (Raises \cap ToSet(procs)), given \in SUBSET ToSet(procs) :
           /\ given = Visited(F) /\ given \subseteq Processors
           /\ finished[s] < Len(said[s]) /\ results[s] = NoCommit
           /\ results'[s] = [p \in given |-> IF p \in F THEN "error" ELSE "pending"]
           /\ results' = [results EXCEPT ![s] = results'[s]]
           /\ results'[s] = NoCommit <=> given = {}
           /\ finished' = IF given = {} THEN [finished EXCEPT ![s] = @ + 1] ELSE finished
           /\ seen' = [p \in Processors |->
                IF p \in given THEN [seen[p] EXCEPT ![s] = Append(@, said[s][finished[s] + 1])]
                               ELSE seen[p]]
           /\ procs' = Punished(F \cap given)
    BY <1>3, CommitFacts DEF KInv
  <2>2. given = ToSet(procs)
    BY <2>1, VisitedAll DEF KInv, CInv, TypeOK
  <2>3. "db" \in DOMAIN results'[s] /\ results'[s]["db"] = "pending"
    BY <1>1, <2>1, <2>2
  <2> DEFINE t == said[s][finished[s] + 1]
  <2>4. t \in Transactions /\ seen["db"] \in [Sessions -> Seq(Transactions)]
    BY <1>1, <2>1 DEF KInv, CInv, Shapes, TypeOK
  <2>5. seen'["db"] = [seen["db"] EXCEPT ![s] = Append(@, t)]
    BY <1>1, <2>1, <2>2
  <2> HIDE DEF t
  <2>6. CASE u = s
    <3>1. seen'["db"][u] = Append(seen["db"][u], t)
      BY <2>4, <2>5, <2>6
    <3>2. Front(seen'["db"][u]) = seen["db"][u]
      BY <2>4, <3>1, FrontLastOfAppend
    <3> QED BY <1>1, <2>1, <2>3, <2>6, <3>2 DEF Applied
  <2>7. CASE u # s
    <3>1. seen'["db"][u] = seen["db"][u] /\ results'[u] = results[u]
      BY <2>1, <2>4, <2>5, <2>7 DEF KInv, CInv, Shapes
    <3> QED BY <3>1 DEF Applied
  <2> QED BY <2>6, <2>7
<1>4. ASSUME NEW s \in Sessions, Fires(s) PROVE Applied(u)' = Applied(u)
  <2>1. seen' = seen /\ results' = [results EXCEPT ![s] = NoCommit] /\ AllFired(s)
    BY <1>4 DEF Fires
  <2>2. CASE u = s
    <3>1. results'[u] = NoCommit
      BY <2>1, <2>2 DEF KInv, CInv, Shapes
    <3> QED BY <1>1, <2>1, <2>2, <3>1 DEF Applied, AllFired
  <2>3. CASE u # s
    <3>1. results'[u] = results[u]
      BY <2>1, <2>3 DEF KInv, CInv, Shapes
    <3> QED BY <2>1, <3>1 DEF Applied
  <2> QED BY <2>2, <2>3
<1>5. ASSUME NEW s \in Sessions, NEW p \in Processors, NEW r \in Outcomes(p), Ends(p, s, r)
      PROVE  Applied(u)' = Applied(u)
  <2>1. /\ seen' = seen /\ results'[s] # NoCommit /\ results[s] # NoCommit
        /\ DOMAIN results'[s] = DOMAIN results[s]
        /\ u # s => results'[u] = results[u]
    BY <1>5, EndsFacts DEF KInv, Ends
  <2> QED BY <2>1 DEF Applied
<1> QED BY <1>2, <1>3, <1>4, <1>5 DEF Next, SessionNext, Open, Lose, Upload, vars

\* No processor comes back.
LEMMA ProcsShrink == ASSUME KInv, [Next]_vars PROVE ToSet(procs)' \subseteq ToSet(procs)
<1>1. procs \in Seq(Processors)
  BY DEF KInv, CInv, TypeOK
<1>2. procs' = procs \/ \E F : procs' = Punished(F)
  BY DEF Next, SessionNext, Open, Lose, Upload, commit, Fires, Ends, vars
<1> QED BY <1>1, <1>2, PunishedProcs

\* A session keeps its address.
LEMMA OpenedStays == ASSUME [Next]_vars, NEW u \in DOMAIN opened PROVE opened'[u] = opened[u]
  BY DEF Next, SessionNext, Open, With, Lose, Upload, commit, Fires, Ends, vars

\* The tables are not touched, and neither is what "db" has finished with.
LEMMA TablesStay ==
  ASSUME TInv, [Next]_vars, UNCHANGED <<tables, sources>>,
         "db" \in ToSet(procs) => \A u \in Sessions : Applied(u)' = Applied(u)
  PROVE  TablesTyped' /\ TablesFollow'
<1>1. TablesTyped'
  BY DEF TInv, TablesTyped, tables
<1>2. ASSUME "db" \in ToSet(procs)' PROVE TablesFollow'
  <2>1. "db" \in ToSet(procs)
    BY <1>2, ProcsShrink DEF TInv
  <2>2. Stored' = Stored
    BY <2>1 DEF Stored
  <2>3. \A u \in Sessions : Present(u)' = Present(u)
    BY <2>1 DEF Present
  <2>4. \A u \in Stored : opened'[u] = opened[u] /\ u \in Sessions
    BY <2>1, StoredOpened, OpenedStays DEF TInv, Stored
  <2>5. server' = server /\ record' = record /\ sources' = sources
    BY DEF tables
  <2>6. TablesFollow
    BY DEF TInv
  <2> QED BY <2>1, <2>2, <2>3, <2>4, <2>5, <2>6 DEF TablesFollow
<1>3. "db" \notin ToSet(procs)' => TablesFollow'
  BY DEF TablesFollow
<1> QED BY <1>1, <1>2, <1>3

-----------------------------------------------------------------------------
(* The interaction.                                                        *)

\* The id of a new row is not in use.
LEMMA NewIdIsNew ==
  ASSUME TablesTyped
  PROVE  NewId \in Nat /\ NewId \notin DOMAIN server /\ \A j \in DOMAIN server : j <= NewId
<1> DEFINE T == {0} \cup DOMAIN server
<1>1. PICK n \in Nat : \A i \in DOMAIN server : i <= n
  BY DEF TablesTyped
<1>2. T \in SUBSET Nat /\ T # {} /\ \A i \in T : i <= n
  BY <1>1 DEF TablesTyped
<1>3. NewId = 1 + Max(T)
  BY DEF NewId
<1> HIDE DEF T
<1>4. Max(T) \in Nat /\ \A i \in T : i <= Max(T)
  BY <1>2, MaxBounded
<1>5. \A j \in DOMAIN server : j \in T /\ j \in Nat
  BY DEF T, TablesTyped
<1> QED BY <1>2, <1>3, <1>4, <1>5

\* The records that a list of transactions leaves.
Left(q) ==
  {r \in RecIds : \E k \in DOMAIN q :
     /\ r \in q[k].body.adds
     /\ \A j \in DOMAIN q : j > k => r \notin q[j].body.dels}

\* What is left in the table after one more transaction.
LEMMA LeftAppend ==
  ASSUME NEW q \in Seq(Transactions), NEW t \in Transactions
  PROVE  Left(Append(q, t)) = Replaced(Left(q), t.body)
<1>1. t.body.adds \subseteq RecIds
  BY BodiesAssumption DEF Transactions
<1> DEFINE n == Len(q)
           w == Append(q, t)
<1>2. /\ n \in Nat /\ DOMAIN q = 1..n /\ DOMAIN w = 1..(n + 1) /\ w[n + 1] = t
      /\ \A k \in 1..n : w[k] = q[k]
  OBVIOUS
<1> HIDE DEF w, n
<1>3. ASSUME NEW r \in RecIds
      PROVE  r \in Left(w) <=> r \in t.body.adds \/ (r \in Left(q) /\ r \notin t.body.dels)
  <2>1. ASSUME r \in Left(w) PROVE r \in t.body.adds \/ (r \in Left(q) /\ r \notin t.body.dels)
    <3>1. PICK k \in DOMAIN w : /\ r \in w[k].body.adds
                                /\ \A j \in DOMAIN w : j > k => r \notin w[j].body.dels
      BY <2>1 DEF Left
    <3>2. CASE k = n + 1
      BY <1>2, <3>1, <3>2
    <3>3. CASE k \in 1..n
      <4>1. n + 1 \in DOMAIN w /\ n + 1 > k
        BY <1>2, <3>3
      <4>2. r \notin t.body.dels
        BY <1>2, <3>1, <4>1
      <4>3. \A j \in DOMAIN q : j > k => r \notin q[j].body.dels
        BY <1>2, <3>1
      <4> QED BY <1>2, <3>1, <3>3, <4>2, <4>3 DEF Left
    <3> QED BY <1>2, <3>1, <3>2, <3>3
  <2>2. ASSUME r \in t.body.adds PROVE r \in Left(w)
    <3>1. n + 1 \in DOMAIN w /\ \A j \in DOMAIN w : ~(j > n + 1)
      BY <1>2
    <3> QED BY <1>2, <2>2, <3>1 DEF Left
  <2>3. ASSUME r \in Left(q), r \notin t.body.dels PROVE r \in Left(w)
    <3>1. PICK k \in DOMAIN q : /\ r \in q[k].body.adds
                                /\ \A j \in DOMAIN q : j > k => r \notin q[j].body.dels
      BY <2>3 DEF Left
    <3>2. k \in DOMAIN w /\ r \in w[k].body.adds
      BY <1>2, <3>1
    <3>3. ASSUME NEW j \in DOMAIN w, j > k PROVE r \notin w[j].body.dels
      <4>1. CASE j = n + 1
        BY <1>2, <2>3, <4>1
      <4>2. CASE j \in 1..n
        BY <1>2, <3>1, <3>3, <4>2
      <4> QED BY <1>2, <4>1, <4>2
    <3> QED BY <3>2, <3>3 DEF Left
  <2> QED BY <2>1, <2>2, <2>3
<1>4. Left(w) \subseteq RecIds /\ Left(q) \subseteq RecIds
  BY DEF Left
<1>5. Left(w) = Replaced(Left(q), t.body)
  BY <1>1, <1>3, <1>4 DEF Replaced
<1> QED BY <1>5 DEF w

\* The interaction of s is about the transaction after the ones "db" has
\* finished with.
LEMMA InteractionFacts ==
  ASSUME KInv, "db" \in ToSet(procs), NEW s \in Sessions, Ended(s, "ok")
  PROVE  /\ Current(s) \in Transactions /\ Applied(s) \in Seq(Transactions)
         /\ s \in DOMAIN opened /\ ~Gone(s)
         /\ Applied(s)' = Append(Applied(s), Current(s))
         /\ \A u \in Sessions : u # s => Applied(u)' = Applied(u)
         /\ UNCHANGED <<procs, said, finished, seen, opened>>
         /\ Current(s).initial <=> Applied(s) = <<>> /\ Current(s).connected
         /\ s \in Stored <=> Applied(s) # <<>>
<1>1. /\ Ends("db", s, "ok") /\ "db" \in DOMAIN results[s] /\ results[s]["db"] = "pending"
      /\ UNCHANGED <<procs, said, finished, seen, linked, opened>>
  BY DEF Ended, Ends
<1>2. "db" \in Processors /\ "ok" \in Outcomes("db") /\ [Next]_vars
  BY <1>1, DBAssumption DEF Outcomes, Next
<1>3. /\ results'[s] = [results[s] EXCEPT !["db"] = "ok"] /\ results[s] # NoCommit
      /\ \A u \in Sessions : u # s => results'[u] = results[u]
  BY <1>1, <1>2, EndsFacts DEF KInv
<1> DEFINE n == finished[s]
           q == said[s]
           t == Current(s)
<1>4. /\ q \in Seq(Transactions) /\ n \in Nat /\ Len(q) \in Nat /\ n < Len(q)
      /\ t = q[n + 1] /\ t \in Transactions
  BY <1>3 DEF KInv, CInv, Shapes, UnderWay, Current
<1>5. HandedOver(s) = SubSeq(q, 1, n + 1) /\ seen["db"][s] = HandedOver(s)
  BY <1>3 DEF HandedOver, KInv, Given
<1>6. seen["db"][s] = Append(SubSeq(q, 1, n), t) /\ SubSeq(q, 1, n) \in Seq(Transactions)
  <2>1. SubSeq(q, 1, n + 1) = Append(SubSeq(q, 1, n), q[n + 1])
    <3> HIDE DEF q, n
    <3> QED BY <1>4, PrefixGrows
  <2>2. SubSeq(q, 1, n) \in Seq(Transactions)
    BY <1>4
  <2> QED BY <1>4, <1>5, <2>1, <2>2
<1>7. Applied(s) = SubSeq(q, 1, n)
  <2>1. Front(seen["db"][s]) = SubSeq(q, 1, n)
    <3> DEFINE w == SubSeq(q, 1, n)
    <3> HIDE DEF w, t
    <3>1. w \in Seq(Transactions) /\ t \in Transactions /\ seen["db"][s] = Append(w, t)
      BY <1>4, <1>6 DEF w
    <3>2. Front(seen["db"][s]) = w
      BY <3>1, FrontLastOfAppend
    <3> QED BY <3>2 DEF w
  <2> QED BY <1>1, <2>1 DEF Applied
<1>8. Applied(s)' = Append(Applied(s), t)
  <2>1. results'[s]["db"] = "ok" /\ seen'["db"][s] = seen["db"][s]
    BY <1>1, <1>3
  <2> QED BY <1>6, <1>7, <2>1 DEF Applied
<1>9. \A u \in Sessions : u # s => Applied(u)' = Applied(u)
  BY <1>2, <1>3, AppliedStays
<1>10. /\ \A k \in 1..Len(q) : /\ q[k].initial <=> k = 1 /\ q[k].connected
                               /\ ~q[k].connected => k = Len(q)
       /\ q # <<>> => s \in DOMAIN opened
  BY DEF KInv, Saying
<1>11. s \in DOMAIN opened /\ ~Gone(s)
  BY <1>4, <1>10 DEF Gone
<1> HIDE DEF q, n, t
<1>12. Applied(s) = <<>> <=> n + 1 = 1
  BY <1>4, <1>7
<1>13. t.initial <=> Applied(s) = <<>> /\ t.connected
  <2>1. n + 1 \in 1..Len(q)
    BY <1>4
  <2>2. q[n + 1].initial <=> n + 1 = 1 /\ q[n + 1].connected
    BY <1>10, <2>1, Zenon
  <2> QED BY <1>4, <1>12, <2>2, Zenon
<1>14. Applied(s) # <<>> => Last(Applied(s)).connected
  <2> SUFFICES ASSUME Applied(s) # <<>> PROVE Last(Applied(s)).connected
    OBVIOUS
  <2>1. n \in 1..Len(q) /\ n # Len(q)
    BY <1>4, <1>12
  <2>2. Last(Applied(s)) = q[n]
    BY <1>4, <1>7, <2>1 DEF Last
  <2> QED BY <1>10, <2>1, <2>2, Zenon
<1>15. s \in Stored <=> Applied(s) # <<>>
  BY <1>14 DEF Stored
<1> QED BY <1>1, <1>4, <1>6, <1>7, <1>8, <1>9, <1>11, <1>13, <1>15 DEF t

\* The table with the row of s.
LEMMA WithRowFacts ==
  ASSUME TablesTyped, NEW s
  PROVE  /\ DOMAIN WithRow(s) = DOMAIN server \cup {NewId} /\ WithRow(s)[NewId] = opened[s]
         /\ \A j \in DOMAIN server : WithRow(s)[j] = server[j]
<1>1. NewId \notin DOMAIN server
  BY NewIdIsNew
<1>2. WithRow(s) = [j \in DOMAIN server \cup {NewId} |-> IF j = NewId THEN opened[s] ELSE server[j]]
  BY DEF WithRow, With
<1> QED BY <1>1, <1>2

\* A commit that is stored keeps the tables' types.
LEMMA StoresTyped ==
  ASSUME TInv, NEW s \in Sessions, NEW i, DBStores(s, i)
  PROVE  TablesTyped'
<1>1. /\ server' = [j \in Rows(s, i) |-> ServersNow(s)[j]]
      /\ record' = [j \in Rows(s, i) |->
           IF j = i THEN Replaced(RecordsNow(i), Current(s).body) ELSE RecordsNow(j)]
      /\ "db" \in DOMAIN results[s]
  BY DEF DBStores, Ended, Ends
<1>2. results[s] # NoCommit
  BY <1>1 DEF NoCommit
<1>3. /\ said[s] \in Seq(Transactions) /\ finished[s] \in Nat /\ finished[s] < Len(said[s])
      /\ TablesTyped
  BY <1>2 DEF TInv, KInv, CInv, Shapes, UnderWay
<1>4. said[s] # <<>> /\ Current(s) \in Transactions
  BY <1>3 DEF Current
<1>5. opened[s] \in AllAddresses
  BY <1>4 DEF TInv, KInv, Saying, CInv, TypeOK
<1>6. /\ DOMAIN ServersNow(s) \subseteq DOMAIN server \cup {NewId}
      /\ \A j \in DOMAIN ServersNow(s) : ServersNow(s)[j] \in AllAddresses
  BY <1>3, <1>5, WithRowFacts DEF ServersNow, TablesTyped
<1>7. Rows(s, i) \subseteq DOMAIN ServersNow(s)
  BY DEF Rows
<1>8. DOMAIN server' = Rows(s, i) /\ server' \in [DOMAIN server' -> AllAddresses]
  BY <1>1, <1>6, <1>7
<1>9. /\ NewId \in Nat /\ DOMAIN server' \subseteq Nat
      /\ \A j \in DOMAIN server' : j <= NewId
  BY <1>3, <1>6, <1>7, <1>8, NewIdIsNew DEF TablesTyped
<1>10. record' \in [DOMAIN server' -> SUBSET RecIds]
  <2>1. \A j : RecordsNow(j) \subseteq RecIds
    BY <1>3 DEF RecordsNow, TablesTyped
  <2>2. Current(s).body.adds \subseteq RecIds
    BY <1>4, BodiesAssumption DEF Transactions
  <2>3. Replaced(RecordsNow(i), Current(s).body) \subseteq RecIds
    BY <2>1, <2>2 DEF Replaced
  <2> QED BY <1>1, <1>8, <2>1, <2>3
<1> QED BY <1>8, <1>9, <1>10 DEF TablesTyped

\* A commit that is stored makes the tables follow it, for its session and for
\* the others.
LEMMA StoresFollow ==
  ASSUME TInv, NEW s \in Sessions, NEW i, DBStores(s, i), "db" \in ToSet(procs)
  PROVE  TablesFollow'
<1> DEFINE t == Current(s)
<1>1. /\ i \in Srvids(s) /\ sources' = SourcesAfter(s, i) /\ Ended(s, "ok")
      /\ server' = [j \in Rows(s, i) |-> ServersNow(s)[j]]
      /\ record' = [j \in Rows(s, i) |->
           IF j = i THEN Replaced(RecordsNow(i), t.body) ELSE RecordsNow(j)]
  BY DEF DBStores
<1>2. /\ t \in Transactions /\ Applied(s) \in Seq(Transactions)
      /\ s \in DOMAIN opened /\ ~Gone(s)
      /\ Applied(s)' = Append(Applied(s), t)
      /\ \A u \in Sessions : u # s => Applied(u)' = Applied(u)
      /\ UNCHANGED <<procs, said, finished, seen, opened>>
      /\ t.initial <=> Applied(s) = <<>> /\ t.connected
      /\ s \in Stored <=> Applied(s) # <<>>
  BY <1>1, InteractionFacts DEF TInv
<1>3. /\ DOMAIN sources = Stored
      /\ \A u, v \in Stored : sources[u] = sources[v] => u = v
      /\ DOMAIN server = {sources[u] : u \in Stored}
      /\ \A u \in Stored : server[sources[u]] = opened[u] /\ record[sources[u]] = Left(Applied(u))
  BY DEF TInv, TablesFollow, IsInjective, Range, Present, Left
<1>4. TablesTyped /\ DOMAIN record = DOMAIN server
  BY DEF TInv, TablesTyped
<1>5. Left(Applied(s)') = Replaced(Left(Applied(s)), t.body)
  BY <1>2, LeftAppend
<1>6. Stored' = IF t.connected THEN Stored \cup {s} ELSE Stored \ {s}
  <2>1. Applied(s)' # <<>> /\ Last(Applied(s)') = t
    BY <1>2, FrontLastOfAppend
  <2>2. \A u \in Sessions : u # s => (u \in Stored' <=> u \in Stored)
    BY <1>2 DEF Stored
  <2>3. s \in Stored' <=> t.connected
    BY <2>1 DEF Stored
  <2>4. Stored' \subseteq Sessions /\ Stored \subseteq Sessions
    BY DEF Stored
  <2> QED BY <2>2, <2>3, <2>4
<1>7. \A u \in Stored : u # s => Applied(u)' = Applied(u) /\ opened'[u] = opened[u]
  BY <1>2 DEF Stored
<1> HIDE DEF t
\* It is enough to look at the tables.
<1>8. SUFFICES /\ DOMAIN sources' = Stored'
               /\ \A u, v \in Stored' : sources'[u] = sources'[v] => u = v
               /\ DOMAIN server' = {sources'[u] : u \in Stored'}
               /\ \A u \in Stored' : /\ server'[sources'[u]] = opened[u]
                                      /\ record'[sources'[u]] = Left(Applied(u)')
  BY <1>2 DEF TablesFollow, IsInjective, Range, Present, Left
\* The first upload: no row has the address, so that the new one is found.
<1>9. CASE t.initial
  <2>1. s \notin Stored /\ t.connected /\ Applied(s) = <<>> /\ Stored' = Stored \cup {s}
    BY <1>2, <1>6, <1>9
  <2>2. ServersNow(s) = WithRow(s) /\ Rows(s, i) = DOMAIN server \cup {NewId}
    BY <1>4, <1>9, <2>1, WithRowFacts DEF t, ServersNow, Rows
  <2>3. \A u \in Stored : opened[u] # opened[s]
    <3> SUFFICES ASSUME NEW u \in Stored, opened[u] = opened[s] PROVE FALSE
      OBVIOUS
    <3>1. u \in DOMAIN opened /\ ~Gone(u) /\ u # s
      BY <2>1, StoredOpened DEF TInv
    <3> QED BY <1>2, <3>1 DEF TInv, KInv, Apart
  <2>4. \A j \in DOMAIN server : server[j] # opened[s]
    BY <1>3, <2>3
  <2>5. i = NewId
    <3>1. i \in DOMAIN WithRow(s) /\ WithRow(s)[i] = opened[s]
      BY <1>1, <1>9 DEF Srvids, t
    <3> QED BY <1>4, <2>4, <3>1, WithRowFacts
  <2>6. i \notin DOMAIN server
    BY <1>4, <2>5, NewIdIsNew
  <2>7. /\ DOMAIN sources' = Stored' /\ sources'[s] = i
        /\ \A u \in Stored : sources'[u] = sources[u] /\ sources[u] \in DOMAIN server
    <3>1. sources' = [u \in DOMAIN sources \cup {s} |-> IF u = s THEN i ELSE sources[u]]
      BY <1>1, <2>1 DEF SourcesAfter, With, t
    <3> QED BY <1>3, <2>1, <3>1
  <2>8. /\ DOMAIN server' = DOMAIN server \cup {i} /\ server'[i] = opened[s]
        /\ \A j \in DOMAIN server : server'[j] = server[j]
    BY <1>1, <1>4, <2>2, <2>5, WithRowFacts
  <2>9. Left(<<>>) = {} /\ RecordsNow(i) = {}
    BY <1>4, <2>6 DEF Left, RecordsNow
  <2>10. /\ record'[i] = Left(Applied(s)')
         /\ \A j \in DOMAIN server : record'[j] = record[j]
    BY <1>1, <1>4, <1>5, <2>1, <2>2, <2>5, <2>6, <2>9 DEF RecordsNow
  <2>11. \A u, v \in Stored' : sources'[u] = sources'[v] => u = v
    BY <1>3, <2>1, <2>6, <2>7
  <2>12. DOMAIN server' = {sources'[u] : u \in Stored'}
    BY <1>3, <2>1, <2>7, <2>8
  <2>13. ASSUME NEW u \in Stored'
         PROVE  server'[sources'[u]] = opened[u] /\ record'[sources'[u]] = Left(Applied(u)')
    <3>1. CASE u = s
      BY <2>7, <2>8, <2>10, <3>1
    <3>2. CASE u # s
      <4>1. u \in Stored
        BY <2>1, <3>2
      <4> QED BY <1>3, <1>7, <2>7, <2>8, <2>10, <3>2, <4>1
    <3> QED BY <3>1, <3>2
  <2> QED BY <2>7, <2>11, <2>12, <2>13
<1> DEFINE k == sources[s]
\* Otherwise the row is the one of the client's own entry.
<1>10. ASSUME ~t.initial
       PROVE  /\ s \in Stored /\ i = k /\ i \in DOMAIN server /\ ServersNow(s) = server
              /\ RecordsNow(i) = Left(Applied(s))
  <2>1. s \in DOMAIN sources /\ i = k
    BY <1>1, <1>10 DEF Srvids, t
  <2>2. ServersNow(s) = server
    BY <1>10 DEF ServersNow, t
  <2> QED BY <1>3, <1>4, <2>1, <2>2 DEF RecordsNow
<1> HIDE DEF k
\* A later upload: the records of that row are replaced.
<1>11. CASE ~t.initial /\ t.connected
  <2>1. Stored' = Stored /\ Rows(s, i) = DOMAIN server
    BY <1>6, <1>10, <1>11 DEF Rows, t
  <2>2. DOMAIN sources' = Stored /\ \A u \in Stored : sources'[u] = sources[u]
    <3>1. sources' = [u \in DOMAIN sources \cup {s} |-> IF u = s THEN i ELSE sources[u]]
      BY <1>1, <1>11 DEF SourcesAfter, With, t
    <3> QED BY <1>3, <1>10, <1>11, <3>1 DEF k
  <2>3. DOMAIN server' = DOMAIN server /\ \A j \in DOMAIN server : server'[j] = server[j]
    BY <1>1, <1>10, <1>11, <2>1
  <2>4. record'[i] = Left(Applied(s)') /\ \A j \in DOMAIN server : j # i => record'[j] = record[j]
    BY <1>1, <1>4, <1>5, <1>10, <1>11, <2>1 DEF RecordsNow
  <2>5. ASSUME NEW u \in Stored
        PROVE  server'[sources'[u]] = opened[u] /\ record'[sources'[u]] = Left(Applied(u)')
    <3>1. CASE u = s
      BY <1>3, <1>10, <1>11, <2>2, <2>3, <2>4, <3>1 DEF k
    <3>2. CASE u # s
      <4>1. sources[u] # i /\ sources[u] \in DOMAIN server
        BY <1>3, <1>10, <1>11, <3>2 DEF k
      <4> QED BY <1>3, <1>7, <2>2, <2>3, <2>4, <3>2, <4>1
    <3> QED BY <3>1, <3>2
  <2> QED BY <1>3, <2>1, <2>2, <2>3, <2>5
\* The disconnect: the row is deleted.
<1>12. CASE ~t.initial /\ ~t.connected
  <2>1. Stored' = Stored \ {s} /\ Rows(s, i) = DOMAIN server \ {i}
    BY <1>6, <1>10, <1>12 DEF Rows, t
  <2>2. DOMAIN sources' = Stored \ {s} /\ \A u \in Stored \ {s} : sources'[u] = sources[u]
    BY <1>1, <1>3, <1>12 DEF SourcesAfter, Restrict, t
  <2>3. \A u \in Stored \ {s} : sources[u] # i /\ sources[u] \in DOMAIN server \ {i}
    BY <1>3, <1>10, <1>12 DEF k
  <2>4. /\ DOMAIN server' = DOMAIN server \ {i}
        /\ \A j \in DOMAIN server \ {i} : server'[j] = server[j] /\ record'[j] = record[j]
    BY <1>1, <1>4, <1>10, <1>12, <2>1 DEF RecordsNow
  <2>5. DOMAIN server' = {sources'[u] : u \in Stored'}
    BY <1>3, <1>10, <1>12, <2>1, <2>2, <2>3, <2>4 DEF k
  <2>6. \A u \in Stored' : server'[sources'[u]] = opened[u] /\ record'[sources'[u]] = Left(Applied(u)')
    BY <1>3, <1>7, <2>1, <2>2, <2>3, <2>4
  <2> QED BY <1>3, <2>1, <2>2, <2>5, <2>6
<1> QED BY <1>9, <1>11, <1>12

\* An interaction of the pool, stored, refused or failed, keeps the tables
\* right.
LEMMA InteractionKeeps ==
  ASSUME TInv, NEW s \in Sessions, Interaction(s)
  PROVE  TablesTyped' /\ TablesFollow'
<1>1. ASSUME NEW i, DBStores(s, i) PROVE TablesTyped' /\ TablesFollow'
  <2>1. procs' = procs
    BY <1>1 DEF DBStores, Ended, Ends
  <2>2. "db" \notin ToSet(procs) => TablesFollow'
    BY <2>1 DEF TablesFollow
  <2> QED BY <1>1, <2>2, StoresTyped, StoresFollow
<1>2. ASSUME Ended(s, "error"), UNCHANGED tables PROVE TablesTyped' /\ TablesFollow'
  <2>1. procs \in Seq(Processors) /\ procs' = Punished({"db"})
    BY <1>2 DEF Ended, Ends, TInv, KInv, CInv, TypeOK
  <2>2. "db" \notin ToSet(procs)'
    BY <2>1, PunishedProcs
  <2>3. TablesTyped'
    BY <1>2 DEF TInv, TablesTyped, tables
  <2> QED BY <2>2, <2>3 DEF TablesFollow
<1> QED BY <1>1, <1>2 DEF Interaction, DBRefuses, DBNoSource, DBFails

\* Every step keeps TInv.
LEMMA StepTInv == ASSUME ~ReuseEarly, TInv, [DBNext]_allvars PROVE TInv'
<1>1. [Next]_vars
  BY DBStep
<1>2. KInv'
  BY <1>1, StepKInv DEF TInv
<1>3. ASSUME UNCHANGED vars, UNCHANGED <<tables, sources>> PROVE TablesTyped' /\ TablesFollow'
  BY <1>1, <1>3, TablesStay DEF vars, Applied
<1>4. ASSUME NEW s \in Sessions, DBTakes(s) PROVE TablesTyped' /\ TablesFollow'
  <2>1. commit(s) /\ UNCHANGED <<tables, sources>>
    BY <1>4 DEF DBTakes
  <2>2. \A u \in Sessions : results[u] = NoCommit \/ results'[u] = results[u]
    <3>1. results[s] = NoCommit /\ results' = [results EXCEPT ![s] = results'[s]]
      BY <2>1, CommitFacts DEF TInv, KInv
    <3> QED BY <3>1 DEF TInv, KInv, CInv, Shapes
  <2>3. "db" \in ToSet(procs) => \A u \in Sessions : Applied(u)' = Applied(u)
    BY <1>1, <2>2, AppliedStays DEF TInv
  <2> QED BY <1>1, <2>1, <2>3, TablesStay
<1>5. ASSUME NEW s \in Sessions, Others(s) PROVE TablesTyped' /\ TablesFollow'
  <2>1. UNCHANGED <<tables, sources>>
    BY <1>5 DEF Others, dbvars, tables
  <2>2. CASE results' = results
    BY <1>1, <2>1, <2>2, AppliedStays, TablesStay DEF TInv
  <2>3. CASE Fires(s)
    <3>1. \A u \in Sessions : results'[u] = NoCommit \/ results'[u] = results[u]
      BY <2>3 DEF Fires, TInv, KInv, CInv, Shapes
    <3> QED BY <1>1, <2>1, <3>1, AppliedStays, TablesStay DEF TInv
  <2>4. ASSUME NEW p \in Processors \ {"db"}, NEW r \in Outcomes(p), Ends(p, s, r)
        PROVE  TablesTyped' /\ TablesFollow'
    <3>1. /\ results'[s] = [results[s] EXCEPT ![p] = r] /\ results[s] \in [DOMAIN results[s] -> Results]
          /\ \A u \in Sessions : u # s => results'[u] = results[u]
      BY <2>4, EndsFacts DEF TInv, KInv, CInv, Shapes
    <3>2. \A u \in Sessions : "db" \notin DOMAIN results[u] \/ results'[u]["db"] = results[u]["db"]
      BY <3>1
    <3> QED BY <1>1, <2>1, <3>2, AppliedStays, TablesStay DEF TInv
  <2> QED BY <1>5, <2>2, <2>3, <2>4 DEF Others, Open, Lose, Upload
<1>6. TablesTyped' /\ TablesFollow'
  BY <1>3, <1>4, <1>5, InteractionKeeps
     DEF DBNext, stopService, dec_count, allvars, dbvars, tables
<1> QED BY <1>2, <1>6 DEF TInv

\* While "db" is in service the tables hold exactly the clients that are
\* connected and their records, for any clients, transactions and processors,
\* if at most the last processor raises at the call (a transaction is not
\* hidden from "db") and an address comes back only when the commits of its
\* earlier session have ended (_commit finds the server row by the address).
THEOREM TablesFollowTheClients ==
  ASSUME LastOnly(Raises), ~ReuseEarly
  PROVE  DBSpec => []TablesFollow
<1>1. DBInit => TInv
  BY InitKInv, InitTables DEF DBInit, TInv
<1>2. TInv /\ [DBNext]_allvars => TInv'
  BY StepTInv
<1>3. TInv => TablesFollow
  BY DEF TInv
<1> QED BY <1>1, <1>2, <1>3, PTL DEF DBSpec
=============================================================================
