---------------------- MODULE CollectionSession_proofs ----------------------
(***************************************************************************)
(* For every set of records and of IOC-level infos and every               *)
(* commitSizeLimit: how a CollectionSession cuts the stream of an IOC into *)
(* transactions loses, splits and reorders nothing.                        *)
(***************************************************************************)
EXTENDS CollectionSession, DataLemmas

Nothing == [recs |-> {}, aliases |-> {}, infos |-> {}]

-----------------------------------------------------------------------------
(* Replay is a fold: one more transaction is applied to what was known.    *)

\* Views satisfies its equation.
LEMMA ViewsDef ==
  ASSUME NEW S, NEW log \in Seq(S)
  PROVE  Views(log) = [k \in 0..Len(log) |->
           IF k = 0 THEN Nothing ELSE Apply(Views(log)[k - 1], log[k])]
<1> DEFINE IsView(g, n) ==
      g = [k \in 0..n |-> IF k = 0 THEN Nothing ELSE Apply(g[k - 1], log[k])]
<1> DEFINE Good == {n \in 0..Len(log) : \E g : IsView(g, n)}
<1>0. Len(log) \in Nat
  OBVIOUS
<1> HIDE DEF Nothing
<1>1. 0 \in Good
  <2> DEFINE g == [k \in 0..0 |-> Nothing]
  <2>1. IsView(g, 0)
    OBVIOUS
  <2> HIDE DEF g, IsView
  <2>2. \E f : IsView(f, 0)
    BY <2>1
  <2> QED BY <2>2, <1>0
<1>2. ASSUME NEW n \in 0..(Len(log) - 1), n \in Good PROVE n + 1 \in Good
  <2>1. PICK g : IsView(g, n)
    BY <1>2
  <2> DEFINE h == [k \in 0..(n + 1) |-> IF k = n + 1 THEN Apply(g[n], log[n + 1]) ELSE g[k]]
  <2>2. IsView(h, n + 1)
    BY <2>1
  <2> HIDE DEF h, IsView
  <2>3. \E f : IsView(f, n + 1)
    BY <2>2
  <2> QED BY <2>3, <1>0
<1> HIDE DEF Good
<1>3. 0..Len(log) \subseteq Good
  BY <1>0, <1>1, <1>2, Induction
<1>4. \E g : IsView(g, Len(log))
  BY <1>0, <1>3 DEF Good
<1> QED BY <1>4 DEF Views, Nothing

\* The views of a log are those of its extension.
LEMMA ViewsAgree ==
  ASSUME NEW S, NEW log \in Seq(S), NEW x \in S
  PROVE  \A k \in 0..Len(log) : Views(Append(log, x))[k] = Views(log)[k]
<1> DEFINE f == Views(log)
           h == Views(Append(log, x))
           Good == {k \in 0..Len(log) : h[k] = f[k]}
<1>0. /\ Len(log) \in Nat /\ Append(log, x) \in Seq(S) /\ Len(Append(log, x)) = Len(log) + 1
      /\ \A k \in 1..Len(log) : Append(log, x)[k] = log[k]
  OBVIOUS
<1>1. f[0] = Nothing /\ \A k \in 1..Len(log) : f[k] = Apply(f[k - 1], log[k])
  BY <1>0, ViewsDef
<1>2. h[0] = Nothing /\ \A k \in 1..Len(log) : h[k] = Apply(h[k - 1], log[k])
  <2>1. h = [k \in 0..Len(log) + 1 |-> IF k = 0 THEN Nothing ELSE Apply(h[k - 1], Append(log, x)[k])]
    BY <1>0, ViewsDef
  <2> HIDE DEF h
  <2>2. h[0] = Nothing
    BY <2>1, <1>0
  <2>3. ASSUME NEW k \in 1..Len(log) PROVE h[k] = Apply(h[k - 1], log[k])
    <3>1. k \in 0..Len(log) + 1 /\ k # 0
      BY <1>0
    <3>2. h[k] = Apply(h[k - 1], Append(log, x)[k])
      BY <2>1, <3>1
    <3> QED BY <3>2, <1>0
  <2> QED BY <2>2, <2>3
<1> HIDE DEF f, h
<1>3. 0 \in Good /\ \A k \in 0..(Len(log) - 1) : k \in Good => k + 1 \in Good
  <2>1. 0 \in Good
    BY <1>0, <1>1, <1>2
  <2>2. ASSUME NEW k \in 0..(Len(log) - 1), k \in Good PROVE k + 1 \in Good
    <3>1. k + 1 \in 1..Len(log) /\ (k + 1) - 1 = k
      BY <1>0
    <3> QED BY <2>2, <3>1, <1>1, <1>2
  <2> QED BY <2>1, <2>2
<1> HIDE DEF Good
<1>4. 0..Len(log) \subseteq Good
  BY <1>0, <1>3, Induction
<1> QED BY <1>4 DEF Good, f, h

\* The empty log says nothing.
LEMMA ReplayEmpty == Replay(<<>>) = Nothing
<1>1. <<>> \in Seq({}) /\ Len(<<>>) = 0
  OBVIOUS
<1> DEFINE f == Views(<<>>)
<1>2. f = [k \in 0..0 |-> IF k = 0 THEN Nothing ELSE Apply(f[k - 1], <<>>[k])]
  BY <1>1, ViewsDef
<1> HIDE DEF f
<1>3. f[0] = Nothing
  BY <1>2
<1> QED BY <1>1, <1>3 DEF Replay, f

\* A log that grows by x says what x makes of it.
LEMMA ReplayAppend ==
  ASSUME NEW S, NEW log \in Seq(S), NEW x \in S
  PROVE  Replay(Append(log, x)) = Apply(Replay(log), x)
<1> DEFINE n == Len(log)
           h == Views(Append(log, x))
<1>1. n \in Nat /\ Append(log, x) \in Seq(S) /\ Len(Append(log, x)) = n + 1 /\ Append(log, x)[n + 1] = x
  OBVIOUS
<1>2. h = [k \in 0..n + 1 |-> IF k = 0 THEN Nothing ELSE Apply(h[k - 1], Append(log, x)[k])]
  BY <1>1, ViewsDef
<1>3. h[n] = Views(log)[n]
  BY <1>1, ViewsAgree
<1> HIDE DEF n, h
<1>4. n + 1 \in 0..n + 1 /\ n + 1 # 0 /\ (n + 1) - 1 = n
  BY <1>1
<1>5. h[n + 1] = Apply(h[n], x)
  BY <1>1, <1>2, <1>4
<1> QED BY <1>1, <1>3, <1>5 DEF Replay, n, h

-----------------------------------------------------------------------------
(* The inductive invariant, as a predicate of the log, the transaction being *)
(* filled, dirty, the connection, the current record and what was said: a  *)
(* step that flushes is a flush followed by one that does not.             *)

SaidType == [recs : SUBSET RecIds, aliases : SUBSET RecIds, infos : SUBSET RecIds,
             env : SUBSET EnvKeys, ids : SUBSET RecIds]
ViewType == [recs : SUBSET RecIds, aliases : SUBSET RecIds, infos : SUBSET RecIds]

Typed(log, t, d, lk, c, s) ==
  /\ log \in Seq(TxnType) /\ t \in TxnType /\ d \in BOOLEAN
  /\ lk \in {"open", "closing", "lost"} /\ c \in RecIds \cup {NoRec} /\ s \in SaidType

\* A transaction that is not dirty is empty, the current record is in it, and
\* it names only records the client has announced.
Tidy(t, d, c, s) ==
  /\ t.connected
  /\ IsFiniteSet(t.adds) /\ IsFiniteSet(t.dels)
  /\ ~d => t.adds = {} /\ t.dels = {} /\ t.aliases = {} /\ t.infos = {}
  /\ c # NoRec => c \in t.adds
  /\ t.adds \cup t.dels \subseteq s.ids
  /\ s.recs \subseteq s.ids /\ s.aliases \subseteq s.recs /\ s.infos \subseteq s.recs

Whole(t) == t.infos \subseteq t.adds /\ t.aliases \subseteq t.adds \cup t.dels
Bounded(t) == trlimit # 0 => Cardinality(t.adds) + Cardinality(t.dels) <= trlimit
Room(t) == trlimit # 0 => Cardinality(t.adds) + Cardinality(t.dels) < trlimit
Cut(log, t) ==
  /\ Whole(t) /\ Bounded(t)
  /\ \A k \in 1..Len(log) : Whole(log[k]) /\ Bounded(log[k])

Ordered(log, t, lk) ==
  /\ \A k \in 1..Len(log) :
       /\ log[k].initial <=> (k = 1 /\ log[k].connected)
       /\ ~log[k].connected <=> (k = Len(log) /\ lk = "lost")
  /\ lk # "lost" => (t.initial <=> log = <<>>)

\* The next transaction will know every IOC-level info.
EnvKept(log, t, lk, s) ==
  /\ lk # "lost" => t.env = s.env /\ \A k \in 1..Len(log) : log[k].env \subseteq t.env
  /\ \A k, l \in 1..Len(log) : k < l /\ log[l].connected => log[k].env \subseteq log[l].env

Closed(v) == v \in ViewType /\ v.aliases \subseteq v.recs /\ v.infos \subseteq v.recs
Told(s) == [recs |-> s.recs, aliases |-> s.aliases, infos |-> s.infos]

\* The log and the transaction being filled say what the client has said.
Replayed(log, t, lk, s) ==
  /\ Closed(Replay(log))
  /\ lk # "lost" => Apply(Replay(log), t) = Told(s)

Coherent(log, t, d, lk, c, s) ==
  /\ Typed(log, t, d, lk, c, s) /\ Tidy(t, d, c, s) /\ Cut(log, t)
  /\ Ordered(log, t, lk) /\ EnvKept(log, t, lk, s) /\ Replayed(log, t, lk, s)

IInv ==
  /\ TypeOK
  /\ Coherent(Log, transaction, dirty, link, cur, said)

-----------------------------------------------------------------------------
(* What the steps do to it.                                                *)

\* The transaction that flush begins.
LEMMA BlankEnv ==
  ASSUME NEW X \in SUBSET EnvKeys, NEW u, u = [Blank EXCEPT !.env = X]
  PROVE  /\ u \in TxnType
         /\ u.adds = {} /\ u.aliases = {} /\ u.infos = {} /\ u.dels = {} /\ u.env = X
         /\ ~u.initial /\ u.connected
<1>1. Blank \in TxnType
  BY DEF Blank, TxnType
<1> QED BY <1>1 DEF Blank, TxnType

\* Aliases and infos are those of records, after a transaction too.
LEMMA ApplyCloses ==
  ASSUME NEW v, Closed(v), NEW t \in TxnType
  PROVE  Closed(Apply(v, t))
<1>1. Apply(v, t) \in ViewType
  BY DEF Apply, Closed, ViewType, TxnType
<1> QED BY <1>1 DEF Apply, Closed

\* flush, with the current record forgotten.
LEMMA FlushKeeps ==
  ASSUME NEW log, NEW t, NEW d, NEW lk, NEW c, NEW s,
         Coherent(log, t, d, lk, c, s), lk # "lost"
  PROVE  Coherent(Append(log, t), [Blank EXCEPT !.env = t.env], FALSE, lk, NoRec, s)
<1> DEFINE u == [Blank EXCEPT !.env = t.env]
           h == Append(log, t)
<1>1. /\ log \in Seq(TxnType) /\ t \in TxnType /\ s \in SaidType
      /\ lk \in {"open", "closing", "lost"}
  BY DEF Coherent, Typed
<1>2. t.env \in SUBSET EnvKeys
  BY <1>1 DEF TxnType
<1>3. /\ u.adds = {} /\ u.aliases = {} /\ u.infos = {} /\ u.dels = {} /\ u.env = t.env
      /\ ~u.initial /\ u.connected
  BY <1>2, BlankEnv
<1>4. /\ h \in Seq(TxnType) /\ Len(h) = Len(log) + 1 /\ Len(log) \in Nat
      /\ \A k \in 1..Len(log) : h[k] = log[k]
      /\ h[Len(log) + 1] = t /\ h # <<>>
  BY <1>1
<1>5. u \in TxnType
  BY <1>2, BlankEnv
<1>6. Replay(h) = Apply(Replay(log), t)
  BY <1>1, ReplayAppend
<1> HIDE DEF u, h
<1>7. Typed(h, u, FALSE, lk, NoRec, s)
  BY <1>1, <1>4, <1>5 DEF Typed
<1>8. Tidy(u, FALSE, NoRec, s)
  BY <1>3, FS_EmptySet DEF Coherent, Tidy
<1>9. Cut(h, u)
  <2>1. Whole(u) /\ Bounded(u)
    BY <1>3, FS_EmptySet, TrlimitAssumption DEF Whole, Bounded
  <2>2. \A k \in 1..Len(h) : h[k] = t \/ (k \in 1..Len(log) /\ h[k] = log[k])
    BY <1>4
  <2> QED BY <2>1, <2>2 DEF Coherent, Cut
<1>10. Ordered(h, u, lk)
  <2>1. ASSUME NEW k \in 1..Len(h)
        PROVE  h[k].connected /\ (h[k].initial <=> k = 1)
    <3>1. CASE k \in 1..Len(log)
      BY <3>1, <1>4 DEF Coherent, Ordered
    <3>2. CASE k = Len(log) + 1
      <4>1. h[k] = t /\ t.connected /\ (t.initial <=> log = <<>>)
        BY <3>2, <1>4 DEF Coherent, Ordered, Tidy
      <4>2. log = <<>> <=> k = 1
        BY <3>2, <1>1
      <4> QED BY <4>1, <4>2
    <3> QED BY <3>1, <3>2, <1>4
  <2> QED BY <2>1, <1>3, <1>4 DEF Ordered
<1>11. EnvKept(h, u, lk, s)
  <2>1. u.env = s.env /\ u.env = t.env
    BY <1>3 DEF Coherent, EnvKept
  <2>2. \A k \in 1..Len(h) : h[k].env \subseteq t.env
    BY <1>4 DEF Coherent, EnvKept
  <2>3. \A k, l \in 1..Len(h) : k < l /\ h[l].connected => h[k].env \subseteq h[l].env
    <3> SUFFICES ASSUME NEW k \in 1..Len(h), NEW l \in 1..Len(h), k < l, h[l].connected
                 PROVE  h[k].env \subseteq h[l].env
      OBVIOUS
    <3>1. CASE l = Len(log) + 1
      BY <3>1, <2>2, <1>4
    <3>2. CASE l \in 1..Len(log)
      <4>1. k \in 1..Len(log) /\ h[k] = log[k] /\ h[l] = log[l]
        BY <3>2, <1>4
      <4> QED BY <3>2, <4>1 DEF Coherent, EnvKept
    <3> QED BY <3>1, <3>2, <1>4
  <2> QED BY <2>1, <2>2, <2>3 DEF EnvKept
<1>12. Replayed(h, u, lk, s)
  <2>1. Closed(Replay(h))
    BY <1>1, <1>6, ApplyCloses DEF Coherent, Replayed
  <2>2. Replay(h) = Told(s)
    BY <1>6 DEF Coherent, Replayed
  <2>3. Apply(Replay(h), u) = Told(s)
    BY <2>1, <2>2, <1>3 DEF Apply, Told, Closed
  <2> QED BY <2>1, <2>3 DEF Replayed
<1> QED BY <1>7, <1>8, <1>9, <1>10, <1>11, <1>12 DEF Coherent, u, h

\* A step that changes only the transaction and what was said: what is left to
\* show is that the transaction still is in order and says it.
LEMMA FillKeeps ==
  ASSUME NEW log, NEW t, NEW d, NEW lk, NEW c, NEW s, Coherent(log, t, d, lk, c, s),
         lk # "lost",
         NEW u \in TxnType, NEW e \in RecIds \cup {NoRec}, NEW w \in SaidType,
         u.initial = t.initial, u.env = w.env, t.env \subseteq u.env,
         Tidy(u, TRUE, e, w), Whole(u), Bounded(u),
         Apply(Replay(log), u) = Told(w)
  PROVE  Coherent(log, u, TRUE, lk, e, w)
<1>1. Typed(log, u, TRUE, lk, e, w)
  BY DEF Coherent, Typed
<1>2. Cut(log, u)
  BY DEF Coherent, Cut
<1>3. Ordered(log, u, lk)
  BY DEF Coherent, Ordered
<1>4. EnvKept(log, u, lk, w)
  <2>1. \A k \in 1..Len(log) : log[k].env \subseteq u.env
    BY DEF Coherent, EnvKept
  <2> QED BY <2>1 DEF Coherent, EnvKept
<1>5. Replayed(log, u, lk, w)
  BY DEF Coherent, Replayed
<1> QED BY <1>1, <1>2, <1>3, <1>4, <1>5 DEF Coherent

\* What Coherent says of the transaction and of what was said, for the steps
\* that fill it.
LEMMA CoherentFacts ==
  ASSUME NEW log, NEW t, NEW d, NEW lk, NEW c, NEW s, Coherent(log, t, d, lk, c, s),
         lk # "lost"
  PROVE  /\ t \in TxnType /\ s \in SaidType /\ t.env = s.env
         /\ Tidy(t, d, c, s) /\ Whole(t) /\ Bounded(t)
         /\ Closed(Replay(log)) /\ Apply(Replay(log), t) = Told(s)
  BY DEF Coherent, Typed, Cut, EnvKept, Replayed

\* An IOC-level info goes to the open transaction.
LEMMA IocInfoKeeps ==
  ASSUME NEW log, NEW t, NEW d, NEW lk, NEW c, NEW s, Coherent(log, t, d, lk, c, s),
         lk # "lost", NEW k \in EnvKeys,
         NEW u, u = [t EXCEPT !.env = t.env \cup {k}],
         NEW w, w = [s EXCEPT !.env = s.env \cup {k}]
  PROVE  Coherent(log, u, TRUE, lk, c, w)
<1>1. c \in RecIds \cup {NoRec}
  BY DEF Coherent, Typed
<1>2. u \in TxnType /\ w \in SaidType
  BY CoherentFacts DEF TxnType, SaidType
<1>3. /\ u.initial = t.initial /\ u.connected = t.connected /\ u.adds = t.adds
      /\ u.dels = t.dels /\ u.aliases = t.aliases /\ u.infos = t.infos
      /\ u.env = t.env \cup {k}
  BY CoherentFacts DEF TxnType
<1>4. /\ w.recs = s.recs /\ w.aliases = s.aliases /\ w.infos = s.infos /\ w.ids = s.ids
      /\ w.env = s.env \cup {k}
  BY CoherentFacts DEF SaidType
<1>5. Tidy(u, TRUE, c, w) /\ Whole(u) /\ Bounded(u)
  BY <1>3, <1>4, CoherentFacts DEF Tidy, Whole, Bounded
<1>6. Apply(Replay(log), u) = Told(w)
  <2>1. Apply(Replay(log), u) = Apply(Replay(log), t) /\ Told(w) = Told(s)
    BY <1>3, <1>4 DEF Apply, Told
  <2> QED BY <2>1, CoherentFacts
<1>7. u.env = w.env /\ t.env \subseteq u.env
  BY <1>3, <1>4, CoherentFacts
<1> QED BY <1>1, <1>2, <1>3, <1>5, <1>6, <1>7, FillKeeps

\* What add_record does to the transaction and to what was said.
Adds(t, r, u) ==
  /\ u \in TxnType
  /\ u.initial = t.initial /\ u.connected = t.connected /\ u.adds = t.adds \cup {r}
  /\ u.dels = t.dels /\ u.aliases = t.aliases /\ u.infos = t.infos /\ u.env = t.env
Announces(s, r, w) ==
  /\ w \in SaidType
  /\ w.recs = s.recs \cup {r} /\ w.aliases = s.aliases /\ w.infos = s.infos
  /\ w.ids = s.ids \cup {r} /\ w.env = s.env

\* A record is added.
LEMMA AddsType ==
  ASSUME NEW t \in TxnType, NEW s \in SaidType, NEW r \in RecIds
  PROVE  /\ Adds(t, r, [t EXCEPT !.adds = t.adds \cup {r}])
         /\ Announces(s, r, [s EXCEPT !.recs = s.recs \cup {r}, !.ids = s.ids \cup {r}])
<1>1. t.adds \cup {r} \in SUBSET RecIds
  BY DEF TxnType
<1>2. s.recs \cup {r} \in SUBSET RecIds /\ s.ids \cup {r} \in SUBSET RecIds
  BY DEF SaidType
<1>3. Adds(t, r, [t EXCEPT !.adds = t.adds \cup {r}])
  BY <1>1 DEF Adds, TxnType
<1>4. Announces(s, r, [s EXCEPT !.recs = s.recs \cup {r}, !.ids = s.ids \cup {r}])
  BY <1>2 DEF Announces, SaidType
<1> QED BY <1>3, <1>4

\* A record is begun behind the flush that may precede it.
LEMMA AddRecordKeeps ==
  ASSUME NEW log, NEW t, NEW d, NEW lk, NEW c, NEW s, Coherent(log, t, d, lk, c, s),
         lk # "lost", NEW r \in RecIds, r \notin s.ids, Room(t),
         NEW u, Adds(t, r, u), NEW w, Announces(s, r, w)
  PROVE  Coherent(log, u, TRUE, lk, r, w)
<1>1. u \in TxnType /\ w \in SaidType
  BY DEF Adds, Announces
<1>2. /\ u.initial = t.initial /\ u.connected = t.connected /\ u.adds = t.adds \cup {r}
      /\ u.dels = t.dels /\ u.aliases = t.aliases /\ u.infos = t.infos /\ u.env = t.env
  BY DEF Adds
<1>3. /\ w.recs = s.recs \cup {r} /\ w.aliases = s.aliases /\ w.infos = s.infos
      /\ w.ids = s.ids \cup {r} /\ w.env = s.env
  BY DEF Announces
<1>4. Tidy(u, TRUE, r, w)
  BY <1>2, <1>3, CoherentFacts, FS_AddElement DEF Tidy
<1>5. Whole(u)
  BY <1>2, CoherentFacts DEF Whole
<1>6. Bounded(u)
  <2>1. IsFiniteSet(t.adds) /\ IsFiniteSet(t.dels)
    BY CoherentFacts DEF Tidy
  <2>2. Cardinality(t.adds) \in Nat /\ Cardinality(t.dels) \in Nat
    BY <2>1, FS_CardinalityType
  <2>3. Cardinality(u.adds) \in {Cardinality(t.adds), Cardinality(t.adds) + 1}
    BY <1>2, <2>1, FS_AddElement
  <2> QED BY <1>2, <2>2, <2>3, TrlimitAssumption DEF Room, Bounded
<1>7. Apply(Replay(log), u) = Told(w)
  <2> DEFINE v == Replay(log)
  <2>1. Apply(v, t) = Told(s) /\ Closed(v)
    BY CoherentFacts
  <2> HIDE DEF v
  <2>2. /\ s.recs = (v.recs \ (t.dels \cup t.adds)) \cup t.adds
        /\ s.aliases = (v.aliases \cap (v.recs \ (t.dels \cup t.adds))) \cup (t.aliases \cap t.adds)
        /\ s.infos = (v.infos \cap (v.recs \ (t.dels \cup t.adds))) \cup (t.infos \cap t.adds)
    BY <2>1 DEF Apply, Told
  <2>3. r \notin s.recs /\ r \notin t.adds /\ r \notin t.dels /\ r \notin s.aliases /\ r \notin s.infos
    BY CoherentFacts DEF Tidy
  <2>4. r \notin t.aliases /\ r \notin t.infos
    BY <2>3, CoherentFacts DEF Whole
  <2>5. (v.recs \ (u.dels \cup u.adds)) \cup u.adds = w.recs
    BY <1>2, <1>3, <2>2
  <2>6. (v.aliases \cap (v.recs \ (u.dels \cup u.adds))) \cup (u.aliases \cap u.adds) = w.aliases
    BY <1>2, <1>3, <2>2, <2>3, <2>4
  <2>7. (v.infos \cap (v.recs \ (u.dels \cup u.adds))) \cup (u.infos \cap u.adds) = w.infos
    BY <1>2, <1>3, <2>2, <2>3, <2>4
  <2>8. Apply(v, u) = Told(w)
    BY <2>5, <2>6, <2>7 DEF Apply, Told
  <2> QED BY <2>8 DEF v
<1>8. u.env = w.env /\ t.env \subseteq u.env
  BY <1>2, <1>3, CoherentFacts
<1> QED BY <1>1, <1>2, <1>4, <1>5, <1>6, <1>7, <1>8, FillKeeps

\* add_alias and rec_info: the current record is one the transaction adds.
LEMMA AddAliasKeeps ==
  ASSUME NEW log, NEW t, NEW d, NEW lk, NEW c, NEW s, Coherent(log, t, d, lk, c, s),
         lk # "lost", c # NoRec,
         NEW u, u = [t EXCEPT !.aliases = t.aliases \cup {c}],
         NEW w, w = [s EXCEPT !.aliases = s.aliases \cup {c}]
  PROVE  Coherent(log, u, TRUE, lk, c, w)
<1>1. c \in RecIds /\ c \in t.adds
  BY CoherentFacts DEF Coherent, Typed, Tidy
<1>2. u \in TxnType /\ w \in SaidType
  <2>1. u \in TxnType
    BY <1>1, CoherentFacts DEF TxnType
  <2>2. w \in SaidType
    BY <1>1, CoherentFacts DEF SaidType
  <2> QED BY <2>1, <2>2
<1>3. /\ u.initial = t.initial /\ u.connected = t.connected /\ u.adds = t.adds
      /\ u.dels = t.dels /\ u.aliases = t.aliases \cup {c} /\ u.infos = t.infos /\ u.env = t.env
  BY CoherentFacts DEF TxnType
<1>4. /\ w.recs = s.recs /\ w.aliases = s.aliases \cup {c} /\ w.infos = s.infos
      /\ w.ids = s.ids /\ w.env = s.env
  BY CoherentFacts DEF SaidType
<1> DEFINE v == Replay(log)
<1>5. Apply(v, t) = Told(s)
  BY CoherentFacts
<1> HIDE DEF v
<1>6. c \in s.recs
  BY <1>1, <1>5 DEF Apply, Told
<1>7. Tidy(u, TRUE, c, w)
  BY <1>3, <1>4, <1>6, CoherentFacts DEF Tidy
<1>8. Whole(u) /\ Bounded(u)
  BY <1>1, <1>3, CoherentFacts DEF Whole, Bounded
<1>9. Apply(v, u) = Told(w)
  <2>1. s.aliases = (v.aliases \cap (v.recs \ (t.dels \cup t.adds))) \cup (t.aliases \cap t.adds)
    BY <1>5 DEF Apply, Told
  <2>2. (v.aliases \cap (v.recs \ (u.dels \cup u.adds))) \cup (u.aliases \cap u.adds) = w.aliases
    BY <1>1, <1>3, <1>4, <2>1
  <2> QED BY <1>3, <1>4, <1>5, <2>2 DEF Apply, Told
<1>10. u.env = w.env /\ t.env \subseteq u.env
  BY <1>3, <1>4, CoherentFacts
<1> QED BY <1>1, <1>2, <1>3, <1>7, <1>8, <1>9, <1>10, FillKeeps DEF v

\* An info of the current record.
LEMMA RecInfoKeeps ==
  ASSUME NEW log, NEW t, NEW d, NEW lk, NEW c, NEW s, Coherent(log, t, d, lk, c, s),
         lk # "lost", c # NoRec,
         NEW u, u = [t EXCEPT !.infos = t.infos \cup {c}],
         NEW w, w = [s EXCEPT !.infos = s.infos \cup {c}]
  PROVE  Coherent(log, u, TRUE, lk, c, w)
<1>1. c \in RecIds /\ c \in t.adds
  BY CoherentFacts DEF Coherent, Typed, Tidy
<1>2. u \in TxnType /\ w \in SaidType
  <2>1. u \in TxnType
    BY <1>1, CoherentFacts DEF TxnType
  <2>2. w \in SaidType
    BY <1>1, CoherentFacts DEF SaidType
  <2> QED BY <2>1, <2>2
<1>3. /\ u.initial = t.initial /\ u.connected = t.connected /\ u.adds = t.adds
      /\ u.dels = t.dels /\ u.aliases = t.aliases /\ u.infos = t.infos \cup {c} /\ u.env = t.env
  BY CoherentFacts DEF TxnType
<1>4. /\ w.recs = s.recs /\ w.aliases = s.aliases /\ w.infos = s.infos \cup {c}
      /\ w.ids = s.ids /\ w.env = s.env
  BY CoherentFacts DEF SaidType
<1> DEFINE v == Replay(log)
<1>5. Apply(v, t) = Told(s)
  BY CoherentFacts
<1> HIDE DEF v
<1>6. c \in s.recs
  BY <1>1, <1>5 DEF Apply, Told
<1>7. Tidy(u, TRUE, c, w)
  BY <1>3, <1>4, <1>6, CoherentFacts DEF Tidy
<1>8. Whole(u) /\ Bounded(u)
  BY <1>1, <1>3, CoherentFacts DEF Whole, Bounded
<1>9. Apply(v, u) = Told(w)
  <2>1. s.infos = (v.infos \cap (v.recs \ (t.dels \cup t.adds))) \cup (t.infos \cap t.adds)
    BY <1>5 DEF Apply, Told
  <2>2. (v.infos \cap (v.recs \ (u.dels \cup u.adds))) \cup (u.infos \cap u.adds) = w.infos
    BY <1>1, <1>3, <1>4, <2>1
  <2> QED BY <1>3, <1>4, <1>5, <2>2 DEF Apply, Told
<1>10. u.env = w.env /\ t.env \subseteq u.env
  BY <1>3, <1>4, CoherentFacts
<1> QED BY <1>1, <1>2, <1>3, <1>7, <1>8, <1>9, <1>10, FillKeeps DEF v

\* A deletion takes the record out of the open transaction, or is recorded in
\* it.
LEMMA DelRecordKeeps ==
  ASSUME NEW log, NEW t, NEW d, NEW lk, NEW c, NEW s, Coherent(log, t, d, lk, c, s),
         lk # "lost", NEW r \in RecIds, r \in s.recs, Room(t),
         NEW u, u = [t EXCEPT !.adds = t.adds \ {r}, !.infos = t.infos \ {r},
                              !.dels = t.dels \cup {r}],
         NEW w, w = [s EXCEPT !.recs = s.recs \ {r}, !.aliases = s.aliases \ {r},
                              !.infos = s.infos \ {r}]
  PROVE  Coherent(log, u, TRUE, lk, NoRec, w)
<1>1. /\ u.initial = t.initial /\ u.connected = t.connected /\ u.adds = t.adds \ {r}
      /\ u.dels = t.dels \cup {r} /\ u.aliases = t.aliases /\ u.infos = t.infos \ {r}
      /\ u.env = t.env
  BY CoherentFacts DEF TxnType
<1>2. /\ w.recs = s.recs \ {r} /\ w.aliases = s.aliases \ {r} /\ w.infos = s.infos \ {r}
      /\ w.ids = s.ids /\ w.env = s.env
  BY CoherentFacts DEF SaidType
<1>3. u \in TxnType
  <2>1. t \in TxnType
    BY CoherentFacts
  <2>2. /\ t.adds \ {r} \in SUBSET RecIds /\ t.infos \ {r} \in SUBSET RecIds
        /\ t.dels \cup {r} \in SUBSET RecIds
    BY <2>1 DEF TxnType
  <2> QED BY <2>1, <2>2 DEF TxnType
<1>4. w \in SaidType
  <2>1. s \in SaidType
    BY CoherentFacts
  <2>2. /\ s.recs \ {r} \in SUBSET RecIds /\ s.aliases \ {r} \in SUBSET RecIds
        /\ s.infos \ {r} \in SUBSET RecIds
    BY <2>1 DEF SaidType
  <2> QED BY <2>1, <2>2 DEF SaidType
<1>5. Tidy(u, TRUE, NoRec, w)
  <2>1. IsFiniteSet(t.adds) /\ IsFiniteSet(t.dels) /\ t.connected
    BY CoherentFacts DEF Tidy
  <2>2. IsFiniteSet(u.adds)
    BY <1>1, <2>1, FS_RemoveElement
  <2>3. IsFiniteSet(u.dels)
    BY <1>1, <2>1, FS_AddElement
  <2>4. /\ t.adds \cup t.dels \subseteq s.ids
        /\ s.recs \subseteq s.ids /\ s.aliases \subseteq s.recs /\ s.infos \subseteq s.recs
    BY CoherentFacts DEF Tidy
  <2>5. u.adds \cup u.dels \subseteq w.ids
    BY <1>1, <1>2, <2>4
  <2>6. w.recs \subseteq w.ids /\ w.aliases \subseteq w.recs /\ w.infos \subseteq w.recs
    BY <1>2, <2>4
  <2> QED BY <1>1, <2>1, <2>2, <2>3, <2>5, <2>6 DEF Tidy
<1>6. Whole(u)
  BY <1>1, CoherentFacts DEF Whole
<1>7. Bounded(u)
  <2>1. IsFiniteSet(t.adds) /\ IsFiniteSet(t.dels)
    BY CoherentFacts DEF Tidy
  <2>2. Cardinality(t.adds) \in Nat /\ Cardinality(t.dels) \in Nat
    BY <2>1, FS_CardinalityType
  <2>3. /\ Cardinality(u.adds) \in {Cardinality(t.adds), Cardinality(t.adds) - 1}
        /\ Cardinality(u.dels) \in {Cardinality(t.dels), Cardinality(t.dels) + 1}
    <3>1. Cardinality(u.adds) \in {Cardinality(t.adds), Cardinality(t.adds) - 1}
      BY <1>1, <2>1, FS_RemoveElement
    <3>2. Cardinality(u.dels) \in {Cardinality(t.dels), Cardinality(t.dels) + 1}
      BY <1>1, <2>1, FS_AddElement
    <3> QED BY <3>1, <3>2
  <2> QED BY <2>2, <2>3, TrlimitAssumption DEF Room, Bounded
<1>8. Apply(Replay(log), u) = Told(w)
  <2> DEFINE v == Replay(log)
  <2>1. Apply(v, t) = Told(s)
    BY CoherentFacts
  <2> HIDE DEF v
  <2>2. /\ s.recs = (v.recs \ (t.dels \cup t.adds)) \cup t.adds
        /\ s.aliases = (v.aliases \cap (v.recs \ (t.dels \cup t.adds))) \cup (t.aliases \cap t.adds)
        /\ s.infos = (v.infos \cap (v.recs \ (t.dels \cup t.adds))) \cup (t.infos \cap t.adds)
    BY <2>1 DEF Apply, Told
  <2>3. (v.recs \ (u.dels \cup u.adds)) \cup u.adds = w.recs
    BY <1>1, <1>2, <2>2
  <2>4. (v.aliases \cap (v.recs \ (u.dels \cup u.adds))) \cup (u.aliases \cap u.adds) = w.aliases
    BY <1>1, <1>2, <2>2
  <2>5. (v.infos \cap (v.recs \ (u.dels \cup u.adds))) \cup (u.infos \cap u.adds) = w.infos
    BY <1>1, <1>2, <2>2
  <2>6. Apply(v, u) = Told(w)
    BY <2>3, <2>4, <2>5 DEF Apply, Told
  <2> QED BY <2>6 DEF v
<1>9. u.env = w.env /\ t.env \subseteq u.env
  BY <1>1, <1>2, CoherentFacts
<1> QED BY <1>1, <1>3, <1>4, <1>5, <1>6, <1>7, <1>8, <1>9, FillKeeps

\* close.
LEMMA CloseKeeps ==
  ASSUME NEW log, NEW t, NEW d, NEW lk, NEW c, NEW s, Coherent(log, t, d, lk, c, s),
         lk # "lost", NEW x, x = [Blank EXCEPT !.connected = FALSE]
  PROVE  Coherent(Append(log, x), Blank, FALSE, "lost", NoRec, s)
<1> DEFINE h == Append(log, x)
<1>1. log \in Seq(TxnType) /\ s \in SaidType
  BY DEF Coherent, Typed
<1>2. /\ Blank \in TxnType /\ x \in TxnType
      /\ Blank.adds = {} /\ Blank.dels = {} /\ Blank.aliases = {} /\ Blank.infos = {}
      /\ Blank.connected
      /\ x.adds = {} /\ x.dels = {} /\ x.aliases = {} /\ x.infos = {}
      /\ ~x.initial /\ ~x.connected
  <2>1. Blank \in TxnType
    BY DEF Blank, TxnType
  <2> QED BY <2>1 DEF Blank, TxnType
<1>3. /\ h \in Seq(TxnType) /\ Len(h) = Len(log) + 1 /\ Len(log) \in Nat
      /\ \A k \in 1..Len(log) : h[k] = log[k]
      /\ h[Len(log) + 1] = x
  BY <1>1, <1>2
<1>4. Replay(h) = Apply(Replay(log), x)
  BY <1>1, <1>2, ReplayAppend
<1> HIDE DEF h
<1>5. Typed(h, Blank, FALSE, "lost", NoRec, s)
  BY <1>1, <1>2, <1>3 DEF Typed
<1>6. Tidy(Blank, FALSE, NoRec, s)
  BY <1>2, FS_EmptySet DEF Coherent, Tidy
<1>7. Cut(h, Blank)
  <2>1. Whole(Blank) /\ Bounded(Blank) /\ Whole(x) /\ Bounded(x)
    <3>1. Whole(Blank) /\ Whole(x)
      BY <1>2 DEF Whole
    <3>2. Cardinality(Blank.adds) = 0 /\ Cardinality(Blank.dels) = 0
      BY <1>2, FS_EmptySet
    <3>3. Cardinality(x.adds) = 0 /\ Cardinality(x.dels) = 0
      BY <1>2, FS_EmptySet
    <3> QED BY <3>1, <3>2, <3>3, TrlimitAssumption DEF Bounded
  <2>2. \A k \in 1..Len(h) : h[k] = x \/ (k \in 1..Len(log) /\ h[k] = log[k])
    BY <1>3
  <2> QED BY <2>1, <2>2 DEF Coherent, Cut
<1>8. Ordered(h, Blank, "lost")
  <2>1. ASSUME NEW k \in 1..Len(h)
        PROVE  /\ h[k].initial <=> (k = 1 /\ h[k].connected)
               /\ ~h[k].connected <=> k = Len(h)
    <3>1. CASE k \in 1..Len(log)
      <4>1. h[k] = log[k] /\ k # Len(h)
        BY <3>1, <1>3
      <4> QED BY <3>1, <4>1 DEF Coherent, Ordered
    <3>2. CASE k = Len(log) + 1
      BY <3>2, <1>2, <1>3
    <3> QED BY <3>1, <3>2, <1>3
  <2> QED BY <2>1 DEF Ordered
<1>9. EnvKept(h, Blank, "lost", s)
  <2>1. ASSUME NEW k \in 1..Len(h), NEW l \in 1..Len(h), k < l, h[l].connected
        PROVE  h[k].env \subseteq h[l].env
    <3>1. l # Len(log) + 1
      BY <2>1, <1>2, <1>3
    <3>2. k \in 1..Len(log) /\ l \in 1..Len(log) /\ h[k] = log[k] /\ h[l] = log[l]
      BY <2>1, <3>1, <1>3
    <3> QED BY <2>1, <3>2 DEF Coherent, EnvKept
  <2> QED BY <2>1 DEF EnvKept
<1>10. Replayed(h, Blank, "lost", s)
  BY <1>2, <1>4, ApplyCloses DEF Coherent, Replayed
<1> QED BY <1>5, <1>6, <1>7, <1>8, <1>9, <1>10 DEF Coherent, h

\* A connection that is given up but not lost changes nothing.
LEMMA LinkKeeps ==
  ASSUME NEW log, NEW t, NEW d, NEW lk, NEW c, NEW s, Coherent(log, t, d, lk, c, s),
         NEW m \in {"open", "closing", "lost"}, m = "lost" <=> lk = "lost"
  PROVE  Coherent(log, t, d, m, c, s)
  BY DEF Coherent, Typed, Ordered, EnvKept, Replayed

\* done without a flush.
LEMMA ForgetKeeps ==
  ASSUME NEW log, NEW t, NEW d, NEW lk, NEW c, NEW s, Coherent(log, t, d, lk, c, s)
  PROVE  Coherent(log, t, d, lk, NoRec, s)
  BY DEF Coherent, Typed, Tidy

-----------------------------------------------------------------------------
(* The log.                                                                *)

\* flush appends to the log.
LEMMA LogAppend ==
  ASSUME TypeOK, NEW x \in TxnType, chain' = Append(chain, x), UNCHANGED committed
  PROVE  Log' = Append(Log, x)
<1> DEFINE a == committed \o Append(chain, x)
           b == Append(committed \o chain, x)
<1>1. committed \in Seq(TxnType) /\ chain \in Seq(TxnType)
  BY DEF TypeOK
<1>2. a = b
  BY <1>1
<1> QED BY <1>2 DEF Log

\* The end of a commit moves an entry within the log.
LEMMA LogShift ==
  ASSUME TypeOK, NextCommit
  PROVE  Log' = Log
<1>1. committed \in Seq(TxnType) /\ chain \in Seq(TxnType) /\ chain # <<>>
  BY DEF TypeOK, NextCommit
<1> DEFINE a == Append(committed, Head(chain)) \o Tail(chain)
           b == committed \o chain
<1>2. a = b
  BY <1>1
<1> QED BY <1>2 DEF Log, NextCommit

\* The log depends on nothing else.
LEMMA LogSame == ASSUME UNCHANGED <<chain, committed>> PROVE Log' = Log
  BY DEF Log

\* Where flush_safely is called there is room for one more record afterwards,
\* whether it flushes or not.
LEMMA FlushSafely ==
  ASSUME IInv, link # "lost", chain' = flush_safely.chain, UNCHANGED committed
  PROVE  /\ \E d, c : Coherent(Log', flush_safely.txn, d, link, c, said)
         /\ Room(flush_safely.txn)
         /\ chain' \in Seq(TxnType)
<1>1. /\ TypeOK /\ Coherent(Log, transaction, dirty, link, cur, said)
      /\ transaction \in TxnType /\ chain \in Seq(TxnType) /\ trlimit \in Nat
      /\ transaction.env \in SUBSET EnvKeys
  BY TrlimitAssumption DEF IInv, TypeOK, TxnType
<1>2. /\ Cardinality(transaction.adds) \in Nat /\ Cardinality(transaction.dels) \in Nat
      /\ ~dirty => Cardinality(transaction.adds) = 0 /\ Cardinality(transaction.dels) = 0
  <2>1. /\ IsFiniteSet(transaction.adds) /\ IsFiniteSet(transaction.dels)
        /\ ~dirty => transaction.adds = {} /\ transaction.dels = {}
    BY <1>1 DEF Coherent, Tidy
  <2> QED BY <2>1, FS_CardinalityType, FS_EmptySet
<1>3. CASE (deadline = "passed" \/ TooBig) /\ dirty
  <2>1. /\ flush_safely.txn = [Blank EXCEPT !.env = transaction.env]
        /\ flush_safely.chain = Append(chain, transaction)
    BY <1>3 DEF flush_safely, flush, Flushed
  <2>2. Log' = Append(Log, transaction)
    BY <1>1, <2>1, LogAppend
  <2>3. Coherent(Log', flush_safely.txn, FALSE, link, NoRec, said)
    <3>1. Coherent(Append(Log, transaction), [Blank EXCEPT !.env = transaction.env],
                   FALSE, link, NoRec, said)
      BY <1>1, FlushKeeps, Zenon
    <3> QED BY <3>1, <2>1, <2>2
  <2>4. flush_safely.txn.adds = {} /\ flush_safely.txn.dels = {}
    BY <1>1, <2>1, BlankEnv
  <2>5. Room(flush_safely.txn)
    BY <1>1, <2>4, FS_EmptySet DEF Room
  <2>6. \E d, c : Coherent(Log', flush_safely.txn, d, link, c, said)
    BY <2>3
  <2>7. chain' \in Seq(TxnType)
    BY <1>1, <2>1
  <2> QED BY <2>5, <2>6, <2>7
<1>4. CASE ~((deadline = "passed" \/ TooBig) /\ dirty)
  <2>1. flush_safely.txn = transaction /\ flush_safely.chain = chain
    BY <1>4 DEF flush_safely, flush, AsIs
  <2>2. Log' = Log
    BY <2>1, LogSame
  <2>3. Room(transaction)
    <3>1. CASE dirty
      BY <1>1, <1>2, <1>4, <3>1 DEF TooBig, Room
    <3>2. CASE ~dirty
      BY <1>1, <1>2, <3>2 DEF Room
    <3> QED BY <3>1, <3>2
  <2> QED BY <1>1, <2>1, <2>2, <2>3
<1> QED BY <1>3, <1>4

\* mark_dirty sets dirty and keeps the deadline's type.
LEMMA MarkDirtyTypes ==
  ASSUME TypeOK, NEW cleared \in BOOLEAN, mark_dirty(cleared)
  PROVE  dirty' = TRUE /\ deadline' \in {"none", "ahead", "passed"}
  BY DEF mark_dirty, TypeOK

\* TypeOK follows from the types of the log's halves and of what Coherent names.
LEMMA CoherentTypes ==
  ASSUME Coherent(Log', transaction', dirty', link', cur', said'),
         chain' \in Seq(TxnType), committed' \in Seq(TxnType),
         deadline' \in {"none", "ahead", "passed"}
  PROVE  IInv'
<1>1. TypeOK'
  BY DEF Coherent, Typed, TypeOK
<1> QED BY <1>1 DEF IInv

\* IInv holds at first.
LEMMA InitIInv == Init => IInv
<1> SUFFICES ASSUME Init PROVE IInv
  OBVIOUS
<1>1. /\ transaction \in TxnType /\ transaction.adds = {} /\ transaction.dels = {}
      /\ transaction.aliases = {} /\ transaction.infos = {} /\ transaction.env = {}
      /\ transaction.initial /\ transaction.connected
  <2>1. Blank \in TxnType
    BY DEF Blank, TxnType
  <2> QED BY <2>1 DEF Init, Blank, TxnType
<1>2. /\ said \in SaidType /\ said.recs = {} /\ said.aliases = {} /\ said.infos = {}
      /\ said.env = {} /\ said.ids = {}
  BY DEF Init, Silence, SaidType
<1>3. Log = <<>>
  BY DEF Init, Log
<1>4. dirty \in BOOLEAN
  BY Zenon DEF Init
<1>5. TypeOK /\ Typed(Log, transaction, dirty, link, cur, said)
  BY <1>1, <1>2, <1>3, <1>4 DEF Init, TypeOK, Typed
<1>6. Tidy(transaction, dirty, cur, said)
  BY <1>1, <1>2, FS_EmptySet DEF Init, Tidy
<1>7. Cut(Log, transaction)
  <2>1. Bounded(transaction)
    BY <1>1, FS_EmptySet, TrlimitAssumption DEF Bounded
  <2>2. Whole(transaction)
    BY <1>1 DEF Whole
  <2> QED BY <2>1, <2>2, <1>3 DEF Cut
<1>8. Ordered(Log, transaction, link) /\ EnvKept(Log, transaction, link, said)
  BY <1>1, <1>2, <1>3 DEF Ordered, EnvKept
<1>9. Replayed(Log, transaction, link, said)
  <2>1. Replay(Log) = Nothing
    BY <1>3, ReplayEmpty
  <2>2. Closed(Nothing)
    BY DEF Closed, ViewType, Nothing
  <2>3. Apply(Nothing, transaction) = Told(said)
    BY <1>1, <1>2 DEF Apply, Nothing, Told
  <2> QED BY <2>1, <2>2, <2>3 DEF Replayed
<1> QED BY <1>5, <1>6, <1>7, <1>8, <1>9 DEF IInv, Coherent

-----------------------------------------------------------------------------
(* The steps.                                                              *)

\* Infos and aliases, which never flush.
LEMMA FillingKeeps ==
  ASSUME IInv, (\E k \in EnvKeys : ioc_info(k)) \/ add_alias \/ rec_info
  PROVE  IInv'
<1>1. TypeOK /\ Coherent(Log, transaction, dirty, link, cur, said) /\ link # "lost"
  BY DEF IInv, ioc_info, add_alias, rec_info, Receiving
<1>2. /\ UNCHANGED <<chain, committed, link, cur>> /\ dirty' = TRUE
      /\ deadline' \in {"none", "ahead", "passed"}
  BY <1>1, MarkDirtyTypes DEF ioc_info, add_alias, rec_info
<1>3. Log' = Log
  BY <1>2, LogSame
<1>4. Coherent(Log', transaction', dirty', link', cur', said')
  <2>1. ASSUME NEW k \in EnvKeys, ioc_info(k)
        PROVE  Coherent(Log, transaction', TRUE, link, cur, said')
    BY <2>1, <1>1, IocInfoKeeps DEF ioc_info
  <2>2. CASE add_alias
    <3>1. Coherent(Log, transaction', TRUE, link, cur, said')
      BY <2>2, <1>1, AddAliasKeeps DEF add_alias
    <3> QED BY <3>1, <1>2, <1>3
  <2>3. CASE rec_info
    <3>1. Coherent(Log, transaction', TRUE, link, cur, said')
      BY <2>3, <1>1, RecInfoKeeps DEF rec_info
    <3> QED BY <3>1, <1>2, <1>3
  <2> QED BY <2>1, <2>2, <2>3, <1>2, <1>3
<1> QED BY <1>1, <1>2, <1>4, CoherentTypes DEF TypeOK

\* A record, with its flush by size or by deadline.
LEMMA AddRecordStep == ASSUME IInv, NEW r \in RecIds, add_record(r) PROVE IInv'
<1>1. /\ link # "lost" /\ chain' = flush_safely.chain /\ UNCHANGED <<committed, link>>
      /\ cur' = r /\ r \notin said.ids
  BY DEF add_record, Receiving
<1>2. dirty' = TRUE /\ deadline' \in {"none", "ahead", "passed"}
  BY MarkDirtyTypes DEF IInv, add_record
<1>3. PICK d, c : Coherent(Log', flush_safely.txn, d, link, c, said)
  BY <1>1, FlushSafely
<1>4. Room(flush_safely.txn) /\ chain' \in Seq(TxnType)
  BY <1>1, FlushSafely
<1>5. /\ transaction' = [flush_safely.txn EXCEPT !.adds = flush_safely.txn.adds \cup {r}]
      /\ said' = [said EXCEPT !.recs = said.recs \cup {r}, !.ids = said.ids \cup {r}]
  BY DEF add_record
<1>6. Adds(flush_safely.txn, r, transaction') /\ Announces(said, r, said')
  <2>1. flush_safely.txn \in TxnType /\ said \in SaidType
    BY <1>1, <1>3, CoherentFacts
  <2> QED BY <1>5, <2>1, AddsType
<1>7. Coherent(Log', transaction', TRUE, link, r, said')
  BY <1>1, <1>3, <1>4, <1>6, AddRecordKeeps
<1> QED BY <1>1, <1>2, <1>4, <1>7, CoherentTypes DEF IInv, TypeOK

\* A deletion, with its flush.
LEMMA DelRecordStep == ASSUME IInv, NEW r \in RecIds, del_record(r) PROVE IInv'
<1>1. /\ link # "lost" /\ chain' = flush_safely.chain /\ UNCHANGED <<committed, link>>
      /\ cur' = NoRec /\ r \in said.recs
  BY DEF del_record, Receiving
<1>2. dirty' = TRUE /\ deadline' \in {"none", "ahead", "passed"}
  BY MarkDirtyTypes DEF IInv, del_record
<1>3. PICK d, c : Coherent(Log', flush_safely.txn, d, link, c, said)
  BY <1>1, FlushSafely
<1>4. Room(flush_safely.txn) /\ chain' \in Seq(TxnType)
  BY <1>1, FlushSafely
<1>5. /\ transaction' = [flush_safely.txn EXCEPT !.adds = flush_safely.txn.adds \ {r},
                                                 !.infos = flush_safely.txn.infos \ {r},
                                                 !.dels = flush_safely.txn.dels \cup {r}]
      /\ said' = [said EXCEPT !.recs = said.recs \ {r}, !.aliases = said.aliases \ {r},
                              !.infos = said.infos \ {r}]
  BY DEF del_record
<1>6. Coherent(Log', transaction', TRUE, link, NoRec, said')
  BY <1>1, <1>3, <1>4, <1>5, DelRecordKeeps
<1> QED BY <1>1, <1>2, <1>4, <1>6, CoherentTypes DEF IInv, TypeOK

\* Upload Done, with its flush.
LEMMA DoneStep == ASSUME IInv, done PROVE IInv'
<1>1. /\ TypeOK /\ Coherent(Log, transaction, dirty, link, cur, said) /\ link # "lost"
      /\ chain \in Seq(TxnType) /\ committed \in Seq(TxnType) /\ transaction \in TxnType
  BY DEF IInv, TypeOK, done, Receiving
<1>2. UNCHANGED <<committed, link, said>> /\ dirty' = FALSE /\ deadline' = "none" /\ cur' = NoRec
  BY DEF done
<1>3. CASE dirty
  <2>1. chain' = Append(chain, transaction) /\ transaction' = [Blank EXCEPT !.env = transaction.env]
    BY <1>3 DEF done, flush, Flushed
  <2>2. Log' = Append(Log, transaction)
    BY <1>1, <1>2, <2>1, LogAppend
  <2>3. Coherent(Log', transaction', FALSE, link, NoRec, said)
    <3>1. Coherent(Append(Log, transaction), [Blank EXCEPT !.env = transaction.env],
                   FALSE, link, NoRec, said)
      BY <1>1, FlushKeeps, Zenon
    <3> QED BY <3>1, <2>1, <2>2
  <2>4. Coherent(Log', transaction', dirty', link', cur', said')
    BY <1>2, <2>3, Zenon
  <2> QED BY <1>1, <1>2, <2>1, <2>4, CoherentTypes
<1>4. CASE ~dirty
  <2>1. chain' = chain /\ transaction' = transaction /\ dirty = FALSE
    BY <1>1, <1>4 DEF done, flush, AsIs, TypeOK
  <2>2. Log' = Log
    BY <1>2, <2>1, LogSame
  <2>3. Coherent(Log', transaction', FALSE, link, NoRec, said)
    BY <1>1, <2>1, <2>2, ForgetKeeps
  <2> QED BY <1>1, <1>2, <2>1, <2>3, CoherentTypes
<1> QED BY <1>3, <1>4

\* The disconnect.
LEMMA CloseStep == ASSUME IInv, close PROVE IInv'
<1>1. /\ TypeOK /\ Coherent(Log, transaction, dirty, link, cur, said) /\ link # "lost"
      /\ chain \in Seq(TxnType) /\ committed \in Seq(TxnType)
  BY DEF IInv, TypeOK, close
<1> DEFINE x == [Blank EXCEPT !.connected = FALSE]
<1>2. x \in TxnType
  BY DEF Blank, TxnType
<1>3. /\ chain' = Append(chain, x) /\ transaction' = Blank /\ dirty' = FALSE
      /\ deadline' = "none" /\ cur' = NoRec /\ link' = "lost" /\ UNCHANGED <<committed, said>>
  BY DEF close
<1> HIDE DEF x
<1>4. Log' = Append(Log, x)
  BY <1>1, <1>2, <1>3, LogAppend
<1>5. Coherent(Log', transaction', dirty', link', cur', said')
  BY <1>1, <1>3, <1>4, CloseKeeps DEF x
<1> QED BY <1>1, <1>2, <1>3, <1>5, CoherentTypes

\* The end of a commit, which may give the connection up.
LEMMA CommitStep == ASSUME IInv, CommitEnds \/ CommitFails PROVE IInv'
<1>1. /\ TypeOK /\ Coherent(Log, transaction, dirty, link, cur, said)
      /\ chain \in Seq(TxnType) /\ committed \in Seq(TxnType) /\ link \in {"open", "closing", "lost"}
      /\ deadline \in {"none", "ahead", "passed"}
  BY DEF IInv, TypeOK
<1>2. NextCommit /\ UNCHANGED <<transaction, dirty, deadline, cur, said>>
  BY DEF CommitEnds, CommitFails, NextCommit
<1>3. link' \in {"open", "closing", "lost"} /\ (link' = "lost" <=> link = "lost")
  BY <1>1 DEF CommitEnds, CommitFails
<1>4. Log' = Log
  BY <1>1, <1>2, LogShift
<1>5. chain' \in Seq(TxnType) /\ committed' \in Seq(TxnType)
  BY <1>1, <1>2 DEF NextCommit
<1>6. Coherent(Log', transaction', dirty', link', cur', said')
  BY <1>1, <1>2, <1>3, <1>4, LinkKeeps
<1> QED BY <1>1, <1>2, <1>5, <1>6, CoherentTypes

\* Every step keeps IInv.
LEMMA StepIInv == IInv /\ [Next]_vars => IInv'
<1> SUFFICES ASSUME IInv, [Next]_vars PROVE IInv'
  OBVIOUS
<1>1. CASE UNCHANGED vars \/ DeadlinePasses
  <2>1. UNCHANGED <<transaction, dirty, chain, committed, link, cur, said>>
    BY <1>1 DEF vars, DeadlinePasses
  <2>2. deadline' \in {"none", "ahead", "passed"}
    BY <1>1 DEF vars, DeadlinePasses, IInv, TypeOK
  <2>3. Log' = Log
    BY <2>1, LogSame
  <2> QED BY <2>1, <2>2, <2>3, CoherentTypes DEF IInv, TypeOK
<1>2. CASE Next
  BY <1>1, <1>2, FillingKeeps, AddRecordStep, DelRecordStep, DoneStep, CloseStep, CommitStep
     DEF Next
<1> QED BY <1>1, <1>2

-----------------------------------------------------------------------------
(* The theorems.                                                           *)

\* The inductive invariant holds of every behaviour of a session.
THEOREM Invariance == Spec => []IInv
  BY InitIInv, StepIInv, PTL DEF Spec

\* Every variable keeps its type.
THEOREM TypeCorrect == Spec => []TypeOK
<1>1. IInv => TypeOK
  BY DEF IInv
<1> QED BY <1>1, Invariance, PTL

\* Every transaction is whole and within the bound.
LEMMA LogElements ==
  ASSUME IInv, NEW u \in ToSet(Append(Log, transaction))
  PROVE  Whole(u) /\ Bounded(u)
<1>1. Log \in Seq(TxnType) /\ transaction \in TxnType /\ Cut(Log, transaction)
  BY DEF IInv, Coherent, Typed
<1>2. PICK i \in 1..Len(Append(Log, transaction)) : u = Append(Log, transaction)[i]
  BY <1>1 DEF ToSet
<1>3. u = transaction \/ (i \in 1..Len(Log) /\ u = Log[i])
  BY <1>1, <1>2
<1> QED BY <1>1, <1>3 DEF Cut

\* flush_safely runs only where a record begins or is deleted: no transaction
\* carries an info or an alias of a record that it does not itself add or delete.
THEOREM NoRecordIsSplit == Spec => []NothingSplit
<1>1. IInv => NothingSplit
  BY LogElements DEF NothingSplit, Whole
<1> QED BY <1>1, Invariance, PTL

\* No transaction grows past commitSizeLimit, at whatever point it is flushed.
THEOREM BatchesAreBounded == Spec => []BatchBound
<1>1. IInv => BatchBound
  BY LogElements DEF BatchBound, Bounded
<1> QED BY <1>1, Invariance, PTL

\* Whatever was flushed, committed or refused: the transactions, applied in
\* order, give the records, aliases and infos the client has announced, and a
\* session that is not dirty holds nothing back.
THEOREM NothingIsLost == Spec => []NothingLost
<1>1. ASSUME IInv PROVE NothingLost
  <2> SUFFICES ASSUME link # "lost"
               PROVE  LET v == Replay(Append(Log, transaction)) IN
                      /\ v = Told(said) /\ transaction.env = said.env
                      /\ ~dirty => Replay(Log) = v
    BY DEF NothingLost, Told
  <2>1. /\ Log \in Seq(TxnType) /\ transaction \in TxnType
        /\ Closed(Replay(Log)) /\ Apply(Replay(Log), transaction) = Told(said)
        /\ transaction.env = said.env /\ Tidy(transaction, dirty, cur, said)
    BY <1>1 DEF IInv, Coherent, Typed, Replayed, EnvKept
  <2>2. Replay(Append(Log, transaction)) = Told(said)
    BY <2>1, ReplayAppend
  <2>3. ASSUME ~dirty PROVE Replay(Log) = Told(said)
    <3> DEFINE v == Replay(Log)
    <3>1. Closed(v) /\ Apply(v, transaction) = Told(said)
      BY <2>1
    <3> HIDE DEF v
    <3>2. /\ transaction.adds = {} /\ transaction.dels = {}
          /\ transaction.aliases = {} /\ transaction.infos = {}
      BY <2>1, <2>3 DEF Tidy
    <3>3. v.recs = said.recs /\ v.aliases = said.aliases /\ v.infos = said.infos
      BY <3>1, <3>2 DEF Apply, Told, Closed
    <3>4. v = Told(said)
      BY <3>1, <3>3 DEF Closed, ViewType, Told
    <3> QED BY <3>4 DEF v
  <2> QED BY <2>1, <2>2, <2>3
<1> QED BY <1>1, Invariance, PTL

\* The initial transaction is the first and only the first, and the disconnect
\* of a lost connection comes once and last, although commits are chained and
\* may fail.
THEOREM InitialIsFirstDisconnectIsLast == Spec => []InitialFirstDisconnectLast
<1>1. IInv => InitialFirstDisconnectLast
  BY DEF IInv, Coherent, Ordered, InitialFirstDisconnectLast
<1> QED BY <1>1, Invariance, PTL

\* A later transaction of a connected session knows the IOC-level infos of all
\* earlier ones.
THEOREM EnvIsCarriedOn == Spec => []EnvCarriedOn
<1>1. IInv => EnvCarriedOn
  BY DEF IInv, Coherent, EnvKept, EnvCarriedOn
<1> QED BY <1>1, Invariance, PTL

\* A sequence begins what is appended to it.
LEMMA AppendExtends ==
  ASSUME NEW S, NEW s \in Seq(S), NEW x \in S
  PROVE  IsPrefix(s, s) /\ IsPrefix(s, Append(s, x))
<1>1. SubSeq(s, 1, Len(s)) = SubSeq(Append(s, x), 1, Len(s))
  OBVIOUS
<1> QED BY <1>1 DEF IsPrefix

\* A step leaves the log as it is or appends one transaction.
LEMMA StepAppends ==
  ASSUME IInv, Next
  PROVE  Log' = Log \/ \E x \in TxnType : Log' = Append(Log, x)
<1>1. TypeOK /\ transaction \in TxnType
  BY DEF IInv, TypeOK
<1>2. CASE CommitEnds \/ CommitFails
  BY <1>1, <1>2, LogShift DEF CommitEnds, CommitFails
<1>3. CASE close
  <2>1. [Blank EXCEPT !.connected = FALSE] \in TxnType
    BY DEF Blank, TxnType
  <2> QED BY <1>1, <1>3, <2>1, LogAppend DEF close
<1>4. CASE UNCHANGED committed /\ chain' \in {chain, Append(chain, transaction)}
  BY <1>1, <1>4, LogSame, LogAppend
<1>5. CASE done \/ \E r \in RecIds : add_record(r) \/ del_record(r)
  BY <1>4, <1>5 DEF done, add_record, del_record, flush_safely, flush, Flushed, AsIs
<1>6. CASE add_alias \/ rec_info \/ DeadlinePasses \/ \E k \in EnvKeys : ioc_info(k)
  BY <1>4, <1>6 DEF add_alias, rec_info, DeadlinePasses, ioc_info
<1> QED BY <1>2, <1>3, <1>5, <1>6 DEF Next

\* What was handed over stays handed over: no handler, not even close or a
\* failing commit, withdraws or overtakes a transaction.
THEOREM TheLogOnlyGrows == Spec => LogOnlyGrows
<1>1. IInv /\ [Next]_vars => [IsPrefix(Log, Log')]_vars
  <2> SUFFICES ASSUME IInv, Next PROVE IsPrefix(Log, Log')
    OBVIOUS
  <2>1. Log \in Seq(TxnType) /\ transaction \in TxnType
    BY DEF IInv, Coherent, Typed
  <2> QED BY <2>1, StepAppends, AppendExtends
<1> QED BY <1>1, Invariance, PTL DEF Spec, LogOnlyGrows
=============================================================================
