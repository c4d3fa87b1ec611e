---------------------------- MODULE Wire_proofs -----------------------------
(***************************************************************************)
(* Proofs about Wire, for any plan, any lengths of texts and any widths of *)
(* the length fields.                                                      *)
(***************************************************************************)
EXTENDS Wire, DataLemmas, SequenceTheorems

-----------------------------------------------------------------------------
(* Messages and their frames.                                              *)

Texts == [t : {"key", "val"}, n : Nat, utf8 : BOOLEAN]
Units == [t : {"head"}, id : {"add", "info", "done"}, len : Nat]
         \cup [t : {"fixed"}, n : Nat, kl : Nat, vl : Nat] \cup Texts
Msgs == [n : Nat, kind : Kinds \cup {"done"}, kl : Nat, vl : Nat, utf8 : BOOLEAN]

\* What casterPushPDB can send: an item of the plan, or Done.
Sendable(m) ==
  /\ m \in Msgs
  /\ m.kind = "done" => m = Done
  /\ m.kind # "done" => m.n \in DOMAIN Plan /\ Plan[m.n].kind = m.kind
                        /\ m.vl # 0 /\ (m.kl = 0 <=> m.kind = "alias")

Head1(m) == [t |-> "head", id |-> MsgId(m), len |-> 1 + m.kl + m.vl]
Fixed(m) == [t |-> "fixed", n |-> m.n, kl |-> m.kl % KeyMod, vl |-> m.vl % ValMod]
Text(m, t) == [t |-> t, n |-> m.n, utf8 |-> m.utf8]

\* A length is what its field says exactly when it fits.
LEMMA Modulo ==
  ASSUME NEW x \in Nat, NEW M \in Nat \ {0}
  PROVE  x % M \in Nat /\ x % M <= x /\ (x % M = x <=> x < M)
<1>1. x % M \in 0..(M - 1)
  BY SMT
<1>2. x < M => x % M = x
  BY SMT
<1>3. x >= M => x % M < x
  BY SMT
<1> QED BY <1>1, <1>2, <1>3

\* The length fields have a width.
LEMMA Widths == KeyMod \in Nat \ {0} /\ ValMod \in Nat \ {0}
  BY LengthsAssumption

\* The message id says the kind.
LEMMA MsgIds ==
  ASSUME NEW m \in Msgs
  PROVE  /\ MsgId(m) \in {"add", "info", "done"}
         /\ MsgId(m) = "done" <=> m.kind = "done"
         /\ MsgId(m) = "add" <=> m.kind \in {"record", "alias"}
<1>1. m.kind \in {"env", "record", "alias", "info", "recordDesc", "done"}
  BY DEF Msgs, Kinds
<1> QED BY <1>1 DEF MsgId

\* A frame is a sequence of units.
LEMMA FrameUnits ==
  ASSUME NEW m \in Msgs
  PROVE  Head1(m) \in Units /\ Fixed(m) \in Units /\ Text(m, "key") \in Units /\ Text(m, "val") \in Units
<1>1. m.n \in Nat /\ m.kl \in Nat /\ m.vl \in Nat /\ m.utf8 \in BOOLEAN
  BY DEF Msgs
<1>2. m.kl % KeyMod \in Nat /\ m.vl % ValMod \in Nat
  BY <1>1, Widths, Modulo
<1>3. Head1(m) \in Units
  BY <1>1, MsgIds DEF Head1, Units
<1>4. Fixed(m) \in Units
  BY <1>1, <1>2 DEF Fixed, Units
<1>5. Text(m, "key") \in Texts /\ Text(m, "val") \in Texts
  BY <1>1 DEF Text, Texts
<1> QED BY <1>3, <1>4, <1>5 DEF Units

\* What is found where in a concatenation.
LEMMA Concat ==
  ASSUME NEW S, NEW p \in Seq(S), NEW q \in Seq(S)
  PROVE  /\ p \o q \in Seq(S) /\ Len(p \o q) = Len(p) + Len(q)
         /\ \A j \in 1..Len(p) : (p \o q)[j] = p[j]
         /\ \A j \in 1..Len(q) : (p \o q)[Len(p) + j] = q[j]
<1>1. Len(p) \in Nat /\ Len(q) \in Nat
  OBVIOUS
<1>2. ASSUME NEW j \in 1..Len(q) PROVE (p \o q)[Len(p) + j] = q[j]
  <2>1. Len(p) + j \in 1..(Len(p) + Len(q)) /\ ~(Len(p) + j <= Len(p)) /\ (Len(p) + j) - Len(p) = j
    BY <1>1
  <2> QED BY <2>1, ConcatProperties
<1> QED BY <1>1, <1>2, ConcatProperties

\* What a frame holds: the header, the fixed part and the text, at these
\* places.
LEMMA FrameFacts ==
  ASSUME NEW m \in Msgs
  PROVE  /\ frame(m) \in Seq(Units) /\ Len(frame(m)) = 2 + m.kl + m.vl
         /\ frame(m)[1] = Head1(m) /\ frame(m)[2] = Fixed(m)
         /\ \A j \in 1..m.kl : frame(m)[2 + j] = Text(m, "key")
         /\ \A j \in 1..m.vl : frame(m)[2 + m.kl + j] = Text(m, "val")
<1> DEFINE p == <<Head1(m), Fixed(m)>>
           k == [j \in 1..m.kl |-> Text(m, "key")]
           v == [j \in 1..m.vl |-> Text(m, "val")]
<1>1. m.kl \in Nat /\ m.vl \in Nat
  BY DEF Msgs
<1>2. p \in Seq(Units) /\ Len(p) = 2 /\ p[1] = Head1(m) /\ p[2] = Fixed(m)
  BY FrameUnits
<1>3. k \in Seq(Units) /\ Len(k) = m.kl /\ \A j \in 1..m.kl : k[j] = Text(m, "key")
  BY <1>1, FrameUnits
<1>4. v \in Seq(Units) /\ Len(v) = m.vl /\ \A j \in 1..m.vl : v[j] = Text(m, "val")
  BY <1>1, FrameUnits
<1>5. frame(m) = p \o k \o v
  BY DEF frame, Head1, Fixed, Text
<1> DEFINE pk == p \o k
<1> HIDE DEF p, k, v
<1>6. /\ pk \in Seq(Units) /\ Len(pk) = 2 + m.kl /\ pk[1] = Head1(m) /\ pk[2] = Fixed(m)
      /\ \A j \in 1..m.kl : pk[2 + j] = Text(m, "key")
  <2>1. /\ p \o k \in Seq(Units) /\ Len(p \o k) = Len(p) + Len(k)
        /\ \A j \in 1..Len(p) : (p \o k)[j] = p[j]
        /\ \A j \in 1..Len(k) : (p \o k)[Len(p) + j] = k[j]
    <3>1. p \in Seq(Units) /\ k \in Seq(Units)
      BY <1>2, <1>3
    <3> QED BY <3>1, Concat
  <2> QED BY <1>1, <1>2, <1>3, <2>1
<1>7. frame(m) = pk \o v
  BY <1>5
<1> HIDE DEF pk
<1>8. 1 \in 1..Len(pk) /\ 2 \in 1..Len(pk) /\ \A j \in 1..m.kl : 2 + j \in 1..Len(pk)
  BY <1>1, <1>6
<1>9. /\ pk \o v \in Seq(Units) /\ Len(pk \o v) = Len(pk) + Len(v)
      /\ \A j \in 1..Len(pk) : (pk \o v)[j] = pk[j]
      /\ \A j \in 1..Len(v) : (pk \o v)[Len(pk) + j] = v[j]
  <2>1. pk \in Seq(Units) /\ v \in Seq(Units)
    BY <1>4, <1>6
  <2> QED BY <2>1, Concat
<1> QED BY <1>1, <1>4, <1>6, <1>7, <1>8, <1>9

-----------------------------------------------------------------------------
(* Expectations is a fold: one more send adds at most one update.          *)

Sends == [msg : Msgs, whole : BOOLEAN]
Updates == [n : Nat, key : Seq(Texts), val : Seq(Texts)]

\* Expectations satisfies its equation.
LEMMA ExpectationsDef ==
  ASSUME NEW log \in Seq(Sends)
  PROVE  Expectations(log) = [k \in 0..Len(log) |->
           IF k = 0 THEN <<>> ELSE Given(Expectations(log)[k - 1], log[k].msg)]
<1> DEFINE IsExp(g, n) ==
      g = [k \in 0..n |-> IF k = 0 THEN <<>> ELSE Given(g[k - 1], log[k].msg)]
<1> DEFINE Good == {n \in 0..Len(log) : \E g : IsExp(g, n)}
<1>0. Len(log) \in Nat
  OBVIOUS
<1>1. 0 \in Good
  <2> DEFINE g == [k \in 0..0 |-> <<>>]
  <2>1. IsExp(g, 0)
    OBVIOUS
  <2> HIDE DEF g, IsExp
  <2>2. \E f : IsExp(f, 0)
    BY <2>1
  <2> QED BY <2>2, <1>0
<1>2. ASSUME NEW n \in 0..(Len(log) - 1), n \in Good PROVE n + 1 \in Good
  <2>1. PICK g : IsExp(g, n)
    BY <1>2
  <2> DEFINE h == [k \in 0..(n + 1) |-> IF k = n + 1 THEN Given(g[n], log[n + 1].msg) ELSE g[k]]
  <2>2. IsExp(h, n + 1)
    BY <2>1
  <2> HIDE DEF h, IsExp
  <2>3. \E f : IsExp(f, n + 1)
    BY <2>2
  <2> QED BY <2>3, <1>0
<1> HIDE DEF Good
<1>3. 0..Len(log) \subseteq Good
  BY <1>0, <1>1, <1>2, Induction
<1>4. \E g : IsExp(g, Len(log))
  BY <1>0, <1>3 DEF Good
<1> QED BY <1>4 DEF Expectations

\* What is expected after one more message.
LEMMA ExpectationsStep ==
  ASSUME NEW log \in Seq(Sends)
  PROVE  /\ Expectations(log)[0] = <<>>
         /\ \A k \in 1..Len(log) : Expectations(log)[k] = Given(Expectations(log)[k - 1], log[k].msg)
<1> DEFINE f == Expectations(log)
<1>1. f = [k \in 0..Len(log) |-> IF k = 0 THEN <<>> ELSE Given(f[k - 1], log[k].msg)]
  BY ExpectationsDef
<1>2. Len(log) \in Nat
  OBVIOUS
<1> HIDE DEF f
<1>3. f[0] = <<>>
  BY <1>1, <1>2
<1>4. ASSUME NEW k \in 1..Len(log) PROVE f[k] = Given(f[k - 1], log[k].msg)
  BY <1>1, <1>2
<1> QED BY <1>3, <1>4 DEF f

\* The expectations of a log are those of its extension.
LEMMA ExpectationsAgree ==
  ASSUME NEW log \in Seq(Sends), NEW x \in Sends
  PROVE  \A k \in 0..Len(log) : Expectations(Append(log, x))[k] = Expectations(log)[k]
<1> DEFINE f == Expectations(log)
           h == Expectations(Append(log, x))
           Good == {k \in 0..Len(log) : h[k] = f[k]}
<1>0. /\ Len(log) \in Nat /\ Append(log, x) \in Seq(Sends) /\ Len(Append(log, x)) = Len(log) + 1
      /\ \A k \in 1..Len(log) : Append(log, x)[k] = log[k]
  OBVIOUS
<1>1. f[0] = <<>> /\ \A k \in 1..Len(log) : f[k] = Given(f[k - 1], log[k].msg)
  BY ExpectationsStep
<1>2. h[0] = <<>> /\ \A k \in 1..Len(log) : h[k] = Given(h[k - 1], log[k].msg)
  <2>1. h[0] = <<>> /\ \A k \in 1..Len(Append(log, x)) : h[k] = Given(h[k - 1], Append(log, x)[k].msg)
    BY <1>0, ExpectationsStep
  <2> HIDE DEF h
  <2> QED BY <1>0, <2>1
<1> HIDE DEF f, h
<1>3. 0 \in Good
  BY <1>0, <1>1, <1>2
<1>4. ASSUME NEW k \in 0..(Len(log) - 1), k \in Good PROVE k + 1 \in Good
  <2>1. k + 1 \in 1..Len(log) /\ (k + 1) - 1 = k
    BY <1>0
  <2> QED BY <1>4, <2>1, <1>1, <1>2
<1> HIDE DEF Good
<1>5. 0..Len(log) \subseteq Good
  BY <1>0, <1>3, <1>4, Induction
<1> QED BY <1>5 DEF Good, f, h

\* A sequence of n equal units.
LEMMA Repeat ==
  ASSUME NEW S, NEW x \in S, NEW n \in Nat
  PROVE  /\ [j \in 1..n |-> x] \in Seq(S) /\ Len([j \in 1..n |-> x]) = n
         /\ \A j \in 1..n : [i \in 1..n |-> x][j] = x
  OBVIOUS

\* What the server is given grows at the end only.
LEMMA GivenGrows ==
  ASSUME NEW m \in Msgs, NEW u \in Seq(Updates)
  PROVE  /\ Given(u, m) \in Seq(Updates) /\ Len(u) <= Len(Given(u, m))
         /\ \A i \in 1..Len(u) : Given(u, m)[i] = u[i]
<1>1. m.n \in Nat /\ m.kl \in Nat /\ m.vl \in Nat
  BY DEF Msgs
<1> DEFINE b == [j \in 1..m.kl |-> [t |-> "key", n |-> m.n, utf8 |-> TRUE]]
           w == [j \in 1..m.vl |-> [t |-> "val", n |-> m.n, utf8 |-> TRUE]]
<1>2. b \in Seq(Texts) /\ w \in Seq(Texts)
  <2>1. [t |-> "key", n |-> m.n, utf8 |-> TRUE] \in Texts /\ [t |-> "val", n |-> m.n, utf8 |-> TRUE] \in Texts
    BY <1>1 DEF Texts
  <2> QED BY <1>1, <2>1, Repeat
<1>3. Faithful(m) = [n |-> m.n, key |-> b, val |-> w]
  BY DEF Faithful
<1> HIDE DEF b, w
<1>4. Faithful(m) \in Updates
  BY <1>1, <1>2, <1>3 DEF Updates
<1>5. Given(u, m) = u \/ Given(u, m) = Append(u, Faithful(m))
  BY DEF Given
<1> QED BY <1>4, <1>5

\* The expectations only grow.
LEMMA ExpectationsGrow ==
  ASSUME NEW log \in Seq(Sends)
  PROVE  \A b \in 0..Len(log) : \A a \in 0..b :
           /\ Expectations(log)[b] \in Seq(Updates)
           /\ IsPrefix(Expectations(log)[a], Expectations(log)[b])
<1> DEFINE f == Expectations(log)
           Good == {b \in 0..Len(log) :
                      /\ f[b] \in Seq(Updates)
                      /\ \A a \in 0..b : /\ f[a] \in Seq(Updates) /\ Len(f[a]) <= Len(f[b])
                                         /\ \A i \in 1..Len(f[a]) : f[b][i] = f[a][i]}
<1>0. Len(log) \in Nat
  OBVIOUS
<1>1. f[0] = <<>> /\ \A k \in 1..Len(log) : f[k] = Given(f[k - 1], log[k].msg)
  BY ExpectationsStep
<1> HIDE DEF f
<1>2. 0 \in Good
  <2>1. f[0] \in Seq(Updates) /\ Len(f[0]) \in Nat
    BY <1>1
  <2>2. \A a \in 0..0 : a = 0
    OBVIOUS
  <2>3. \A a \in 0..0 : /\ f[a] \in Seq(Updates) /\ Len(f[a]) <= Len(f[0])
                       /\ \A i \in 1..Len(f[a]) : f[0][i] = f[a][i]
    BY <2>1, <2>2
  <2> QED BY <1>0, <2>1, <2>3
<1>3. ASSUME NEW k \in 0..(Len(log) - 1), k \in Good PROVE k + 1 \in Good
  <2>1. k + 1 \in 1..Len(log) /\ (k + 1) - 1 = k /\ k \in Nat
    BY <1>0
  <2>2. log[k + 1].msg \in Msgs
    <3>1. log[k + 1] \in Sends
      BY <2>1, ElementOfSeq
    <3> QED BY <3>1 DEF Sends
  <2>3. f[k + 1] = Given(f[k], log[k + 1].msg)
    BY <1>1, <2>1
  <2>4. /\ f[k + 1] \in Seq(Updates) /\ Len(f[k]) <= Len(f[k + 1]) /\ f[k] \in Seq(Updates)
        /\ \A i \in 1..Len(f[k]) : f[k + 1][i] = f[k][i]
    BY <1>3, <2>2, <2>3, GivenGrows
  <2>5. ASSUME NEW a \in 0..(k + 1)
        PROVE  /\ f[a] \in Seq(Updates) /\ Len(f[a]) <= Len(f[k + 1])
               /\ \A i \in 1..Len(f[a]) : f[k + 1][i] = f[a][i]
    <3>1. CASE a = k + 1
      BY <2>4, <3>1
    <3>2. CASE a # k + 1
      <4>1. a \in 0..k
        BY <2>1, <3>2
      <4>2. /\ f[a] \in Seq(Updates) /\ Len(f[a]) <= Len(f[k])
            /\ \A i \in 1..Len(f[a]) : f[k][i] = f[a][i]
        BY <1>3, <4>1
      <4>3. Len(f[a]) \in Nat /\ Len(f[k]) \in Nat /\ Len(f[k + 1]) \in Nat
        BY <2>4, <4>2
      <4> QED BY <2>4, <4>2, <4>3
    <3> QED BY <3>1, <3>2
  <2> QED BY <2>1, <2>4, <2>5, <1>0
<1> HIDE DEF Good
<1>4. 0..Len(log) \subseteq Good
  BY <1>0, <1>2, <1>3, Induction
<1>5. ASSUME NEW b \in 0..Len(log), NEW a \in 0..b PROVE f[b] \in Seq(Updates) /\ IsPrefix(f[a], f[b])
  <2>1. /\ f[a] \in Seq(Updates) /\ f[b] \in Seq(Updates) /\ Len(f[a]) <= Len(f[b])
        /\ \A i \in 1..Len(f[a]) : f[b][i] = f[a][i]
    BY <1>4 DEF Good
  <2> DEFINE n == Len(f[a])
             u == SubSeq(f[a], 1, n)
             v == SubSeq(f[b], 1, n)
  <2>2. n \in Nat /\ u \in Seq(Updates) /\ v \in Seq(Updates) /\ Len(u) = n /\ Len(v) = n
    BY <2>1
  <2>3. \A i \in 1..n : u[i] = v[i]
    BY <2>1
  <2> HIDE DEF u, v, n
  <2>4. u = v
    BY <2>2, <2>3, SeqEqual
  <2> QED BY <2>1, <2>4 DEF IsPrefix, u, v, n
<1> QED BY <1>5 DEF f

-----------------------------------------------------------------------------
(* Where the messages of a log lie in the stream.                          *)

\* The units a + 1 to b of st are those of the send x; what comes before the
\* first unit has been read.
Placed(x, a, b, st) ==
  /\ x.whole => b - a = Len(frame(x.msg))
  /\ ~x.whole => b - a \in 0..(Len(frame(x.msg)) - 1)
  /\ \A j \in 1..(b - a) : a + j >= 1 => st[a + j] = frame(x.msg)[j]

\* The sends h + 1, h + 2, ... of the log lie one after the other: the i-th ends
\* at pos[i], and nothing follows the last.
Laid(log, h, pos, st) ==
  /\ h \in 0..Len(log) /\ pos \in [h..Len(log) -> Int] /\ st \in Seq(Units)
  /\ pos[Len(log)] = Len(st)
  /\ \A i \in h..Len(log) : pos[i] <= Len(st)
  /\ \A i \in h + 1..Len(log) : Placed(log[i], pos[i - 1], pos[i], st)

\* What is left of a stream.
LEMMA SuffixFacts ==
  ASSUME NEW st \in Seq(Units), NEW n \in 0..Len(st)
  PROVE  /\ SubSeq(st, n + 1, Len(st)) \in Seq(Units) /\ Len(st) \in Nat
         /\ Len(SubSeq(st, n + 1, Len(st))) = Len(st) - n
         /\ \A k \in 1..(Len(st) - n) : SubSeq(st, n + 1, Len(st))[k] = st[n + k]
  OBVIOUS

\* A message keeps its units when what precedes them is read.
LEMMA PlacedAfterRead ==
  ASSUME NEW x \in Sends, NEW a \in Int, NEW b \in Int, NEW st \in Seq(Units), NEW n \in 0..Len(st),
         Placed(x, a, b, st), b <= Len(st)
  PROVE  Placed(x, a - n, b - n, SubSeq(st, n + 1, Len(st)))
<1> DEFINE s == SubSeq(st, n + 1, Len(st))
<1>1. Len(st) \in Nat /\ n \in Nat /\ \A k \in 1..(Len(st) - n) : s[k] = st[n + k]
  BY SuffixFacts
<1> HIDE DEF s
<1>2. (b - n) - (a - n) = b - a
  BY <1>1
<1>3. ASSUME NEW j \in 1..(b - a), (a - n) + j >= 1
      PROVE  s[(a - n) + j] = frame(x.msg)[j]
  <2>1. (a - n) + j \in 1..(Len(st) - n) /\ n + ((a - n) + j) = a + j /\ a + j >= 1
    BY <1>1, <1>3
  <2>2. s[(a - n) + j] = st[n + ((a - n) + j)]
    BY <1>1, <2>1
  <2> QED BY <2>1, <2>2 DEF Placed
<1> QED BY <1>2, <1>3 DEF Placed, s

\* n units are read, and the message that ended there is forgotten.
LEMMA LaidAfterRead ==
  ASSUME NEW log \in Seq(Sends), NEW h, NEW pos, NEW st, Laid(log, h, pos, st),
         NEW g \in h..Len(log), NEW n \in 0..Len(st)
  PROVE  Laid(log, g, [i \in g..Len(log) |-> pos[i] - n], SubSeq(st, n + 1, Len(st)))
<1> DEFINE s == SubSeq(st, n + 1, Len(st))
           p == [i \in g..Len(log) |-> pos[i] - n]
<1>1. Len(log) \in Nat /\ h \in 0..Len(log) /\ st \in Seq(Units) /\ g \in 0..Len(log)
  BY DEF Laid
<1>2. s \in Seq(Units) /\ Len(st) \in Nat /\ n \in Nat /\ Len(s) = Len(st) - n
  BY <1>1, SuffixFacts
<1>3. \A i \in g..Len(log) : i \in h..Len(log) /\ pos[i] \in Int /\ pos[i] <= Len(st)
  BY <1>1 DEF Laid
<1>4. p \in [g..Len(log) -> Int] /\ \A i \in g..Len(log) : p[i] = pos[i] - n
  BY <1>2, <1>3
<1>5. p[Len(log)] = Len(s)
  BY <1>1, <1>2, <1>4 DEF Laid
<1>6. \A i \in g..Len(log) : p[i] <= Len(s)
  BY <1>2, <1>3, <1>4
<1>7. ASSUME NEW i \in g + 1..Len(log) PROVE Placed(log[i], p[i - 1], p[i], s)
  <2>1. i \in h + 1..Len(log) /\ i - 1 \in g..Len(log) /\ i \in g..Len(log) /\ i \in 1..Len(log)
    BY <1>1
  <2>2. log[i] \in Sends
    BY <2>1, ElementOfSeq
  <2>3. Placed(log[i], pos[i - 1], pos[i], st)
    BY <2>1 DEF Laid
  <2>4. pos[i - 1] \in Int /\ pos[i] \in Int /\ pos[i] <= Len(st)
    BY <1>3, <2>1
  <2>5. Placed(log[i], pos[i - 1] - n, pos[i] - n, s)
    BY <1>1, <2>2, <2>3, <2>4, PlacedAfterRead
  <2> HIDE DEF s, p
  <2> QED BY <1>4, <2>1, <2>5
<1> HIDE DEF s, p
<1>8. Laid(log, g, p, s)
  BY <1>1, <1>2, <1>4, <1>5, <1>6, <1>7 DEF Laid
<1> QED BY <1>8 DEF s, p

\* A send puts the first k units of its message at the end.
LEMMA LaidAfterSend ==
  ASSUME NEW log \in Seq(Sends), NEW h, NEW pos, NEW st, Laid(log, h, pos, st),
         NEW x \in Sends, NEW k \in 0..Len(frame(x.msg)), x.whole <=> k = Len(frame(x.msg))
  PROVE  Laid(Append(log, x), h,
              [i \in h..Len(log) + 1 |-> IF i = Len(log) + 1 THEN Len(st) + k ELSE pos[i]],
              st \o SubSeq(frame(x.msg), 1, k))
<1> DEFINE L == Append(log, x)
           f == frame(x.msg)
           t == SubSeq(f, 1, k)
           s == st \o t
           p == [i \in h..Len(log) + 1 |-> IF i = Len(log) + 1 THEN Len(st) + k ELSE pos[i]]
<1>1. Len(log) \in Nat /\ h \in 0..Len(log) /\ st \in Seq(Units) /\ pos \in [h..Len(log) -> Int] /\ Len(st) \in Nat
  BY DEF Laid
<1>2. f \in Seq(Units) /\ Len(f) \in Nat
  <2>1. x.msg \in Msgs
    BY DEF Sends
  <2>2. f \in Seq(Units)
    BY <2>1, FrameFacts
  <2> HIDE DEF f
  <2> QED BY <2>2
<1>3. L \in Seq(Sends) /\ Len(L) = Len(log) + 1 /\ L[Len(log) + 1] = x /\ \A i \in 1..Len(log) : L[i] = log[i]
  OBVIOUS
<1>4. t \in Seq(Units) /\ Len(t) = k /\ k \in Nat /\ \A j \in 1..k : t[j] = f[j]
  <2> HIDE DEF f
  <2>1. k \in 0..Len(f)
    BY DEF f
  <2> QED BY <1>2, <2>1
<1> HIDE DEF t, f
<1>5. /\ s \in Seq(Units) /\ Len(s) = Len(st) + Len(t)
      /\ \A j \in 1..Len(st) : s[j] = st[j]
      /\ \A j \in 1..Len(t) : s[Len(st) + j] = t[j]
  <2>1. st \in Seq(Units) /\ t \in Seq(Units)
    BY <1>1, <1>4
  <2> QED BY <2>1, Concat
<1> HIDE DEF s
<1>6. /\ p \in [h..Len(log) + 1 -> Int] /\ p[Len(log) + 1] = Len(st) + k
      /\ \A i \in h..Len(log) : p[i] = pos[i]
  BY <1>1, <1>4
<1> HIDE DEF p, L
<1>7. \A i \in h..Len(log) + 1 : p[i] <= Len(s)
  <2>1. \A i \in h..Len(log) : pos[i] <= Len(st) /\ pos[i] \in Int
    BY <1>1 DEF Laid
  <2>2. Len(s) = Len(st) + k
    BY <1>4, <1>5
  <2>3. \A i \in h..Len(log) + 1 : i \in h..Len(log) \/ i = Len(log) + 1
    BY <1>1
  <2>4. \A i \in h..Len(log) : p[i] <= Len(s)
    BY <1>1, <1>4, <1>6, <2>1, <2>2
  <2>5. p[Len(log) + 1] <= Len(s)
    BY <1>1, <1>4, <1>6, <2>2
  <2> QED BY <2>3, <2>4, <2>5
<1>8. ASSUME NEW i \in h + 1..Len(log) PROVE Placed(L[i], p[i - 1], p[i], s)
  <2>1. i - 1 \in h..Len(log) /\ i \in h..Len(log) /\ i \in 1..Len(log)
    BY <1>1
  <2>2. Placed(log[i], pos[i - 1], pos[i], st) /\ pos[i] <= Len(st) /\ pos[i - 1] \in Int /\ pos[i] \in Int
    BY <1>1, <2>1 DEF Laid
  <2>3. p[i - 1] = pos[i - 1] /\ p[i] = pos[i] /\ L[i] = log[i]
    BY <1>3, <1>6, <2>1
  <2> DEFINE a == pos[i - 1]
             b == pos[i]
  <2>4. a \in Int /\ b \in Int /\ b <= Len(st) /\ Placed(log[i], a, b, st)
    BY <2>2
  <2> HIDE DEF a, b
  <2>5. ASSUME NEW j \in 1..(b - a), a + j >= 1 PROVE s[a + j] = frame(log[i].msg)[j]
    <3>1. a + j \in 1..Len(st)
      BY <1>1, <2>4, <2>5
    <3> QED BY <1>5, <2>4, <2>5, <3>1 DEF Placed
  <2>6. Placed(log[i], a, b, s)
    BY <2>4, <2>5 DEF Placed
  <2> QED BY <2>3, <2>6 DEF a, b
<1>9. Placed(L[Len(log) + 1], p[Len(log)], p[Len(log) + 1], s)
  <2>1. p[Len(log)] = Len(st)
    BY <1>1, <1>6 DEF Laid
  <2>2. x.whole <=> k = Len(f)
    BY DEF f
  <2>3. ~x.whole => k \in 0..(Len(f) - 1)
    BY <1>2, <1>4, <2>2 DEF f
  <2>4. \A j \in 1..k : s[Len(st) + j] = f[j]
    BY <1>4, <1>5
  <2>5. (Len(st) + k) - Len(st) = k
    BY <1>1, <1>4
  <2>6. Placed(x, Len(st), Len(st) + k, s)
    BY <2>2, <2>3, <2>4, <2>5 DEF Placed, f
  <2> QED BY <1>3, <1>6, <2>1, <2>6
<1>10. \A i \in h + 1..Len(L) : Placed(L[i], p[i - 1], p[i], s)
  <2>1. \A i \in h + 1..Len(L) : i \in h + 1..Len(log) \/ i = Len(log) + 1
    BY <1>1, <1>3
  <2>2. (Len(log) + 1) - 1 = Len(log)
    BY <1>1
  <2> QED BY <1>8, <1>9, <2>1, <2>2
<1>11. h \in 0..Len(L) /\ p \in [h..Len(L) -> Int] /\ p[Len(L)] = Len(s)
  BY <1>1, <1>3, <1>4, <1>5, <1>6
<1>12. Laid(L, h, p, s)
  BY <1>3, <1>5, <1>7, <1>10, <1>11 DEF Laid
<1> QED BY <1>12 DEF L, p, s, t, f

-----------------------------------------------------------------------------
(* The codec on a body that is whole.                                      *)

BodyOf(m, body) ==
  /\ body \in Seq(Units) /\ Len(body) = 1 + m.kl + m.vl
  /\ \A j \in 1..Len(body) : body[j] = frame(m)[1 + j]

\* What a body holds: the fixed part and the text.
LEMMA BodyFacts ==
  ASSUME NEW m \in Msgs, NEW body, BodyOf(m, body)
  PROVE  /\ Head(body) = Fixed(m) /\ Tail(body) \in Seq(Units) /\ Len(Tail(body)) = m.kl + m.vl
         /\ \A j \in 1..m.kl : Tail(body)[j] = Text(m, "key")
         /\ \A j \in 1..m.vl : Tail(body)[m.kl + j] = Text(m, "val")
<1> DEFINE f == frame(m)
           t == Tail(body)
<1>1. m.kl \in Nat /\ m.vl \in Nat
  BY DEF Msgs
<1>2. /\ f[2] = Fixed(m)
      /\ \A j \in 1..m.kl : f[2 + j] = Text(m, "key")
      /\ \A j \in 1..m.vl : f[2 + m.kl + j] = Text(m, "val")
  BY FrameFacts
<1>3. /\ body \in Seq(Units) /\ Len(body) = 1 + m.kl + m.vl
      /\ \A j \in 1..Len(body) : body[j] = f[1 + j]
  BY DEF BodyOf
<1> HIDE DEF f
<1>4. body # <<>> /\ Head(body) = body[1] /\ 1 \in 1..Len(body)
  BY <1>1, <1>3
<1>5. body[1] = f[1 + 1] /\ 1 + 1 = 2
  BY <1>3, <1>4
<1>6. t \in Seq(Units) /\ Len(t) = m.kl + m.vl /\ \A j \in 1..(m.kl + m.vl) : t[j] = body[j + 1]
  BY <1>1, <1>3, <1>4
<1> HIDE DEF t
<1>7. \A j \in 1..(m.kl + m.vl) : t[j] = f[2 + j]
  <2> SUFFICES ASSUME NEW j \in 1..(m.kl + m.vl) PROVE t[j] = f[2 + j]
    OBVIOUS
  <2>1. j + 1 \in 1..Len(body) /\ 1 + (j + 1) = 2 + j
    BY <1>1, <1>3
  <2>2. body[j + 1] = f[1 + (j + 1)]
    BY <1>3, <2>1
  <2> QED BY <1>6, <2>1, <2>2
<1>8. \A j \in 1..m.kl : t[j] = Text(m, "key")
  BY <1>1, <1>2, <1>7
<1>9. ASSUME NEW j \in 1..m.vl PROVE t[m.kl + j] = Text(m, "val")
  <2>1. m.kl + j \in 1..(m.kl + m.vl) /\ 2 + (m.kl + j) = 2 + m.kl + j
    BY <1>1
  <2> QED BY <1>2, <1>7, <2>1
<1> QED BY <1>2, <1>4, <1>5, <1>6, <1>8, <1>9 DEF t

\* A message whose lengths fit is accepted, and no other: a length that wrapped
\* never agrees with the length of the body.
LEMMA DecodesFits ==
  ASSUME NEW m, Sendable(m), m.kind # "done", NEW body, BodyOf(m, body)
  PROVE  Decodes(MsgId(m), body) <=> Fits(m)
<1>1. /\ m \in Msgs /\ m.kl \in Nat /\ m.vl \in Nat
      /\ Plan[m.n].kind = m.kind /\ m.vl # 0 /\ (m.kl = 0 <=> m.kind = "alias")
  BY DEF Sendable, Msgs
<1>2. Head(body) = Fixed(m) /\ Len(Tail(body)) = m.kl + m.vl
  BY <1>1, BodyFacts
<1> DEFINE x == m.kl % KeyMod
           y == m.vl % ValMod
<1>3. /\ x \in Nat /\ x <= m.kl /\ (x = m.kl <=> m.kl < KeyMod)
      /\ y \in Nat /\ y <= m.vl /\ (y = m.vl <=> m.vl < ValMod)
  BY <1>1, Widths, Modulo
<1>4. Fixed(m).t = "fixed" /\ Fixed(m).n = m.n /\ Fixed(m).kl = x /\ Fixed(m).vl = y
  BY DEF Fixed
<1> HIDE DEF x, y
<1>5. Decodes(MsgId(m), body) <=>
        /\ IF MsgId(m) = "add" THEN y # 0 /\ (x = 0 <=> m.kind = "alias") ELSE x # 0
        /\ m.kl + m.vl = x + y
  BY <1>1, <1>2, <1>4 DEF Decodes, validate_record_lengths, require_length
<1>6. m.kl + m.vl = x + y <=> Fits(m)
  BY <1>1, <1>3 DEF Fits
<1>7. Fits(m) => x = m.kl /\ y = m.vl
  BY <1>3 DEF Fits
<1>8. MsgId(m) # "add" => m.kl # 0
  <2>1. MsgId(m) = "add" <=> m.kind \in {"record", "alias"}
    BY <1>1, MsgIds
  <2> QED BY <1>1, <2>1
<1> QED BY <1>1, <1>5, <1>6, <1>7, <1>8

\* A body is UTF-8 just when the text that was sent is.
LEMMA IsUTF8Says ==
  ASSUME NEW m, Sendable(m), m.kind # "done", NEW body, BodyOf(m, body)
  PROVE  IsUTF8(body) <=> m.utf8
<1>1. m \in Msgs /\ m.kl \in Nat /\ m.vl \in Nat /\ m.vl # 0
  BY DEF Sendable, Msgs
<1> DEFINE t == Tail(body)
<1>2. /\ t \in Seq(Units) /\ Len(t) = m.kl + m.vl
      /\ \A j \in 1..m.kl : t[j] = Text(m, "key")
      /\ \A j \in 1..m.vl : t[m.kl + j] = Text(m, "val")
  BY <1>1, BodyFacts
<1> HIDE DEF t
<1>3. \A u \in ToSet(t) : u = Text(m, "key") \/ u = Text(m, "val")
  <2> SUFFICES ASSUME NEW i \in 1..Len(t) PROVE t[i] = Text(m, "key") \/ t[i] = Text(m, "val")
    BY <1>2 DEF ToSet
  <2>1. CASE i <= m.kl
    BY <1>1, <1>2, <2>1
  <2>2. CASE i > m.kl
    <3>1. i - m.kl \in 1..m.vl /\ m.kl + (i - m.kl) = i
      BY <1>1, <1>2, <2>2
    <3>2. t[m.kl + (i - m.kl)] = Text(m, "val")
      BY <1>2, <3>1
    <3> QED BY <3>1, <3>2
  <2> QED BY <1>1, <2>1, <2>2
<1>4. Text(m, "val") \in ToSet(t)
  <2>1. 1 \in 1..m.vl /\ m.kl + 1 \in 1..Len(t)
    BY <1>1, <1>2
  <2>2. t[m.kl + 1] = Text(m, "val")
    BY <1>2, <2>1
  <2> QED BY <1>2, <2>1, <2>2 DEF ToSet
<1>5. /\ Text(m, "key").t = "key" /\ Text(m, "val").t = "val"
      /\ Text(m, "key").utf8 = m.utf8 /\ Text(m, "val").utf8 = m.utf8
  BY DEF Text
<1>6. IsUTF8(body) <=> \A u \in ToSet(t) : u.t \in {"key", "val"} => u.utf8
  BY DEF IsUTF8, t
<1>7. m.utf8 => IsUTF8(body)
  BY <1>3, <1>5, <1>6
<1>8. IsUTF8(body) => m.utf8
  BY <1>4, <1>5, <1>6
<1> QED BY <1>7, <1>8

\* The n elements of q behind the first k.
LEMMA Slice ==
  ASSUME NEW S, NEW q \in Seq(S), NEW k \in Nat, NEW n \in Nat, k + n <= Len(q)
  PROVE  /\ SubSeq(q, k + 1, k + n) \in Seq(S) /\ Len(SubSeq(q, k + 1, k + n)) = n
         /\ \A j \in 1..n : SubSeq(q, k + 1, k + n)[j] = q[k + j]
<1>1. \A j \in k + 1..k + n : j \in 1..Len(q)
  OBVIOUS
<1>2. SubSeq(q, k + 1, k + n) \in Seq(S)
  BY <1>1
<1>3. Len(SubSeq(q, k + 1, k + n)) = n
  OBVIOUS
<1>4. \A j \in 1..n : SubSeq(q, k + 1, k + n)[j] = q[k + j]
  OBVIOUS
<1> QED BY <1>2, <1>3, <1>4

\* A frame that fits is decoded to what was sent.
LEMMA DecodedIsFaithful ==
  ASSUME NEW m, Sendable(m), m.kind # "done", NEW body, BodyOf(m, body), Fits(m), m.utf8
  PROVE  Decoded(body) = Faithful(m)
<1>1. m \in Msgs /\ m.kl \in Nat /\ m.vl \in Nat /\ m.utf8 \in BOOLEAN
  BY DEF Sendable, Msgs
<1> DEFINE t == Tail(body)
           b == SubSeq(t, 1, m.kl)
           w == SubSeq(t, m.kl + 1, m.kl + m.vl)
           c == Text(m, "key")
           d == Text(m, "val")
           B == [j \in 1..m.kl |-> c]
           W == [j \in 1..m.vl |-> d]
<1>2. /\ t \in Seq(Units) /\ Len(t) = m.kl + m.vl /\ Head(body) = Fixed(m)
      /\ \A j \in 1..m.kl : t[j] = c
      /\ \A j \in 1..m.vl : t[m.kl + j] = d
  BY <1>1, BodyFacts
<1>3. Fixed(m).n = m.n /\ Fixed(m).kl = m.kl
  <2>1. m.kl % KeyMod = m.kl
    BY <1>1, Widths, Modulo DEF Fits
  <2> QED BY <2>1 DEF Fixed
<1>4. Len(body) - 1 = m.kl + m.vl
  BY <1>1 DEF BodyOf
<1>5. Decoded(body) = [n |-> m.n, key |-> b, val |-> w]
  BY <1>2, <1>3, <1>4 DEF Decoded
<1>6. c \in Units /\ d \in Units
  BY <1>1, FrameUnits
<1> HIDE DEF c, d, t
<1>7. /\ B \in Seq(Units) /\ Len(B) = m.kl /\ \A j \in 1..m.kl : B[j] = c
      /\ W \in Seq(Units) /\ Len(W) = m.vl /\ \A j \in 1..m.vl : W[j] = d
  BY <1>1, <1>6, Repeat
<1>8. b \in Seq(Units) /\ Len(b) = m.kl /\ \A j \in 1..m.kl : b[j] = c
  BY <1>1, <1>2
<1>9. w \in Seq(Units) /\ Len(w) = m.vl /\ \A j \in 1..m.vl : w[j] = d
  <2>1. m.kl \in Nat /\ m.vl \in Nat /\ t \in Seq(Units) /\ m.kl + m.vl <= Len(t)
    BY <1>1, <1>2
  <2>2. \A k, n \in Nat : k + n <= Len(t) =>
          /\ SubSeq(t, k + 1, k + n) \in Seq(Units) /\ Len(SubSeq(t, k + 1, k + n)) = n
          /\ \A j \in 1..n : SubSeq(t, k + 1, k + n)[j] = t[k + j]
    BY <2>1, Slice
  <2>3. w \in Seq(Units) /\ Len(w) = m.vl /\ \A j \in 1..m.vl : w[j] = t[m.kl + j]
    BY <2>1, <2>2
  <2> QED BY <1>2, <2>3
<1> HIDE DEF b, w, B, W
<1>10. b = B /\ w = W
  <2>1. b = B
    BY <1>7, <1>8, SeqEqual
  <2>2. w = W
    BY <1>7, <1>9, SeqEqual
  <2> QED BY <2>1, <2>2
<1>11. m.utf8 = TRUE
  BY <1>1, Zenon
<1>12. c = [t |-> "key", n |-> m.n, utf8 |-> TRUE] /\ d = [t |-> "val", n |-> m.n, utf8 |-> TRUE]
  BY <1>11, Zenon DEF c, d, Text
<1>13. Faithful(m) = [n |-> m.n, key |-> B, val |-> W]
  BY <1>12, Zenon DEF Faithful, B, W
<1> QED BY <1>5, <1>10, <1>13

-----------------------------------------------------------------------------
(* The server at the h-th message of the log.                              *)

\* h messages of the log have been read, and handled as they have to be; the
\* stream begins with message h + 1, or with its body when the header is read.
Synced(log, h, pos, st, w, hd) ==
  /\ Laid(log, h, pos, st)
  /\ hd = Expectations(log)[h]
  /\ w.id = "header" => w = Header /\ pos[h] = 0
  /\ w.id # "header" => /\ pos[h] = -1 /\ h < Len(log)
                        /\ w.id = MsgId(log[h + 1].msg)
                        /\ w.len = 1 + log[h + 1].msg.kl + log[h + 1].msg.vl

OnlyLastCut(log) == \A k \in 1..Len(log) - 1 : log[k].whole

\* The header of a message can be read as such.
LEMMA ReadHeader ==
  ASSUME NEW log \in Seq(Sends), OnlyLastCut(log), NEW h, NEW pos, NEW st, NEW w, NEW hd,
         Synced(log, h, pos, st, w, hd), w.id = "header", Len(st) >= 1
  PROVE  /\ h + 1 \in 1..Len(log) /\ Head(st) = Head1(log[h + 1].msg)
         /\ Laid(log, h, [i \in h..Len(log) |-> pos[i] - 1], SubSeq(st, 1 + 1, Len(st)))
         /\ pos[h] = 0 /\ h \in h..Len(log)
<1>1. /\ Laid(log, h, pos, st) /\ pos[h] = 0 /\ h \in 0..Len(log) /\ Len(log) \in Nat
      /\ st \in Seq(Units) /\ Len(st) \in Nat /\ pos \in [h..Len(log) -> Int] /\ pos[Len(log)] = Len(st)
  BY DEF Synced, Laid
<1>2. h + 1 \in 1..Len(log) /\ h + 1 \in h + 1..Len(log) /\ h + 1 \in h..Len(log)
  <2>1. h # Len(log)
    BY <1>1
  <2> QED BY <1>1, <2>1
<1> DEFINE x == log[h + 1]
           b == pos[h + 1]
<1>3. x \in Sends /\ x.msg \in Msgs /\ b \in Int
  <2>1. x \in Sends
    BY <1>2, ElementOfSeq
  <2>2. b \in Int
    BY <1>1, <1>2
  <2> HIDE DEF x
  <2>3. x.msg \in Msgs
    BY <2>1 DEF Sends
  <2> QED BY <2>1, <2>2, <2>3
<1>4. Placed(x, 0, b, st)
  <2>1. (h + 1) - 1 = h
    BY <1>1
  <2> QED BY <1>1, <1>2, <2>1 DEF Laid
<1>5. b >= 1
  <2>1. CASE x.whole
    <3>1. Len(frame(x.msg)) = 2 + x.msg.kl + x.msg.vl /\ x.msg.kl \in Nat /\ x.msg.vl \in Nat
      BY <1>3, FrameFacts DEF Msgs
    <3>2. b - 0 = Len(frame(x.msg))
      BY <1>4, <2>1 DEF Placed
    <3> HIDE DEF x, b
    <3> QED BY <1>3, <3>1, <3>2
  <2>2. CASE ~x.whole
    <3>1. h + 1 = Len(log)
      BY <1>1, <1>2, <2>2 DEF OnlyLastCut
    <3> QED BY <1>1, <3>1
  <2> QED BY <2>1, <2>2
<1>6. st[0 + 1] = frame(x.msg)[1]
  <2>1. 1 \in 1..(b - 0) /\ 0 + 1 >= 1
    BY <1>3, <1>5
  <2> QED BY <1>4, <2>1 DEF Placed
<1>7. Head(st) = st[1] /\ frame(x.msg)[1] = Head1(x.msg)
  BY <1>1, <1>3, FrameFacts
<1>8. 1 \in 0..Len(st) /\ h \in h..Len(log)
  BY <1>1
<1>9. Laid(log, h, [i \in h..Len(log) |-> pos[i] - 1], SubSeq(st, 1 + 1, Len(st)))
  BY <1>1, <1>8, LaidAfterRead
<1> QED BY <1>1, <1>2, <1>6, <1>7, <1>8, <1>9

\* When the stream holds as many units as the header said, they are the body of
\* the message: a body that was cut is never completed.
LEMMA ReadBody ==
  ASSUME NEW log \in Seq(Sends), OnlyLastCut(log), NEW h, NEW pos, NEW st, NEW w, NEW hd,
         Synced(log, h, pos, st, w, hd), w.id # "header", Len(st) >= w.len
  PROVE  /\ h + 1 \in 1..Len(log) /\ w.id = MsgId(log[h + 1].msg) /\ w.len \in 0..Len(st)
         /\ BodyOf(log[h + 1].msg, SubSeq(st, 1, w.len))
         /\ Laid(log, h + 1, [i \in h + 1..Len(log) |-> pos[i] - w.len], SubSeq(st, w.len + 1, Len(st)))
         /\ pos[h + 1] - w.len = 0
<1> DEFINE x == log[h + 1]
           m == x.msg
           b == pos[h + 1]
           n == w.len
           f == frame(m)
<1>1. /\ Laid(log, h, pos, st) /\ pos[h] = -1 /\ h \in 0..Len(log) /\ Len(log) \in Nat /\ h < Len(log)
      /\ st \in Seq(Units) /\ Len(st) \in Nat /\ pos \in [h..Len(log) -> Int] /\ pos[Len(log)] = Len(st)
      /\ w.id = MsgId(m) /\ n = 1 + m.kl + m.vl
  BY DEF Synced, Laid
<1>2. h + 1 \in 1..Len(log) /\ h + 1 \in h + 1..Len(log) /\ h + 1 \in h..Len(log)
  BY <1>1
<1>3. x \in Sends /\ m \in Msgs /\ b \in Int
  <2>1. x \in Sends
    BY <1>2, ElementOfSeq
  <2>2. b \in Int
    BY <1>1, <1>2
  <2> HIDE DEF x
  <2>3. x.msg \in Msgs
    BY <2>1 DEF Sends
  <2> QED BY <2>1, <2>2, <2>3
<1>4. m.kl \in Nat /\ m.vl \in Nat /\ f \in Seq(Units) /\ Len(f) = 2 + m.kl + m.vl
  BY <1>3, FrameFacts DEF Msgs
<1>5. n \in Nat /\ n + 1 = Len(f) /\ n \in 0..Len(st)
  <2>1. n = 1 + m.kl + m.vl /\ Len(st) >= n /\ Len(st) \in Nat
    BY <1>1
  <2> HIDE DEF n, f, m
  <2> QED BY <1>4, <2>1
<1>6. Placed(x, -1, b, st)
  <2>1. (h + 1) - 1 = h
    BY <1>1
  <2> QED BY <1>1, <1>2, <2>1 DEF Laid
<1>7. x.whole
  <2> SUFFICES ASSUME ~x.whole PROVE FALSE
    OBVIOUS
  <2>1. h + 1 = Len(log)
    BY <1>1, <1>2 DEF OnlyLastCut
  <2>2. b = Len(st)
    BY <1>1, <2>1
  <2>3. b - (-1) \in 0..(Len(f) - 1)
    BY <1>6 DEF Placed
  <2> HIDE DEF b, n, f
  <2>4. Len(st) >= n
    BY DEF n
  <2> QED BY <1>1, <1>5, <2>2, <2>3, <2>4
<1>8. b - (-1) = Len(f)
  BY <1>6, <1>7 DEF Placed
<1>9. b = n
  <2> HIDE DEF b, n, f
  <2> QED BY <1>3, <1>5, <1>8
<1>10. \A j \in 1..n : st[j] = f[1 + j]
  <2>1. \A j \in 1..(b - (-1)) : (-1) + j >= 1 => st[(-1) + j] = f[j]
    BY <1>6 DEF Placed
  <2> HIDE DEF b, n, f
  <2> SUFFICES ASSUME NEW j \in 1..n PROVE st[j] = f[1 + j]
    OBVIOUS
  <2>2. 1 + j \in 1..(b - (-1)) /\ (-1) + (1 + j) = j /\ j >= 1
    BY <1>5, <1>9
  <2> QED BY <2>1, <2>2
<1> DEFINE body == SubSeq(st, 1, n)
<1>11. body \in Seq(Units) /\ Len(body) = n /\ \A j \in 1..n : body[j] = st[j]
  <2> HIDE DEF n
  <2> QED BY <1>1, <1>5
<1>12. BodyOf(m, body)
  <2> HIDE DEF body, n, f
  <2>1. \A j \in 1..n : body[j] = f[1 + j]
    BY <1>10, <1>11
  <2> QED BY <1>1, <1>11, <2>1 DEF BodyOf, f
<1>13. Laid(log, h + 1, [i \in h + 1..Len(log) |-> pos[i] - n], SubSeq(st, n + 1, Len(st)))
  <2> HIDE DEF n
  <2> QED BY <1>1, <1>2, <1>5, LaidAfterRead
<1>14. b - n = 0
  <2> HIDE DEF n, b
  <2> QED BY <1>5, <1>9
<1> QED BY <1>1, <1>2, <1>5, <1>12, <1>13, <1>14

-----------------------------------------------------------------------------
(* The inductive invariant.                                                *)

Typed ==
  /\ pc \in 0..AllSent /\ sent \in Seq(Sends)
  /\ \A k \in 1..Len(sent) : Sendable(sent[k].msg)

\* Where the client is: Done is the last thing it sends, and as long as nothing
\* was cut it has sent the first pc - 1 items.
Progress ==
  /\ \A k \in 1..Len(sent) : sent[k].msg.kind = "done" => k = Len(sent) /\ pc = Quit
  /\ StreamIsMessages /\ pc # Quit /\ (\A k \in 1..Len(sent) : sent[k].whole) => pc = Len(sent) + 1
  /\ StreamIsMessages => \A k \in 1..Len(sent) : sent[k].msg.kind = "done" => k = AllSent

\* Where the server is.
Follow ==
  /\ \E h \in 0..Len(sent) : handled = Expectations(sent)[h]
  /\ srv = "open" => \E h, pos : Synced(sent, h, pos, stream, want, handled)
  /\ done => /\ stream = <<>> /\ handled = Expected /\ sent # <<>>
             /\ sent[Len(sent)].msg.kind = "done"

WInv == Typed /\ Progress /\ (StreamIsMessages => Follow)

\* WInv holds at first.
LEMMA InitWInv == Init => WInv
<1> SUFFICES ASSUME Init PROVE WInv
  OBVIOUS
<1>1. Len(Plan) \in Nat
  BY PlanAssumption
<1>2. sent \in Seq(Sends) /\ Len(sent) = 0 /\ sent = <<>> /\ stream \in Seq(Units) /\ Len(stream) = 0
  BY DEF Init
<1>3. Typed /\ Progress
  BY <1>1, <1>2 DEF Init, Typed, Progress, AllSent, Quit
<1>4. Expectations(sent)[0] = <<>>
  BY <1>2, ExpectationsStep
<1> DEFINE pos == [i \in 0..0 |-> 0]
<1>5. pos \in [0..0 -> Int] /\ pos[0] = 0 /\ \A i \in 0..0 : pos[i] = 0
  OBVIOUS
<1> HIDE DEF pos
<1>6. Laid(sent, 0, pos, stream)
  <2>1. \A i \in 0 + 1..0 : FALSE
    OBVIOUS
  <2> QED BY <1>2, <1>5, <2>1 DEF Laid
<1>7. handled = <<>> /\ want = Header /\ ~done /\ want.id = "header"
  BY DEF Init, Header
<1>8. Synced(sent, 0, pos, stream, want, handled)
  BY <1>4, <1>5, <1>6, <1>7 DEF Synced
<1>9. Follow
  BY <1>2, <1>4, <1>7, <1>8 DEF Follow
<1> QED BY <1>3, <1>9 DEF WInv

\* The log of sends with one more.
LEMMA LogGrows ==
  ASSUME NEW log \in Seq(Sends), NEW x \in Sends
  PROVE  /\ Append(log, x) \in Seq(Sends) /\ Len(Append(log, x)) = Len(log) + 1 /\ Len(log) \in Nat
         /\ Append(log, x)[Len(log) + 1] = x /\ \A i \in 1..Len(log) : Append(log, x)[i] = log[i]
         /\ \A i \in 1..Len(log) + 1 : i \in 1..Len(log) \/ i = Len(log) + 1
  OBVIOUS

\* A send: it reaches the end of the stream of a server that still reads.
LEMMA SendKeeps ==
  ASSUME WInv, pc # Quit, NEW m, Sendable(m), NEW k \in 0..Len(frame(m)), shSendAll(m, k),
         UNCHANGED <<want, handled, done, srv>>
  PROVE  /\ sent' \in Seq(Sends) /\ \A i \in 1..Len(sent') : Sendable(sent'[i].msg)
         /\ Len(sent') = Len(sent) + 1 /\ \A i \in 1..Len(sent) : sent'[i] = sent[i]
         /\ sent'[Len(sent) + 1].msg = m /\ (sent'[Len(sent) + 1].whole <=> k = Len(frame(m)))
         /\ StreamIsMessages' => StreamIsMessages /\ \A i \in 1..Len(sent) : sent[i].whole
         /\ StreamIsMessages' => Follow'
<1> DEFINE x == [msg |-> m, whole |-> k = Len(frame(m))]
<1>1. sent \in Seq(Sends) /\ m \in Msgs /\ Len(sent) \in Nat
  BY DEF WInv, Typed, Sendable
<1>2. x \in Sends /\ x.msg = m /\ (x.whole <=> k = Len(frame(m)))
  BY <1>1 DEF Sends
<1>3. /\ sent' = Append(sent, x)
      /\ stream' = IF srv = "open" THEN stream \o SubSeq(frame(m), 1, k) ELSE stream
  BY DEF shSendAll
<1> HIDE DEF x
<1>4. /\ sent' \in Seq(Sends) /\ Len(sent') = Len(sent) + 1
      /\ sent'[Len(sent) + 1] = x /\ \A i \in 1..Len(sent) : sent'[i] = sent[i]
      /\ \A i \in 1..Len(sent) + 1 : i \in 1..Len(sent) \/ i = Len(sent) + 1
  BY <1>1, <1>2, <1>3, LogGrows
<1>5. \A i \in 1..Len(sent') : Sendable(sent'[i].msg)
  BY <1>2, <1>4 DEF WInv, Typed
<1>6. ASSUME StreamIsMessages' PROVE StreamIsMessages /\ \A i \in 1..Len(sent) : sent[i].whole
  <2>1. Len(sent') - 1 = Len(sent)
    BY <1>1, <1>4
  <2>2. \A i \in 1..Len(sent) : sent'[i].whole
    BY <1>6, <2>1 DEF StreamIsMessages
  <2>3. \A i \in 1..Len(sent) : sent[i].whole
    BY <1>4, <2>2
  <2> QED BY <1>1, <2>3 DEF StreamIsMessages
<1>7. ASSUME StreamIsMessages' PROVE Follow'
  <2>1. Follow
    BY <1>6, <1>7 DEF WInv
  <2>2. \A h \in 0..Len(sent) : Expectations(sent')[h] = Expectations(sent)[h]
    BY <1>1, <1>2, <1>3, ExpectationsAgree
  <2>3. ~done
    <3> SUFFICES ASSUME done PROVE FALSE
      OBVIOUS
    <3>1. sent # <<>> /\ sent[Len(sent)].msg.kind = "done"
      BY <2>1 DEF Follow
    <3>2. Len(sent) \in 1..Len(sent)
      BY <1>1, <3>1, EmptySeq
    <3> QED BY <3>1, <3>2 DEF WInv, Progress
  <2>4. \E h \in 0..Len(sent') : handled' = Expectations(sent')[h]
    <3>1. PICK h \in 0..Len(sent) : handled = Expectations(sent)[h]
      BY <2>1 DEF Follow
    <3>2. h \in 0..Len(sent')
      BY <1>1, <1>4
    <3> QED BY <2>2, <3>1, <3>2
  <2>5. ASSUME srv = "open" PROVE \E h, pos : Synced(sent', h, pos, stream', want', handled')
    <3>1. PICK h, pos : Synced(sent, h, pos, stream, want, handled)
      BY <2>1, <2>5 DEF Follow
    <3>2. Laid(sent, h, pos, stream) /\ h \in 0..Len(sent)
      BY <3>1 DEF Synced, Laid
    <3> DEFINE p == [i \in h..Len(sent) + 1 |-> IF i = Len(sent) + 1 THEN Len(stream) + k ELSE pos[i]]
    <3>3. Laid(Append(sent, x), h, p, stream \o SubSeq(frame(x.msg), 1, k))
      <4>1. k \in 0..Len(frame(x.msg)) /\ (x.whole <=> k = Len(frame(x.msg)))
        BY <1>2
      <4> QED BY <1>1, <1>2, <3>2, <4>1, LaidAfterSend
    <3>4. stream' = stream \o SubSeq(frame(x.msg), 1, k)
      BY <1>2, <1>3, <2>5
    <3>5. Laid(sent', h, p, stream')
      BY <1>3, <3>3, <3>4
    <3>6. p[h] = pos[h]
      BY <1>1, <3>2
    <3> HIDE DEF p
    <3>7. handled = Expectations(sent')[h]
      BY <2>2, <3>1, <3>2 DEF Synced
    <3>8. want.id = "header" => want = Header /\ p[h] = 0
      BY <3>1, <3>6 DEF Synced
    <3>9. want.id # "header" => /\ p[h] = -1 /\ h < Len(sent')
                                /\ want.id = MsgId(sent'[h + 1].msg)
                                /\ want.len = 1 + sent'[h + 1].msg.kl + sent'[h + 1].msg.vl
      <4> SUFFICES ASSUME want.id # "header"
                   PROVE  /\ p[h] = -1 /\ h < Len(sent')
                          /\ want.id = MsgId(sent'[h + 1].msg)
                          /\ want.len = 1 + sent'[h + 1].msg.kl + sent'[h + 1].msg.vl
        OBVIOUS
      <4>1. /\ pos[h] = -1 /\ h < Len(sent) /\ want.id = MsgId(sent[h + 1].msg)
            /\ want.len = 1 + sent[h + 1].msg.kl + sent[h + 1].msg.vl
        BY <3>1 DEF Synced
      <4>2. h + 1 \in 1..Len(sent) /\ h < Len(sent')
        BY <1>1, <1>4, <3>2, <4>1
      <4>3. sent'[h + 1] = sent[h + 1]
        BY <1>4, <4>2
      <4> QED BY <3>6, <4>1, <4>2, <4>3
    <3>10. Synced(sent', h, p, stream', want', handled')
      BY <3>5, <3>7, <3>8, <3>9 DEF Synced
    <3> QED BY <3>10
  <2> QED BY <2>3, <2>4, <2>5 DEF Follow
<1> QED BY <1>2, <1>4, <1>5, <1>6, <1>7

\* The client sends the next item, wholly or in part.
LEMMA PushKeeps == ASSUME WInv, casterPushPDB PROVE WInv'
<1>1. PICK m \in Items(pc), k \in 0..2 + Max(KeyLens) + Max(ValLens) :
        /\ k <= Len(frame(m)) /\ shSendAll(m, k) /\ pc' = AfterItem(pc, k = Len(frame(m)))
  BY DEF casterPushPDB
<1>2. pc \in DOMAIN Plan /\ UNCHANGED <<want, handled, done, srv>>
  BY DEF casterPushPDB
<1>3. /\ Len(Plan) \in Nat /\ pc \in 1..Len(Plan) /\ Plan[pc] \in [kind : Kinds, rec : Nat]
      /\ AllSent = Len(Plan) + 1 /\ pc # Quit
  <2>1. Len(Plan) \in Nat /\ DOMAIN Plan = 1..Len(Plan)
    BY PlanAssumption, LenProperties
  <2>2. pc \in 1..Len(Plan)
    BY <1>2, <2>1
  <2>3. Plan[pc] \in [kind : Kinds, rec : Nat]
    BY <2>2, PlanAssumption, ElementOfSeq
  <2> QED BY <2>1, <2>2, <2>3 DEF AllSent, Quit
<1>4. Sendable(m) /\ m.kind # "done"
  <2>1. /\ m.n = pc /\ m.kind = Plan[pc].kind /\ m.vl \in ValLens /\ m.utf8 \in BOOLEAN
        /\ m.kl \in (IF Plan[pc].kind = "alias" THEN {0} ELSE KeyLens)
        /\ m = [n |-> m.n, kind |-> m.kind, kl |-> m.kl, vl |-> m.vl, utf8 |-> m.utf8]
    BY DEF Items
  <2>2. m.vl \in Nat \ {0} /\ m.kl \in Nat /\ (m.kl = 0 <=> m.kind = "alias")
    BY <2>1, LengthsAssumption
  <2>3. m.kind \in Kinds /\ m.kind # "done" /\ m.n \in Nat
    BY <1>3, <2>1 DEF Kinds
  <2>4. m \in Msgs
    BY <2>1, <2>2, <2>3 DEF Msgs
  <2> QED BY <1>2, <2>1, <2>2, <2>3, <2>4 DEF Sendable
<1>5. k \in 0..Len(frame(m))
  <2>1. m \in Msgs
    BY <1>4 DEF Sendable
  <2>2. frame(m) \in Seq(Units)
    BY <2>1, FrameFacts
  <2>3. k \in Int /\ k >= 0
    OBVIOUS
  <2> QED BY <1>1, <2>2, <2>3
<1>6. /\ sent' \in Seq(Sends) /\ \A i \in 1..Len(sent') : Sendable(sent'[i].msg)
      /\ Len(sent') = Len(sent) + 1 /\ \A i \in 1..Len(sent) : sent'[i] = sent[i]
      /\ sent'[Len(sent) + 1].msg = m /\ (sent'[Len(sent) + 1].whole <=> k = Len(frame(m)))
      /\ StreamIsMessages' => StreamIsMessages /\ \A i \in 1..Len(sent) : sent[i].whole
      /\ StreamIsMessages' => Follow'
  BY <1>1, <1>2, <1>3, <1>4, <1>5, SendKeeps
<1>7. Len(sent) \in Nat
  BY DEF WInv, Typed
<1>8. pc' \in 0..AllSent /\ (k = Len(frame(m)) => pc' = pc + 1)
  <2> DEFINE D == {j \in pc + 1..Len(Plan) : Plan[j].kind = "recordDesc" /\ Plan[j].rec = Plan[pc].rec}
  <2>1. \/ k = Len(frame(m)) /\ pc' = pc + 1
        \/ k # Len(frame(m)) /\ (pc' = Quit \/ (D # {} /\ pc' = CHOOSE j \in D : TRUE))
    BY <1>1 DEF AfterItem
  <2>2. D # {} => (CHOOSE j \in D : TRUE) \in D
    <3> HIDE DEF D
    <3> QED OBVIOUS
  <2>3. pc' = pc + 1 \/ pc' = Quit \/ pc' \in D
    BY <2>1, <2>2
  <2> QED BY <1>3, <2>1, <2>3 DEF Quit
<1>9. Typed'
  <2>1. AllSent' = AllSent
    BY DEF AllSent
  <2> QED BY <1>6, <1>8 DEF Typed, AllSent
<1>10. \A i \in 1..Len(sent') : i \in 1..Len(sent) \/ i = Len(sent) + 1
  BY <1>6, <1>7
<1>11. \A i \in 1..Len(sent') : sent'[i].msg.kind # "done"
  <2>1. \A i \in 1..Len(sent) : sent[i].msg.kind # "done"
    BY <1>3 DEF WInv, Progress
  <2> QED BY <1>4, <1>6, <1>10, <2>1
<1>12. ASSUME StreamIsMessages', \A i \in 1..Len(sent') : sent'[i].whole PROVE pc' = Len(sent') + 1
  <2>1. pc = Len(sent) + 1
    BY <1>3, <1>6, <1>12 DEF WInv, Progress
  <2>2. Len(sent) + 1 \in 1..Len(sent')
    BY <1>6, <1>7
  <2>3. k = Len(frame(m))
    BY <1>6, <1>12, <2>2
  <2> QED BY <1>6, <1>7, <1>8, <2>1, <2>3
<1>13. Progress'
  BY <1>11, <1>12 DEF Progress
<1> QED BY <1>6, <1>9, <1>13 DEF WInv

\* The client sends Upload Done.
LEMMA SendDoneKeeps == ASSUME WInv, SendDone PROVE WInv'
<1>1. PICK k \in 0..2 : shSendAll(Done, k)
  BY DEF SendDone
<1>2. pc = AllSent /\ pc' = Quit /\ UNCHANGED <<want, handled, done, srv>>
  BY DEF SendDone
<1>3. Len(Plan) \in Nat /\ AllSent = Len(Plan) + 1 /\ pc # Quit
  BY <1>2, PlanAssumption DEF AllSent, Quit
<1>4. Done \in Msgs /\ Done.kind = "done" /\ Done.kl = 0 /\ Done.vl = 0
  BY <1>3 DEF Done, Msgs
<1>5. Sendable(Done) /\ k \in 0..Len(frame(Done))
  <2>1. Len(frame(Done)) = 2
    <3>1. Len(frame(Done)) = 2 + Done.kl + Done.vl
      BY <1>4, FrameFacts
    <3> QED BY <1>4, <3>1
  <2> QED BY <1>4, <2>1 DEF Sendable
<1>6. /\ sent' \in Seq(Sends) /\ \A i \in 1..Len(sent') : Sendable(sent'[i].msg)
      /\ Len(sent') = Len(sent) + 1 /\ \A i \in 1..Len(sent) : sent'[i] = sent[i]
      /\ StreamIsMessages' => StreamIsMessages /\ \A i \in 1..Len(sent) : sent[i].whole
      /\ StreamIsMessages' => Follow'
  BY <1>1, <1>2, <1>3, <1>5, SendKeeps
<1>7. Len(sent) \in Nat
  BY DEF WInv, Typed
<1>8. Typed'
  BY <1>2, <1>3, <1>6 DEF Typed, AllSent, Quit
<1>9. \A i \in 1..Len(sent') : sent'[i].msg.kind = "done" => i = Len(sent) + 1
  <2>1. \A i \in 1..Len(sent') : i \in 1..Len(sent) \/ i = Len(sent) + 1
    BY <1>6, <1>7
  <2>2. \A i \in 1..Len(sent) : sent[i].msg.kind # "done"
    BY <1>3 DEF WInv, Progress
  <2> QED BY <1>6, <2>1, <2>2
<1>10. StreamIsMessages' => Len(sent) + 1 = AllSent
  BY <1>2, <1>3, <1>6 DEF WInv, Progress
<1>11. Progress'
  BY <1>2, <1>6, <1>9, <1>10 DEF Progress, AllSent
<1> QED BY <1>6, <1>8, <1>11 DEF WInv

\* A read leaves the client's end alone.
LEMMA ReadFrame ==
  ASSUME WInv, UNCHANGED <<pc, sent>>, StreamIsMessages => Follow'
  PROVE  WInv'
<1>1. Typed' /\ Progress' /\ (StreamIsMessages' <=> StreamIsMessages)
  BY DEF WInv, Typed, Progress, StreamIsMessages, AllSent
<1> QED BY <1>1 DEF WInv

\* Where the server stands when there is something to read.
LEMMA ReadContext ==
  ASSUME WInv, StreamIsMessages, srv = "open", stream # <<>> \/ Len(stream) >= 1
  PROVE  /\ sent \in Seq(Sends) /\ OnlyLastCut(sent) /\ Len(sent) \in Nat
         /\ \E h, pos : Synced(sent, h, pos, stream, want, handled)
         /\ ~done
<1>1. Follow /\ sent \in Seq(Sends) /\ OnlyLastCut(sent)
  BY DEF WInv, Typed, StreamIsMessages, OnlyLastCut
<1>2. \E h, pos : Synced(sent, h, pos, stream, want, handled)
  BY <1>1 DEF Follow
<1>3. ~done
  <2>1. stream # <<>>
    <3>1. Len(<<>>) = 0
      OBVIOUS
    <3> QED BY <3>1
  <2> QED BY <1>1, <2>1 DEF Follow
<1> QED BY <1>1, <1>2, <1>3

\* The server reads a header.
LEMMA recvHeaderKeeps == ASSUME WInv, recvHeader PROVE WInv'
<1>1. /\ srv = "open" /\ want.id = "header" /\ Len(stream) >= want.len
      /\ stream' = SubSeq(stream, 1 + 1, Len(stream)) /\ UNCHANGED <<pc, sent, handled, done>>
      /\ IF Head(stream).t = "head"
           THEN want' = [id |-> Head(stream).id, len |-> Head(stream).len] /\ srv' = srv
           ELSE srv' = "closing" /\ want' = want
  BY DEF recvHeader, Ready, Reads
<1> SUFFICES ASSUME StreamIsMessages PROVE Follow'
  BY <1>1, ReadFrame
<1>2. Follow
  BY DEF WInv
<1>3. PICK h, pos : Synced(sent, h, pos, stream, want, handled)
  BY <1>1, <1>2 DEF Follow
<1>4. want = Header /\ Len(stream) >= 1
  BY <1>1, <1>3 DEF Synced, Header
<1>5. sent \in Seq(Sends) /\ OnlyLastCut(sent) /\ Len(sent) \in Nat /\ ~done
  BY <1>1, <1>4, ReadContext
<1> DEFINE m == sent[h + 1].msg
           p == [i \in h..Len(sent) |-> pos[i] - 1]
<1>6. /\ h + 1 \in 1..Len(sent) /\ Head(stream) = Head1(m)
      /\ Laid(sent, h, p, SubSeq(stream, 1 + 1, Len(stream)))
      /\ pos[h] = 0 /\ h \in h..Len(sent)
  BY <1>1, <1>3, <1>4, <1>5, ReadHeader
<1>7. Head1(m).t = "head" /\ Head1(m).id = MsgId(m) /\ Head1(m).len = 1 + m.kl + m.vl
  BY DEF Head1
<1>8. p[h] = -1
  BY <1>6
<1>9. Sendable(m)
  BY <1>6 DEF WInv, Typed
<1>10. MsgId(m) # "header" /\ h < Len(sent)
  <2>1. m \in Msgs
    BY <1>9 DEF Sendable
  <2>2. MsgId(m) # "header"
    BY <2>1, MsgIds
  <2>3. h \in 0..Len(sent)
    BY <1>3 DEF Synced, Laid
  <2> QED BY <1>5, <1>6, <2>2, <2>3
<1> HIDE DEF p
<1>11. want'.id = MsgId(m) /\ want'.len = 1 + m.kl + m.vl /\ srv' = srv
  BY <1>1, <1>6, <1>7
<1>12. Synced(sent, h, p, stream', want', handled)
  BY <1>1, <1>3, <1>6, <1>8, <1>10, <1>11 DEF Synced
<1>13. \E g, q : Synced(sent', g, q, stream', want', handled')
  BY <1>1, <1>12
<1>14. \E g \in 0..Len(sent') : handled' = Expectations(sent')[g]
  BY <1>1, <1>2 DEF Follow
<1> QED BY <1>1, <1>5, <1>13, <1>14 DEF Follow

\* The server has read the body of message h + 1.
LEMMA BodyRead ==
  ASSUME WInv, StreamIsMessages, srv = "open", NEW id \in {"add", "info", "done"}, Ready(id),
         Reads(want.len), want' = Header, UNCHANGED sent
  PROVE  \E h, p : /\ h + 1 \in 1..Len(sent) /\ h \in Nat /\ sent \in Seq(Sends) /\ ~done
                   /\ Sendable(sent[h + 1].msg) /\ MsgId(sent[h + 1].msg) = id
                   /\ BodyOf(sent[h + 1].msg, Body) /\ handled = Expectations(sent)[h]
                   /\ Laid(sent, h + 1, p, stream') /\ p[h + 1] = 0
                   /\ Expectations(sent)[h + 1] = Given(handled, sent[h + 1].msg)
<1>1. /\ want.id = id /\ want.id # "header" /\ Len(stream) >= want.len
      /\ stream' = SubSeq(stream, want.len + 1, Len(stream))
  BY DEF Ready, Reads
<1>2. PICK h, pos : Synced(sent, h, pos, stream, want, handled)
  BY DEF WInv, Follow
<1>3. sent \in Seq(Sends) /\ OnlyLastCut(sent) /\ Len(sent) \in Nat
  BY DEF WInv, Typed, StreamIsMessages, OnlyLastCut
<1> DEFINE m == sent[h + 1].msg
           p == [i \in h + 1..Len(sent) |-> pos[i] - want.len]
<1>4. /\ h + 1 \in 1..Len(sent) /\ want.id = MsgId(m) /\ want.len \in 0..Len(stream)
      /\ BodyOf(m, SubSeq(stream, 1, want.len))
      /\ Laid(sent, h + 1, p, SubSeq(stream, want.len + 1, Len(stream)))
      /\ pos[h + 1] - want.len = 0
  BY <1>1, <1>2, <1>3, ReadBody
<1>5. h \in Nat /\ handled = Expectations(sent)[h] /\ stream \in Seq(Units)
  BY <1>2, <1>3 DEF Synced, Laid
<1>6. h + 1 \in h + 1..Len(sent) /\ (h + 1) - 1 = h
  BY <1>3, <1>4, <1>5
<1>7. p[h + 1] = 0
  BY <1>4, <1>6
<1>8. Expectations(sent)[h + 1] = Given(Expectations(sent)[(h + 1) - 1], m)
  BY <1>3, <1>4, ExpectationsStep
<1>9. Sendable(m)
  BY <1>4 DEF WInv, Typed
<1>10. ~done
  <2>1. want.len = 1 + m.kl + m.vl
    BY <1>1, <1>2 DEF Synced
  <2>2. m.kl \in Nat /\ m.vl \in Nat
    BY <1>9 DEF Sendable, Msgs
  <2> HIDE DEF m
  <2>3. Len(stream) >= 1
    BY <1>1, <1>5, <2>1, <2>2
  <2> QED BY <2>3, ReadContext
<1> HIDE DEF m, p
<1>11. BodyOf(m, Body) /\ Laid(sent, h + 1, p, stream') /\ MsgId(m) = id
  BY <1>1, <1>4 DEF Body
<1>12. Expectations(sent)[h + 1] = Given(handled, m)
  BY <1>5, <1>6, <1>8
<1> QED BY <1>3, <1>4, <1>5, <1>7, <1>9, <1>10, <1>11, <1>12 DEF m

\* The server reads a record or an info, or refuses it.
LEMMA recvUpdateKeeps == ASSUME WInv, NEW id \in {"add", "info"}, recvUpdate(id) PROVE WInv'
<1>1. /\ Ready(id) /\ Reads(want.len) /\ want' = Header /\ srv = "open"
      /\ UNCHANGED <<pc, sent, done>>
      /\ \/ ~Decodes(id, Body) /\ UNCHANGED <<handled, srv>>
         \/ Decodes(id, Body) /\ IsUTF8(Body) /\ handled' = Append(handled, Decoded(Body)) /\ srv' = srv
         \/ Decodes(id, Body) /\ ~IsUTF8(Body) /\ srv' = "closing" /\ handled' = handled
  BY DEF recvUpdate, Ready
<1> SUFFICES ASSUME StreamIsMessages PROVE Follow'
  BY <1>1, ReadFrame
<1>2. PICK h, p : /\ h + 1 \in 1..Len(sent) /\ h \in Nat /\ sent \in Seq(Sends) /\ ~done
                  /\ Sendable(sent[h + 1].msg) /\ MsgId(sent[h + 1].msg) = id
                  /\ BodyOf(sent[h + 1].msg, Body) /\ handled = Expectations(sent)[h]
                  /\ Laid(sent, h + 1, p, stream') /\ p[h + 1] = 0
                  /\ Expectations(sent)[h + 1] = Given(handled, sent[h + 1].msg)
  BY <1>1, BodyRead
<1> DEFINE m == sent[h + 1].msg
<1>3. Sendable(m) /\ m.kind # "done" /\ MsgId(m) = id
  <2>1. m \in Msgs
    BY <1>2 DEF Sendable
  <2>2. MsgId(m) = "done" <=> m.kind = "done"
    BY <2>1, MsgIds
  <2> QED BY <1>2, <2>2
<1>4. BodyOf(m, Body) /\ Expectations(sent)[h + 1] = Given(handled, m)
  BY <1>2
<1> HIDE DEF m
<1>5. Decodes(id, Body) <=> Fits(m)
  BY <1>3, <1>4, DecodesFits
<1>6. IsUTF8(Body) <=> m.utf8
  BY <1>3, <1>4, IsUTF8Says
<1>7. Fits(m) /\ m.utf8 => Decoded(Body) = Faithful(m)
  BY <1>3, <1>4, DecodedIsFaithful
<1>8. Header.id = "header"
  BY DEF Header
<1>9. ASSUME handled' = Expectations(sent)[h + 1] PROVE Follow'
  <2>1. Synced(sent, h + 1, p, stream', want', handled')
    BY <1>1, <1>2, <1>8, <1>9 DEF Synced
  <2>2. \E g, q : Synced(sent', g, q, stream', want', handled')
    BY <1>1, <2>1
  <2>3. h + 1 \in 0..Len(sent')
    BY <1>1, <1>2
  <2>4. handled' = Expectations(sent')[h + 1]
    BY <1>1, <1>9
  <2> QED BY <1>1, <1>2, <2>2, <2>3, <2>4 DEF Follow
<1>10. CASE ~Decodes(id, Body) /\ UNCHANGED <<handled, srv>>
  <2>1. Given(handled, m) = handled
    BY <1>5, <1>10 DEF Given
  <2> QED BY <1>4, <1>9, <1>10, <2>1
<1>11. CASE Decodes(id, Body) /\ IsUTF8(Body) /\ handled' = Append(handled, Decoded(Body)) /\ srv' = srv
  <2>1. Given(handled, m) = Append(handled, Faithful(m))
    BY <1>3, <1>5, <1>11 DEF Given
  <2> QED BY <1>4, <1>5, <1>6, <1>7, <1>9, <1>11, <2>1
<1>12. CASE srv' = "closing" /\ handled' = handled
  <2>1. \E g \in 0..Len(sent') : handled' = Expectations(sent')[g]
    BY <1>1, <1>12 DEF WInv, Follow
  <2> QED BY <1>1, <1>2, <1>12, <2>1 DEF Follow
<1> QED BY <1>1, <1>10, <1>11, <1>12

\* The server reads Upload Done.
LEMMA recvDoneKeeps == ASSUME WInv, recvDone PROVE WInv'
<1>1. /\ Ready("done") /\ Reads(want.len) /\ want' = Header /\ srv = "open"
      /\ UNCHANGED <<pc, sent, handled, srv>>
  BY DEF recvDone, Ready
<1> SUFFICES ASSUME StreamIsMessages PROVE Follow'
  BY <1>1, ReadFrame
<1>2. PICK h, p : /\ h + 1 \in 1..Len(sent) /\ h \in Nat /\ sent \in Seq(Sends) /\ ~done
                  /\ Sendable(sent[h + 1].msg) /\ MsgId(sent[h + 1].msg) = "done"
                  /\ BodyOf(sent[h + 1].msg, Body) /\ handled = Expectations(sent)[h]
                  /\ Laid(sent, h + 1, p, stream') /\ p[h + 1] = 0
                  /\ Expectations(sent)[h + 1] = Given(handled, sent[h + 1].msg)
  BY <1>1, BodyRead
<1> DEFINE m == sent[h + 1].msg
<1>3. m.kind = "done"
  <2>1. m \in Msgs
    BY <1>2 DEF Sendable
  <2> QED BY <1>2, <2>1, MsgIds
<1>4. h + 1 = Len(sent)
  BY <1>2, <1>3 DEF WInv, Progress
<1>5. Expectations(sent)[h + 1] = handled
  BY <1>2, <1>3 DEF Given
<1> HIDE DEF m
<1>6. Synced(sent, h + 1, p, stream', want', handled')
  BY <1>1, <1>2, <1>5 DEF Synced, Header
<1>7. stream' = <<>>
  <2>1. stream' \in Seq(Units) /\ p[Len(sent)] = Len(stream')
    BY <1>2 DEF Laid
  <2>2. Len(stream') = 0
    BY <1>2, <1>4, <2>1
  <2> QED BY <2>1, <2>2, EmptySeq
<1>8. handled' = Expected'
  BY <1>1, <1>4, <1>5 DEF Expected
<1>9. sent' # <<>> /\ sent'[Len(sent')].msg.kind = "done"
  <2>1. Len(<<>>) = 0
    OBVIOUS
  <2> QED BY <1>1, <1>2, <1>3, <1>4, <2>1 DEF m
<1>10. \E g, q : Synced(sent', g, q, stream', want', handled')
  BY <1>1, <1>6
<1>11. \E g \in 0..Len(sent') : handled' = Expectations(sent')[g]
  BY <1>1 DEF WInv, Follow
<1> QED BY <1>7, <1>8, <1>9, <1>10, <1>11 DEF Follow

\* Every step keeps WInv.
LEMMA NextWInv == WInv /\ [Next]_vars => WInv'
<1> SUFFICES ASSUME WInv, [Next]_vars PROVE WInv'
  OBVIOUS
<1>1. CASE UNCHANGED vars
  <2>1. Follow => Follow'
    BY <1>1 DEF vars, Follow, Expected
  <2> QED BY <1>1, <2>1, ReadFrame DEF vars, WInv
<1>2. CASE Next
  BY <1>2, PushKeeps, SendDoneKeeps, recvHeaderKeeps, recvUpdateKeeps, recvDoneKeeps DEF Next
<1> QED BY <1>1, <1>2

\* Every reachable state satisfies WInv.
LEMMA Invariance == Spec => []WInv
  BY InitWInv, NextWInv, PTL DEF Spec

\* Whatever the lengths of the names and values and whatever is cut: as long as
\* the client stops at its first failed send, what the decoders hand to the
\* session is a prefix of what was sent, in order, each text as it was sent.
THEOREM NothingIsMisread == Spec => []DecodedIsSent
<1>1. WInv => DecodedIsSent
  <2> SUFFICES ASSUME WInv, StreamIsMessages PROVE IsPrefix(handled, Expected)
    BY DEF DecodedIsSent
  <2>1. sent \in Seq(Sends) /\ Len(sent) \in Nat
    BY DEF WInv, Typed
  <2>2. PICK h \in 0..Len(sent) : handled = Expectations(sent)[h]
    BY DEF WInv, Follow
  <2>3. Len(sent) \in 0..Len(sent)
    BY <2>1
  <2> QED BY <2>1, <2>2, <2>3, ExpectationsGrow DEF Expected
<1> QED BY <1>1, Invariance, PTL

\* When the server handles Upload Done the client has sent its whole plan, and
\* every item whose lengths fit their fields has been handled.
THEOREM DoneEndsTheUpload == Spec => []DoneMeansAll
<1>1. WInv => DoneMeansAll
  <2> SUFFICES ASSUME WInv, StreamIsMessages, done PROVE handled = Expected /\ Len(sent) = AllSent
    BY DEF DoneMeansAll
  <2>1. handled = Expected /\ sent # <<>> /\ sent[Len(sent)].msg.kind = "done"
    BY DEF WInv, Follow
  <2>2. sent \in Seq(Sends)
    BY DEF WInv, Typed
  <2>3. Len(sent) \in 1..Len(sent)
    BY <2>1, <2>2, EmptySeq
  <2> QED BY <2>1, <2>3 DEF WInv, Progress
<1> QED BY <1>1, Invariance, PTL
=============================================================================
