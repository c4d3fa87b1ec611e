-------------------------- MODULE CastLink_proofs ---------------------------
(***************************************************************************)
(* Proofs about CastLink, for any connections, slots, nonces and uploads:   *)
(* the composition implements CastReceiver, and neither end ever meets a    *)
(* message in a state that has no answer for it.                            *)
(***************************************************************************)
EXTENDS CastLink, CastReceiver_proofs, SequenceTheorems

-----------------------------------------------------------------------------
(* One connection.                                                         *)

Places == {"off", "hello", "upload", "pings"}
Plain == {"hello", "update", "done"}
Said == {Message(t) : t \in Plain} \cup {Pong(n) : n \in Nonces}

\* What a client in place cl has not read.
Unheard(cl, r) ==
  /\ cl = "off" => r = <<>>
  /\ cl = "hello" => \/ r = <<>> \/ r = <<ServerGreeting>>
                     \/ \E n \in Nonces : r = <<ServerGreeting, Ping(n)>>
  /\ cl \in {"upload", "pings"} => r = <<>> \/ \E n \in Nonces : r = <<Ping(n)>>

\* What the server has not read: the hello comes first and no session exists
\* before it is read; a client that has not said done has said no pong; the only
\* pong is the last word, and the done that precedes it returned the slot.
Unhandled(cl, q, se, ac) ==
  /\ ~se => q # <<>>
  /\ \A k \in 1..Len(q) : q[k].type = "hello" <=> k = 1 /\ ~se
  /\ \A k \in 1..Len(q) : q[k].type = "pong" => k = Len(q)
  /\ cl \in {"hello", "upload"} => \A k \in 1..Len(q) : q[k].type \notin {"done", "pong"}
  /\ ac /\ (cl = "pings" \/ \E k \in 1..Len(q) : q[k].type = "pong") =>
       \E k \in 1..Len(q) : q[k].type = "done"

\* A parked connection has said hello and heard nothing.
Parked(cl, q, r) == r = <<>> /\ q = <<Message("hello")>> /\ cl \in {"off", "hello"}

\* No ping is out.
NonePinged(cl, q, r) ==
  /\ cl = "hello" => r = <<ServerGreeting>>
  /\ cl \in {"upload", "pings"} => r = <<>>
  /\ \A k \in 1..Len(q) : q[k].type # "pong"

\* The ping that carries no is out, or its pong; a client that is gone may have
\* left it unanswered.
Pinged(cl, q, r, no) ==
  /\ no \in Nonces
  /\ cl = "hello" => r = <<ServerGreeting, Ping(no)>>
  /\ cl = "upload" => r = <<Ping(no)>>
  /\ cl = "pings" => r = <<Ping(no)>> \/ (r = <<>> /\ \E k \in 1..Len(q) : q[k].type = "pong")
  /\ \A k \in 1..Len(q) : q[k].type = "pong" => r = <<>> /\ q[k].nonce = no

Fine(cl, q, r, co, ph, no, se, ac) ==
  /\ cl \in Places /\ q \in Seq(Said) /\ Unheard(cl, r)
  /\ co = "none" => q = <<>> /\ ~se
  /\ co # "none" => /\ Unhandled(cl, q, se, ac)
                    /\ ph = 0 => Parked(cl, q, r)
                    /\ ph = 1 => NonePinged(cl, q, r)
                    /\ ph = 2 => Pinged(cl, q, r, no)

\* The messages are told apart by their types.
LEMMA Words ==
  /\ \A t \in Plain : Message(t) = [type |-> t, nonce |-> NoNonce] /\ Message(t).type = t
  /\ \A n \in Nonces : Pong(n).type = "pong" /\ Pong(n).nonce = n
  /\ \A n \in Nonces : Ping(n).type = "ping" /\ Ping(n).nonce = n
  /\ ServerGreeting.type = "greeting" /\ Nothing.type = "none"
  /\ \A m \in Said : \/ m.type \in Plain
                     \/ m.type = "pong" /\ m.nonce \in Nonces
  BY DEF Message, Pong, Ping, ServerGreeting, Nothing, Said, Plain

\* Streams of at most two messages.
LEMMA AppendWord == ASSUME NEW x, NEW y PROVE Append(<<>>, x) = <<x>> /\ Append(<<y>>, x) = <<y, x>>
<1> DEFINE S == {x, y}
<1>1. <<y>> \in Seq(S) /\ x \in S /\ <<y, x>> \in Seq(S) /\ <<>> \in Seq(S)
  OBVIOUS
<1>2. Len(<<y>>) = 1 /\ Len(<<y, x>>) = 2 /\ <<y>>[1] = y
  OBVIOUS
<1>3. Len(Append(<<y>>, x)) = 2 /\ \A k \in 1..2 : Append(<<y>>, x)[k] = <<y, x>>[k]
  BY <1>1, <1>2
<1>4. Append(<<y>>, x) \in Seq(S) /\ Append(<<>>, x) = <<x>>
  BY <1>1
<1> HIDE DEF S
<1> QED BY <1>1, <1>2, <1>3, <1>4, SeqEqual

\* The server pings.
LEMMA PingFine ==
  ASSUME NEW cl, NEW q, NEW r, NEW co, NEW no, NEW se, NEW ac, NEW n \in Nonces,
         Fine(cl, q, r, co, 1, no, se, ac), co # "none"
  PROVE  Fine(cl, q, IF cl # "off" THEN Append(r, Ping(n)) ELSE r, co, 2, n, se, ac)
<1>1. /\ cl \in Places /\ q \in Seq(Said) /\ Unheard(cl, r)
      /\ Unhandled(cl, q, se, ac) /\ NonePinged(cl, q, r)
  BY DEF Fine
<1> DEFINE s == IF cl # "off" THEN Append(r, Ping(n)) ELSE r
<1>2. /\ cl = "off" => s = <<>>
      /\ cl = "hello" => s = <<ServerGreeting, Ping(n)>>
      /\ cl \in {"upload", "pings"} => s = <<Ping(n)>>
  <2>1. /\ cl = "off" => r = <<>>
        /\ cl = "hello" => r = <<ServerGreeting>>
        /\ cl \in {"upload", "pings"} => r = <<>>
    BY <1>1 DEF Unheard, NonePinged
  <2> QED BY <2>1, AppendWord
<1> HIDE DEF s
<1>3. Unheard(cl, s)
  BY <1>2 DEF Unheard
<1>4. Pinged(cl, q, s, n)
  BY <1>1, <1>2 DEF NonePinged, Pinged
<1>5. Fine(cl, q, s, co, 2, n, se, ac)
  BY <1>1, <1>3, <1>4 DEF Fine
<1> QED BY <1>5 DEF s

\* A parked connection is admitted.
LEMMA AdmitFine ==
  ASSUME NEW cl, NEW q, NEW r, NEW co, NEW no, NEW se, NEW ac, NEW b,
         Fine(cl, q, r, co, 0, no, se, ac), co # "none"
  PROVE  Fine(cl, q, IF cl # "off" THEN Append(r, ServerGreeting) ELSE r, co, 1, no, se, b)
<1>1. q \in Seq(Said) /\ Unhandled(cl, q, se, ac) /\ Parked(cl, q, r)
  BY DEF Fine
<1> DEFINE s == IF cl # "off" THEN Append(r, ServerGreeting) ELSE r
<1>2. (cl = "off" => s = <<>>) /\ (cl = "hello" => s = <<ServerGreeting>>) /\ cl \in {"off", "hello"}
  BY <1>1 DEF Parked
<1>3. Len(q) = 1 /\ q[1].type = "hello"
  BY <1>1, Words DEF Parked, Plain
<1> HIDE DEF s
<1>4. Unheard(cl, s) /\ cl \in Places
  BY <1>2 DEF Unheard, Places
<1>5. NonePinged(cl, q, s)
  BY <1>2, <1>3 DEF NonePinged
<1>6. Unhandled(cl, q, se, b)
  BY <1>1, <1>2, <1>3 DEF Unhandled
<1>7. Fine(cl, q, s, co, 1, no, se, b)
  BY <1>1, <1>4, <1>5, <1>6 DEF Fine
<1> QED BY <1>7 DEF s

\* loseConnection changes nothing that Fine speaks of but the connection's
\* state.
LEMMA CloseFine ==
  ASSUME NEW cl, NEW q, NEW r, NEW co, NEW ph, NEW no, NEW se, NEW ac,
         Fine(cl, q, r, co, ph, no, se, ac), co # "none"
  PROVE  Fine(cl, q, r, "closing", ph, no, se, ac)
  BY DEF Fine

\* A connection that is gone is fine.
LEMMA LostFine ==
  ASSUME NEW cl, NEW q, NEW r, NEW co, NEW ph, NEW no, NEW se, NEW ac,
         Fine(cl, q, r, co, ph, no, se, ac), NEW ph2, NEW no2, NEW se2, NEW ac2, ~se2
  PROVE  Fine(cl, <<>>, r, "none", ph2, no2, se2, ac2)
  BY DEF Fine

\* What is left when the first message was read.
LEMMA TailFacts ==
  ASSUME NEW S, NEW q \in Seq(S), q # <<>>
  PROVE  /\ Tail(q) \in Seq(S) /\ Len(q) \in Nat \ {0} /\ Len(Tail(q)) = Len(q) - 1 /\ Head(q) = q[1]
         /\ \A k \in 1..Len(Tail(q)) : Tail(q)[k] = q[k + 1] /\ k + 1 \in 1..Len(q)
         /\ \A k \in 1..Len(q) : k # 1 => k - 1 \in 1..Len(Tail(q)) /\ Tail(q)[k - 1] = q[k]
  OBVIOUS

\* What remains when the server has read the head: se2 and ac2 are what reading it
\* made of the session and of the slot.
LEMMA ReadUnhandled ==
  ASSUME NEW cl, NEW q \in Seq(Said), NEW se, NEW ac, NEW se2, NEW ac2, Unhandled(cl, q, se, ac),
         q # <<>>, se2, ac2 => ac /\ Head(q).type # "done"
  PROVE  Unhandled(cl, Tail(q), se2, ac2)
<1> DEFINE t == Tail(q)
<1>1. /\ t \in Seq(Said) /\ Len(q) \in Nat \ {0} /\ Len(t) = Len(q) - 1 /\ Head(q) = q[1]
      /\ \A k \in 1..Len(t) : t[k] = q[k + 1] /\ k + 1 \in 1..Len(q)
      /\ \A k \in 1..Len(q) : k # 1 => k - 1 \in 1..Len(t) /\ t[k - 1] = q[k]
  BY TailFacts
<1> HIDE DEF t
<1>2. \A k \in 1..Len(t) : t[k].type # "hello"
  <2> SUFFICES ASSUME NEW k \in 1..Len(t) PROVE t[k].type # "hello"
    OBVIOUS
  <2>1. t[k] = q[k + 1] /\ k + 1 \in 1..Len(q) /\ k + 1 # 1
    BY <1>1
  <2> QED BY <2>1 DEF Unhandled
<1>3. \A k \in 1..Len(t) : t[k].type = "pong" => k = Len(t)
  <2> SUFFICES ASSUME NEW k \in 1..Len(t), t[k].type = "pong" PROVE k = Len(t)
    OBVIOUS
  <2>1. q[k + 1].type = "pong" /\ k + 1 \in 1..Len(q)
    BY <1>1
  <2>2. k + 1 = Len(q)
    BY <2>1 DEF Unhandled
  <2> QED BY <1>1, <2>2
<1>4. cl \in {"hello", "upload"} => \A k \in 1..Len(t) : t[k].type \notin {"done", "pong"}
  BY <1>1 DEF Unhandled
<1>5. ASSUME ac2, cl = "pings" \/ \E k \in 1..Len(t) : t[k].type = "pong"
      PROVE  \E k \in 1..Len(t) : t[k].type = "done"
  <2>1. cl = "pings" \/ \E k \in 1..Len(q) : q[k].type = "pong"
    BY <1>1, <1>5
  <2>2. PICK j \in 1..Len(q) : q[j].type = "done"
    BY <1>5, <2>1 DEF Unhandled
  <2>3. j # 1
    BY <1>1, <1>5, <2>2
  <2> QED BY <1>1, <2>2, <2>3
<1>6. Unhandled(cl, t, se2, ac2)
  BY <1>2, <1>3, <1>4, <1>5 DEF Unhandled
<1> QED BY <1>6 DEF t

\* The server reads a hello, an update or a done.
LEMMA ReadFine ==
  ASSUME NEW cl, NEW q, NEW r, NEW co, NEW ph \in {1, 2}, NEW no, NEW se, NEW ac, NEW se2, NEW ac2,
         Fine(cl, q, r, co, ph, no, se, ac), co # "none", q # <<>>, Head(q).type # "pong",
         se2, ac2 => ac /\ Head(q).type # "done"
  PROVE  Fine(cl, Tail(q), r, co, ph, no, se2, ac2)
<1>1. /\ cl \in Places /\ q \in Seq(Said) /\ Unheard(cl, r) /\ Unhandled(cl, q, se, ac)
      /\ (ph = 1 => NonePinged(cl, q, r)) /\ (ph = 2 => Pinged(cl, q, r, no))
  BY DEF Fine
<1>2. Unhandled(cl, Tail(q), se2, ac2)
  BY <1>1, ReadUnhandled
<1> DEFINE t == Tail(q)
<1>3. /\ t \in Seq(Said) /\ Len(q) \in Nat \ {0} /\ Len(t) = Len(q) - 1 /\ Head(q) = q[1]
      /\ \A k \in 1..Len(t) : t[k] = q[k + 1] /\ k + 1 \in 1..Len(q)
      /\ \A k \in 1..Len(q) : k # 1 => k - 1 \in 1..Len(t) /\ t[k - 1] = q[k]
  BY <1>1, TailFacts
<1>4. Unhandled(cl, t, se2, ac2)
  BY <1>2
<1> HIDE DEF t
<1>5. ph = 1 => NonePinged(cl, t, r)
  BY <1>1, <1>3 DEF NonePinged
<1>6. ph = 2 => Pinged(cl, t, r, no)
  <2> SUFFICES ASSUME ph = 2 PROVE Pinged(cl, t, r, no)
    OBVIOUS
  <2>1. Pinged(cl, q, r, no)
    BY <1>1
  <2>2. (\E k \in 1..Len(q) : q[k].type = "pong") => \E k \in 1..Len(t) : t[k].type = "pong"
    <3> SUFFICES ASSUME NEW k \in 1..Len(q), q[k].type = "pong"
                 PROVE  \E j \in 1..Len(t) : t[j].type = "pong"
      OBVIOUS
    <3>1. k # 1
      BY <1>3
    <3> QED BY <1>3, <3>1
  <2> QED BY <1>3, <2>1, <2>2 DEF Pinged
<1>7. ph # 0
  OBVIOUS
<1>8. cl \in Places /\ t \in Seq(Said) /\ Unheard(cl, r)
  BY <1>1, <1>3
<1>9. Fine(cl, t, r, co, ph, no, se2, ac2)
  BY <1>4, <1>5, <1>6, <1>7, <1>8 DEF Fine
<1> QED BY <1>9 DEF t

\* The server reads a pong: it is the last word and answers the last ping.
LEMMA PongFine ==
  ASSUME NEW cl, NEW q, NEW r, NEW co, NEW ph \in {1, 2}, NEW no, NEW se, NEW ac,
         Fine(cl, q, r, co, ph, no, se, ac), co # "none", q # <<>>, Head(q).type = "pong"
  PROVE  /\ no = Head(q).nonce /\ no \in Nonces /\ ~ac
         /\ Fine(cl, Tail(q), r, co, 1, no, se, ac)
<1>1. /\ cl \in Places /\ q \in Seq(Said) /\ Unheard(cl, r) /\ Unhandled(cl, q, se, ac)
      /\ (ph = 1 => NonePinged(cl, q, r)) /\ (ph = 2 => Pinged(cl, q, r, no))
  BY DEF Fine
<1>2. Head(q) = q[1] /\ 1 \in 1..Len(q) /\ q[1].type = "pong"
  BY <1>1
<1>3. Len(q) = 1 /\ cl \notin {"hello", "upload"}
  BY <1>1, <1>2 DEF Unhandled
<1>4. ph = 2 /\ no = q[1].nonce /\ no \in Nonces /\ r = <<>>
  BY <1>1, <1>2 DEF NonePinged, Pinged
<1>5. se
  BY <1>2 DEF Unhandled, Fine
<1>6. ~ac
  BY <1>1, <1>2, <1>3 DEF Unhandled
<1>7. Tail(q) = <<>> /\ <<>> \in Seq(Said) /\ Len(<<>>) = 0
  <2>1. Tail(q) \in Seq(Said) /\ Len(Tail(q)) = 0
    BY <1>1, <1>3, TailFacts
  <2>2. Tail(q) = <<>>
    BY <2>1, EmptySeq
  <2> QED BY <2>2
<1>8. Unhandled(cl, <<>>, se, ac)
  BY <1>5, <1>6, <1>7 DEF Unhandled
<1>9. NonePinged(cl, <<>>, r)
  BY <1>3, <1>4, <1>7 DEF NonePinged
<1>10. Fine(cl, <<>>, r, co, 1, no, se, ac)
  BY <1>1, <1>7, <1>8, <1>9 DEF Fine
<1> QED BY <1>2, <1>4, <1>6, <1>7, <1>10

\* The client is gone; what it wrote is still on its way.
LEMMA QuitFine ==
  ASSUME NEW cl, NEW q, NEW r, NEW co, NEW ph \in {0, 1, 2}, NEW no, NEW se, NEW ac,
         Fine(cl, q, r, co, ph, no, se, ac)
  PROVE  Fine("off", q, <<>>, co, ph, no, se, ac)
<1>1. q \in Seq(Said) /\ Unheard("off", <<>>) /\ "off" \in Places
  BY DEF Fine, Unheard, Places
<1>2. CASE co = "none"
  BY <1>1, <1>2 DEF Fine
<1>3. CASE co # "none"
  <2>1. /\ Unhandled(cl, q, se, ac) /\ (ph = 0 => Parked(cl, q, r))
        /\ (ph = 1 => NonePinged(cl, q, r)) /\ (ph = 2 => Pinged(cl, q, r, no))
    BY <1>3 DEF Fine
  <2>2. Unhandled("off", q, se, ac)
    BY <2>1 DEF Unhandled
  <2>3. /\ ph = 0 => Parked("off", q, <<>>)
        /\ ph = 1 => NonePinged("off", q, <<>>)
        /\ ph = 2 => Pinged("off", q, <<>>, no)
    BY <2>1 DEF Parked, NonePinged, Pinged
  <2> QED BY <1>1, <1>3, <2>2, <2>3 DEF Fine
<1> QED BY <1>2, <1>3

\* Streams of at most two messages, read.
LEMMA Shapes ==
  /\ \A x : <<x>> # <<>> /\ Head(<<x>>) = x /\ Tail(<<x>>) = <<>>
  /\ \A x, y : <<x, y>> # <<>> /\ Head(<<x, y>>) = x /\ Tail(<<x, y>>) = <<y>>
  OBVIOUS

\* The greeting is read.
LEMMA GreetedFine ==
  ASSUME NEW q, NEW r, NEW co, NEW ph \in {0, 1, 2}, NEW no, NEW se, NEW ac,
         Fine("hello", q, r, co, ph, no, se, ac), r # <<>>
  PROVE  Fine("upload", q, Tail(r), co, ph, no, se, ac)
<1>1. q \in Seq(Said) /\ Unheard("hello", r) /\ "upload" \in Places
  BY DEF Fine, Places
<1>2. Unheard("upload", Tail(r))
  <2>1. r = <<ServerGreeting>> \/ \E n \in Nonces : r = <<ServerGreeting, Ping(n)>>
    BY <1>1 DEF Unheard
  <2>2. Tail(r) = <<>> \/ \E n \in Nonces : Tail(r) = <<Ping(n)>>
    BY <2>1, Shapes
  <2> QED BY <2>2 DEF Unheard
<1>3. CASE co = "none"
  BY <1>1, <1>2, <1>3 DEF Fine
<1>4. CASE co # "none"
  <2>1. /\ Unhandled("hello", q, se, ac) /\ (ph = 0 => Parked("hello", q, r))
        /\ (ph = 1 => NonePinged("hello", q, r)) /\ (ph = 2 => Pinged("hello", q, r, no))
    BY <1>4 DEF Fine
  <2>2. Unhandled("upload", q, se, ac)
    BY <2>1 DEF Unhandled
  <2>3. ph # 0
    BY <2>1 DEF Parked
  <2>4. ph = 1 => NonePinged("upload", q, Tail(r))
    BY <2>1, Shapes DEF NonePinged
  <2>5. ph = 2 => Pinged("upload", q, Tail(r), no)
    <3>1. ph = 2 => Tail(r) = <<Ping(no)>>
      BY <2>1, Shapes DEF Pinged
    <3>2. \A k \in 1..Len(q) : q[k].type # "pong"
      BY <2>1 DEF Unhandled
    <3> QED BY <2>1, <3>1, <3>2 DEF Pinged
  <2> QED BY <1>1, <1>2, <1>4, <2>2, <2>3, <2>4, <2>5 DEF Fine
<1> QED BY <1>3, <1>4

\* The client says a word to a server that is gone.
LEMMA UnheardSpeech ==
  ASSUME NEW cl, NEW cl2 \in {"upload", "pings"}, NEW q, NEW r, NEW ph, NEW no, NEW se, NEW ac,
         Fine(cl, q, r, "none", ph, no, se, ac), Unheard(cl2, r)
  PROVE  Fine(cl2, q, r, "none", ph, no, se, ac)
  BY DEF Fine, Places

\* What is there when a message was sent.
LEMMA AppendFacts ==
  ASSUME NEW q \in Seq(Said), NEW m \in Said
  PROVE  /\ Append(q, m) \in Seq(Said) /\ Len(q) \in Nat /\ Len(Append(q, m)) = Len(q) + 1
         /\ Append(q, m)[Len(q) + 1] = m
         /\ \A k \in 1..Len(q) : Append(q, m)[k] = q[k]
         /\ 1..Len(q) + 1 = 1..Len(q) \cup {Len(q) + 1}
  OBVIOUS

\* The client sends an update, or is done.
LEMMA SpeakFine ==
  ASSUME NEW t \in {"update", "done"}, NEW cl, cl = (IF t = "done" THEN "pings" ELSE "upload"),
         NEW q, NEW r, NEW co, NEW ph \in {0, 1, 2}, NEW no, NEW se, NEW ac,
         Fine("upload", q, r, co, ph, no, se, ac)
  PROVE  Fine(cl, IF co = "none" THEN q ELSE Append(q, Message(t)), r, co, ph, no, se, ac)
<1>1. q \in Seq(Said) /\ Unheard("upload", r) /\ cl \in Places /\ cl \in {"upload", "pings"}
  BY DEF Fine, Places
<1>2. Unheard(cl, r)
  BY <1>1 DEF Unheard
<1>3. CASE co = "none"
  BY <1>1, <1>2, <1>3, UnheardSpeech
<1>4. CASE co # "none"
  <2> DEFINE m == Message(t)
             p == Append(q, m)
  <2>1. /\ Unhandled("upload", q, se, ac) /\ (ph = 0 => Parked("upload", q, r))
        /\ (ph = 1 => NonePinged("upload", q, r)) /\ (ph = 2 => Pinged("upload", q, r, no))
    BY <1>4 DEF Fine
  <2>2. m \in Said /\ m.type = t
    BY Words DEF Said, Plain
  <2> HIDE DEF m
  <2>3. /\ p \in Seq(Said) /\ Len(q) \in Nat /\ Len(p) = Len(q) + 1
        /\ p[Len(q) + 1] = m /\ (\A k \in 1..Len(q) : p[k] = q[k])
        /\ 1..Len(p) = 1..Len(q) \cup {Len(q) + 1}
    BY <1>1, <2>2, AppendFacts
  <2> HIDE DEF p
  <2>4. Len(q) = 0 => se
    BY <1>1, <2>1 DEF Unhandled
  <2>5. \A k \in 1..Len(p) : p[k].type # "pong"
    BY <2>1, <2>2, <2>3 DEF Unhandled
  <2>6. \A k \in 1..Len(p) : p[k].type = "hello" <=> k = 1 /\ ~se
    BY <2>1, <2>2, <2>3, <2>4 DEF Unhandled
  <2>7. cl = "upload" => \A k \in 1..Len(p) : p[k].type # "done"
    BY <2>1, <2>2, <2>3 DEF Unhandled
  <2>8. cl = "pings" => \E k \in 1..Len(p) : p[k].type = "done"
    BY <2>2, <2>3
  <2>9. Unhandled(cl, p, se, ac)
    BY <1>1, <2>3, <2>5, <2>6, <2>7, <2>8 DEF Unhandled
  <2>10. ph # 0 /\ (ph = 1 => NonePinged(cl, p, r))
    BY <1>1, <2>1, <2>5 DEF Parked, NonePinged
  <2>11. ph = 2 => Pinged(cl, p, r, no)
    BY <1>1, <2>1, <2>5 DEF Pinged
  <2>12. Fine(cl, p, r, co, ph, no, se, ac)
    BY <1>1, <1>2, <1>4, <2>3, <2>9, <2>10, <2>11 DEF Fine
  <2> QED BY <1>4, <2>12 DEF p, m
<1> QED BY <1>3, <1>4

\* The client answers a ping.
LEMMA AnswerFine ==
  ASSUME NEW q, NEW r, NEW co, NEW ph \in {0, 1, 2}, NEW no, NEW se, NEW ac,
         Fine("pings", q, r, co, ph, no, se, ac), r # <<>>
  PROVE  /\ Head(r).nonce \in Nonces
         /\ Fine("pings", IF co = "none" THEN q ELSE Append(q, Pong(Head(r).nonce)), Tail(r), co, ph, no, se, ac)
<1>1. q \in Seq(Said) /\ Unheard("pings", r) /\ "pings" \in Places
  BY DEF Fine, Places
<1>2. PICK n \in Nonces : r = <<Ping(n)>>
  BY <1>1 DEF Unheard
<1>3. Head(r) = Ping(n) /\ Head(r).nonce = n /\ Tail(r) = <<>>
  BY <1>2, Shapes, Words
<1>4. Unheard("pings", <<>>)
  BY DEF Unheard
<1>5. CASE co = "none"
  BY <1>1, <1>3, <1>4, <1>5 DEF Fine
<1>6. CASE co # "none"
  <2> DEFINE m == Pong(n)
             p == Append(q, m)
  <2>1. /\ Unhandled("pings", q, se, ac) /\ (ph = 0 => Parked("pings", q, r))
        /\ (ph = 1 => NonePinged("pings", q, r)) /\ (ph = 2 => Pinged("pings", q, r, no))
    BY <1>6 DEF Fine
  <2>2. m \in Said /\ m.type = "pong" /\ m.nonce = n
    BY Words DEF Said
  <2> HIDE DEF m
  <2>3. /\ p \in Seq(Said) /\ Len(q) \in Nat /\ Len(p) = Len(q) + 1
        /\ p[Len(q) + 1] = m /\ (\A k \in 1..Len(q) : p[k] = q[k])
        /\ 1..Len(p) = 1..Len(q) \cup {Len(q) + 1}
    BY <1>1, <2>2, AppendFacts
  <2> HIDE DEF p
  <2>4. ph = 2 /\ r = <<Ping(no)>> /\ no \in Nonces
    BY <1>2, <2>1, Shapes DEF Parked, NonePinged, Pinged
  <2>5. n = no
    <3>1. Ping(n) = Ping(no)
      BY <1>3, <2>4, Shapes
    <3> QED BY <2>4, <3>1, Words
  <2>6. \A k \in 1..Len(q) : q[k].type # "pong"
    BY <1>2, <2>1, <2>4, Shapes DEF Pinged
  <2>7. Len(q) = 0 => se
    BY <1>1, <2>1 DEF Unhandled
  <2>8. \A k \in 1..Len(p) : p[k].type = "hello" <=> k = 1 /\ ~se
    BY <2>1, <2>2, <2>3, <2>7 DEF Unhandled
  <2>9. ac => \E k \in 1..Len(p) : p[k].type = "done"
    BY <2>1, <2>3 DEF Unhandled
  <2>10. Unhandled("pings", p, se, ac)
    BY <2>3, <2>6, <2>8, <2>9 DEF Unhandled
  <2>11. Pinged("pings", p, <<>>, no)
    BY <2>2, <2>3, <2>4, <2>5, <2>6 DEF Pinged
  <2>12. Fine("pings", p, <<>>, co, ph, no, se, ac)
    BY <1>1, <1>4, <1>6, <2>3, <2>4, <2>10, <2>11 DEF Fine
  <2> QED BY <1>3, <1>6, <2>12 DEF p, m
<1> QED BY <1>3, <1>5, <1>6

\* A connection is made, at once or to wait.
LEMMA ConnectFine ==
  ASSUME NEW ph \in {0, 1}, NEW no, NEW se, NEW ac, ~se
  PROVE  Fine("hello", <<Message("hello")>>, IF ph = 1 THEN <<ServerGreeting>> ELSE <<>>, "open", ph, no, se, ac)
<1> DEFINE m == Message("hello")
           q == <<m>>
           r == IF ph = 1 THEN <<ServerGreeting>> ELSE <<>>
<1>1. m \in Said /\ m.type = "hello"
  BY Words DEF Said, Plain
<1>2. q \in Seq(Said) /\ Len(q) = 1 /\ q[1] = m /\ q # <<>>
  BY <1>1
<1>3. Unheard("hello", r) /\ "hello" \in Places
  BY DEF Unheard, Places
<1> HIDE DEF r, m
<1>4. Unhandled("hello", q, se, ac)
  BY <1>1, <1>2 DEF Unhandled
<1>5. (ph = 0 => Parked("hello", q, r)) /\ (ph = 1 => NonePinged("hello", q, r))
  BY <1>1, <1>2 DEF Parked, NonePinged, r, m
<1> HIDE DEF q
<1>6. Fine("hello", q, r, "open", ph, no, se, ac)
  BY <1>2, <1>3, <1>4, <1>5 DEF Fine
<1> QED BY <1>6 DEF q, r, m

-----------------------------------------------------------------------------
(* The inductive invariant.                                                *)

LinkTyped ==
  /\ cli \in [Conns -> Places] /\ left \in [Conns -> Int]
  /\ toServer \in [Conns -> Seq(Said)]
  /\ toClient = [c \in Conns |-> toClient[c]]

AllFine ==
  \A c \in Conns :
    Fine(cli[c], toServer[c], toClient[c], conn[c], phase[c], nonce[c], sess[c], active[c])

LInv == IInv /\ LinkTyped /\ AllFine

\* What a call-back of c does to another connection: it may be admitted.
Elsewhere(d) ==
  /\ conn'[d] = conn[d] /\ nonce'[d] = nonce[d] /\ sess'[d] = sess[d]
  /\ \/ conn[d] # "none" /\ phase[d] = 0 /\ phase'[d] = 1 /\ out'[d] = ServerGreeting
     \/ phase'[d] = phase[d] /\ active'[d] = active[d] /\ out'[d] = Nothing

\* isDone admits only connections that wait, and not its own.
LEMMA ReleaseEffect ==
  ASSUME IInv, NEW c \in Conns, isDone(c), active' = Activate(AfterDone(c), Admitted(c), TRUE)
  PROVE  /\ c \notin Admitted(c) /\ ~active'[c]
         /\ \A d \in Conns : d \in Admitted(c) => conn[d] # "none" /\ phase[d] = 0
         /\ \A d \in Conns : d # c /\ d \notin Admitted(c) => active'[d] = active[d]
<1>1. /\ Admitted(c) \subseteq ToSet(Wait) \ {c}
      /\ \A d \in Conns : active'[d] <=> d \in Admitted(c) \/ (d # c /\ active[d])
      /\ active' \in [Conns -> BOOLEAN]
  BY ReleaseCounts
<1>2. \A d \in Conns : d \in ToSet(Wait) => conn[d] # "none" /\ phase[d] = 0
  BY DEF IInv, Parking
<1>3. active \in [Conns -> BOOLEAN]
  BY DEF IInv, TypeOK
<1>4. \A d \in Conns : d # c /\ d \notin Admitted(c) => active'[d] = active[d]
  BY <1>1, <1>3
<1> QED BY <1>1, <1>2, <1>4

\* What connectionLost does to its own connection and to others.
LEMMA LostEffect ==
  ASSUME IInv, NEW c \in Conns, connectionLost(c)
  PROVE  /\ conn'[c] = "none" /\ ~sess'[c] /\ out'[c] = Nothing
         /\ \A d \in Conns : d # c => Elsewhere(d)
<1> DEFINE A == Admitted(c)
<1>1. /\ isDone(c) /\ Forget(c)
      /\ active' = Activate(AfterDone(c), A, TRUE)
      /\ phase' = [d \in Conns |-> IF d \in A THEN 1 ELSE [phase EXCEPT ![c] = 0][d]]
      /\ out' = [d \in Conns |-> IF d \in A THEN ServerGreeting ELSE NoOutput[d]]
  BY DEF connectionLost, Activate, AfterDone
<1>2. /\ c \notin A
      /\ \A d \in Conns : d \in A => conn[d] # "none" /\ phase[d] = 0
      /\ \A d \in Conns : d # c /\ d \notin A => active'[d] = active[d]
  BY <1>1, ReleaseEffect
<1> HIDE DEF A
<1>3. /\ conn' = [conn EXCEPT ![c] = "none"] /\ nonce' = [nonce EXCEPT ![c] = NoNonce]
      /\ sess' = [sess EXCEPT ![c] = FALSE]
  BY <1>1 DEF Forget
<1>4. /\ conn \in [Conns -> {"none", "open", "closing"}] /\ phase \in [Conns -> 0..2]
      /\ nonce \in [Conns -> Nonces \cup {NoNonce}] /\ sess \in [Conns -> BOOLEAN]
  BY DEF IInv, TypeOK
<1>5. conn'[c] = "none" /\ out'[c] = Nothing
  BY <1>1, <1>2, <1>3, <1>4 DEF NoOutput
<1>6. sess'[c] = FALSE
  BY <1>3, <1>4
<1>7. ~sess'[c]
  BY <1>6, Zenon
<1>8. ASSUME NEW d \in Conns, d # c PROVE Elsewhere(d)
  <2>1. conn'[d] = conn[d] /\ nonce'[d] = nonce[d] /\ sess'[d] = sess[d]
    BY <1>3, <1>4, <1>8
  <2>2. CASE d \in A
    BY <1>1, <1>2, <2>1, <2>2 DEF Elsewhere
  <2>3. CASE d \notin A
    <3>1. phase'[d] = phase[d] /\ out'[d] = Nothing
      BY <1>1, <1>4, <1>8, <2>3 DEF NoOutput
    <3> QED BY <1>2, <1>8, <2>1, <2>3, <3>1 DEF Elsewhere
  <2> QED BY <2>2, <2>3
<1> QED BY <1>5, <1>7, <1>8

\* What recvDone does to its own connection and to others.
LEMMA DoneEffect ==
  ASSUME IInv, NEW c \in Conns, recvDone(c), sess[c]
  PROVE  /\ conn'[c] = conn[c] /\ sess'[c] = sess[c] /\ ~active'[c]
         /\ \/ /\ phase[c] = 1 /\ phase'[c] = 2
               /\ \E n \in Nonces : nonce'[c] = n /\ out'[c] = Ping(n)
            \/ phase'[c] = phase[c] /\ nonce'[c] = nonce[c] /\ out'[c] = Nothing
         /\ \A d \in Conns : d # c => Elsewhere(d)
<1> DEFINE A == Admitted(c)
<1>1. isDone(c) /\ active' = Activate(AfterDone(c), A, TRUE) /\ UNCHANGED <<conn, sess>>
  BY DEF recvDone
<1>2. /\ c \notin A /\ ~active'[c]
      /\ \A d \in Conns : d \in A => conn[d] # "none" /\ phase[d] = 0
      /\ \A d \in Conns : d # c /\ d \notin A => active'[d] = active[d]
  BY <1>1, ReleaseEffect
<1>3. \/ /\ phase[c] = 1
         /\ phase' = [d \in Conns |-> IF d \in A THEN 1 ELSE [phase EXCEPT ![c] = 2][d]]
         /\ \E n \in Nonces :
              /\ nonce' = [nonce EXCEPT ![c] = n]
              /\ out' = [d \in Conns |-> IF d \in A THEN ServerGreeting
                                         ELSE [NoOutput EXCEPT ![c] = Ping(n)][d]]
      \/ /\ phase' = [d \in Conns |-> IF d \in A THEN 1 ELSE phase[d]]
         /\ out' = [d \in Conns |-> IF d \in A THEN ServerGreeting ELSE NoOutput[d]]
         /\ nonce' = nonce
  BY DEF recvDone, PingAfterDone, Activate
<1>4. phase \in [Conns -> 0..2] /\ nonce \in [Conns -> Nonces \cup {NoNonce}]
  BY DEF IInv, TypeOK
<1> HIDE DEF A
<1>5. \/ /\ phase[c] = 1 /\ phase'[c] = 2
         /\ \E n \in Nonces : nonce'[c] = n /\ out'[c] = Ping(n)
      \/ phase'[c] = phase[c] /\ nonce'[c] = nonce[c] /\ out'[c] = Nothing
  BY <1>2, <1>3, <1>4 DEF NoOutput
<1>6. ASSUME NEW d \in Conns, d # c
      PROVE  /\ nonce'[d] = nonce[d]
             /\ d \in A => phase'[d] = 1 /\ out'[d] = ServerGreeting
             /\ d \notin A => phase'[d] = phase[d] /\ out'[d] = Nothing
  BY <1>3, <1>4, <1>6 DEF NoOutput
<1>7. ASSUME NEW d \in Conns, d # c PROVE Elsewhere(d)
  BY <1>1, <1>2, <1>6, <1>7 DEF Elsewhere
<1> QED BY <1>1, <1>2, <1>5, <1>7

\* A call-back of c reads from c at most: Q is what it leaves unread.
LEMMA ServerStep ==
  ASSUME LInv, NEW c \in Conns, UNCHANGED <<cli, left>>,
         NEW Q \in [Conns -> Seq(Said)], \A d \in Conns : d # c => Q[d] = toServer[d],
         toServer' = [d \in Conns |-> IF conn'[d] = "none" THEN <<>> ELSE Q[d]],
         Carry(toClient),
         \A d \in Conns : d # c => Elsewhere(d),
         Fine(cli'[c], toServer'[c], toClient'[c], conn'[c], phase'[c], nonce'[c], sess'[c], active'[c])
  PROVE  LinkTyped' /\ AllFine'
<1>1. toClient' = [d \in Conns |-> IF cli'[d] # "off" /\ out'[d] # Nothing
                                     THEN Append(toClient[d], out'[d]) ELSE toClient[d]]
  BY DEF Carry
<1>2. LinkTyped'
  <2>1. <<>> \in Seq(Said)
    OBVIOUS
  <2>2. toServer' \in [Conns -> Seq(Said)]
    BY <2>1
  <2> QED BY <1>1, <2>2 DEF LInv, LinkTyped
<1>3. ServerGreeting # Nothing
  BY Words
<1>4. ASSUME NEW d \in Conns, d # c
      PROVE  Fine(cli'[d], toServer'[d], toClient'[d], conn'[d], phase'[d], nonce'[d], sess'[d], active'[d])
  <2>1. Fine(cli[d], toServer[d], toClient[d], conn[d], phase[d], nonce[d], sess[d], active[d])
    BY DEF LInv, AllFine
  <2>2. /\ conn'[d] = conn[d] /\ nonce'[d] = nonce[d] /\ sess'[d] = sess[d]
        /\ \/ conn[d] # "none" /\ phase[d] = 0 /\ phase'[d] = 1 /\ out'[d] = ServerGreeting
           \/ phase'[d] = phase[d] /\ active'[d] = active[d] /\ out'[d] = Nothing
    BY <1>4 DEF Elsewhere
  <2>3. toServer'[d] = toServer[d]
    BY <1>4, <2>1, <2>2 DEF Fine
  <2>4. CASE conn[d] # "none" /\ phase[d] = 0 /\ phase'[d] = 1 /\ out'[d] = ServerGreeting
    <3> DEFINE r == IF cli[d] # "off" THEN Append(toClient[d], ServerGreeting) ELSE toClient[d]
    <3>1. toClient'[d] = r
      BY <1>1, <1>3, <2>4
    <3>2. Fine(cli[d], toServer[d], toClient[d], conn[d], 0, nonce[d], sess[d], active[d])
      BY <2>1, <2>4
    <3>3. Fine(cli[d], toServer[d], r, conn[d], 1, nonce[d], sess[d], active'[d])
      BY <2>4, <3>2, AdmitFine
    <3> HIDE DEF r
    <3> QED BY <2>2, <2>3, <2>4, <3>1, <3>3
  <2>5. CASE phase'[d] = phase[d] /\ active'[d] = active[d] /\ out'[d] = Nothing
    <3>1. toClient'[d] = toClient[d]
      BY <1>1, <2>5
    <3> QED BY <2>1, <2>2, <2>3, <2>5, <3>1
  <2> QED BY <2>2, <2>4, <2>5
<1>5. AllFine'
  BY <1>4 DEF AllFine
<1> QED BY <1>2, <1>5

\* A step of the client c: nothing of the server moves.
LEMMA ClientStep ==
  ASSUME LInv, NEW c \in Conns, UNCHANGED vars,
         cli' \in [Conns -> Places], left' \in [Conns -> Int], toServer' \in [Conns -> Seq(Said)],
         toClient' = [d \in Conns |-> toClient'[d]],
         \A d \in Conns : d # c => cli'[d] = cli[d] /\ toServer'[d] = toServer[d] /\ toClient'[d] = toClient[d],
         Fine(cli'[c], toServer'[c], toClient'[c], conn[c], phase[c], nonce[c], sess[c], active[c])
  PROVE  LinkTyped' /\ AllFine'
<1>1. LinkTyped'
  BY DEF LinkTyped
<1>2. UNCHANGED <<conn, phase, nonce, sess, active>>
  BY DEF vars
<1>3. ASSUME NEW d \in Conns
      PROVE  Fine(cli'[d], toServer'[d], toClient'[d], conn'[d], phase'[d], nonce'[d], sess'[d], active'[d])
  <2>1. CASE d = c
    BY <1>2, <2>1
  <2>2. CASE d # c
    BY <1>2, <2>2 DEF LInv, AllFine
  <2> QED BY <2>1, <2>2
<1> QED BY <1>1, <1>3 DEF AllFine

\* The invariant, for one connection.
LEMMA ConnFacts ==
  ASSUME LInv, NEW c \in Conns
  PROVE  /\ Fine(cli[c], toServer[c], toClient[c], conn[c], phase[c], nonce[c], sess[c], active[c])
         /\ cli \in [Conns -> Places] /\ left \in [Conns -> Int] /\ toServer \in [Conns -> Seq(Said)]
         /\ toClient = [d \in Conns |-> toClient[d]]
         /\ phase[c] \in {0, 1, 2} /\ conn[c] \in {"none", "open", "closing"}
         /\ nonce[c] \in Nonces \cup {NoNonce}
<1>1. phase[c] \in 0..2 /\ conn[c] \in {"none", "open", "closing"} /\ nonce[c] \in Nonces \cup {NoNonce}
  BY DEF LInv, IInv, TypeOK
<1> QED BY <1>1 DEF LInv, AllFine, LinkTyped

\* The steps of the client, which leave the server as it is.
LEMMA ClientKeeps ==
  ASSUME LInv, NEW c \in Conns,
         ClientGreeted(c) \/ ClientUploads(c) \/ ClientDone(c) \/ ClientPong(c) \/ ClientQuits(c)
  PROVE  LinkTyped' /\ AllFine' /\ UNCHANGED vars
<1>1. /\ Fine(cli[c], toServer[c], toClient[c], conn[c], phase[c], nonce[c], sess[c], active[c])
      /\ cli \in [Conns -> Places] /\ left \in [Conns -> Int] /\ toServer \in [Conns -> Seq(Said)]
      /\ toClient = [d \in Conns |-> toClient[d]]
      /\ phase[c] \in {0, 1, 2}
  BY ConnFacts
<1>2. UNCHANGED vars
  BY DEF ClientGreeted, ClientUploads, ClientDone, ClientPong, ClientQuits
<1>3. CASE ClientGreeted(c)
  <2>1. /\ cli[c] = "hello" /\ toClient[c] # <<>> /\ cli' = [cli EXCEPT ![c] = "upload"]
        /\ left' = [left EXCEPT ![c] = Uploads] /\ toClient' = [toClient EXCEPT ![c] = Tail(@)]
        /\ toServer' = toServer
    BY <1>3 DEF ClientGreeted
  <2>2. Fine("upload", toServer[c], Tail(toClient[c]), conn[c], phase[c], nonce[c], sess[c], active[c])
    BY <1>1, <2>1, GreetedFine
  <2>3. cli' \in [Conns -> Places] /\ left' \in [Conns -> Int]
    BY <1>1, <2>1, UploadsAssumption DEF Places
  <2>4. cli'[c] = "upload" /\ toClient'[c] = Tail(toClient[c]) /\ toClient' = [d \in Conns |-> toClient'[d]]
    BY <1>1, <2>1
  <2> QED BY <1>1, <1>2, <2>1, <2>2, <2>3, <2>4, ClientStep
<1>4. ASSUME NEW t \in {"update", "done"}, NEW cl, cl = (IF t = "done" THEN "pings" ELSE "upload"),
             cli[c] = "upload", cli' = [cli EXCEPT ![c] = cl], left' \in [Conns -> Int],
             ClientWrites(c, Message(t)), toClient' = toClient
      PROVE  LinkTyped' /\ AllFine'
  <2> DEFINE q == IF conn[c] = "none" THEN toServer[c] ELSE Append(toServer[c], Message(t))
  <2>1. Fine(cl, q, toClient[c], conn[c], phase[c], nonce[c], sess[c], active[c])
    BY <1>1, <1>4, SpeakFine
  <2>2. toServer' = [toServer EXCEPT ![c] = q]
    BY <1>1, <1>4 DEF ClientWrites
  <2> HIDE DEF q
  <2>3. q \in Seq(Said) /\ cl \in Places
    BY <2>1 DEF Fine
  <2>4. cli' \in [Conns -> Places] /\ toServer' \in [Conns -> Seq(Said)] /\ cli'[c] = cl /\ toServer'[c] = q
    BY <1>1, <1>4, <2>2, <2>3
  <2> QED BY <1>1, <1>2, <1>4, <2>1, <2>2, <2>4, ClientStep
<1>5. CASE ClientUploads(c)
  <2>1. /\ cli[c] = "upload" /\ left' \in [Conns -> Int] /\ ClientWrites(c, Message("update"))
        /\ cli' = cli /\ toClient' = toClient
    BY <1>1, <1>5 DEF ClientUploads
  <2>2. cli' = [cli EXCEPT ![c] = "upload"]
    BY <1>1, <2>1
  <2> QED BY <1>2, <1>4, <2>1, <2>2
<1>6. CASE ClientDone(c)
  <2>1. /\ cli[c] = "upload" /\ left' = left /\ ClientWrites(c, Message("done"))
        /\ cli' = [cli EXCEPT ![c] = "pings"] /\ toClient' = toClient
    BY <1>6 DEF ClientDone
  <2> QED BY <1>1, <1>2, <1>4, <2>1
<1>7. CASE ClientPong(c)
  <2> DEFINE m == Pong(Head(toClient[c]).nonce)
             q == IF conn[c] = "none" THEN toServer[c] ELSE Append(toServer[c], m)
  <2>1. /\ cli[c] = "pings" /\ toClient[c] # <<>> /\ toClient' = [toClient EXCEPT ![c] = Tail(@)]
        /\ ClientWrites(c, m) /\ UNCHANGED <<cli, left>>
    BY <1>7 DEF ClientPong
  <2>2. Fine("pings", q, Tail(toClient[c]), conn[c], phase[c], nonce[c], sess[c], active[c])
    BY <1>1, <2>1, AnswerFine
  <2>3. toServer' = [toServer EXCEPT ![c] = q]
    BY <1>1, <2>1 DEF ClientWrites
  <2> HIDE DEF q, m
  <2>4. q \in Seq(Said)
    BY <2>2 DEF Fine
  <2>5. /\ toServer' \in [Conns -> Seq(Said)] /\ toServer'[c] = q
        /\ toClient'[c] = Tail(toClient[c]) /\ toClient' = [d \in Conns |-> toClient'[d]]
    BY <1>1, <2>1, <2>3, <2>4
  <2> QED BY <1>1, <1>2, <2>1, <2>2, <2>3, <2>5, ClientStep
<1>8. CASE ClientQuits(c)
  <2>1. /\ cli' = [cli EXCEPT ![c] = "off"] /\ toClient' = [toClient EXCEPT ![c] = <<>>]
        /\ UNCHANGED <<left, toServer>>
    BY <1>8 DEF ClientQuits
  <2>2. Fine("off", toServer[c], <<>>, conn[c], phase[c], nonce[c], sess[c], active[c])
    BY <1>1, QuitFine
  <2>3. /\ cli' \in [Conns -> Places] /\ cli'[c] = "off"
        /\ toClient'[c] = <<>> /\ toClient' = [d \in Conns |-> toClient'[d]]
    BY <1>1, <2>1 DEF Places
  <2> QED BY <1>1, <1>2, <2>1, <2>2, <2>3, ClientStep
<1> QED BY <1>2, <1>3, <1>5, <1>6, <1>7, <1>8

\* A client connects and greets; the server accepts or parks it.
LEMMA ConnectKeeps ==
  ASSUME LInv, NEW c \in Conns, Connect(c)
  PROVE  LinkTyped' /\ AllFine'
<1>1. /\ Fine(cli[c], toServer[c], toClient[c], conn[c], phase[c], nonce[c], sess[c], active[c])
      /\ cli \in [Conns -> Places] /\ left \in [Conns -> Int] /\ toServer \in [Conns -> Seq(Said)]
  BY ConnFacts
<1>2. conn \in [Conns -> {"none", "open", "closing"}] /\ phase \in [Conns -> 0..2]
  BY DEF LInv, IInv, TypeOK
<1> DEFINE ph == IF HasSlot THEN 1 ELSE 0
           r == IF ph = 1 THEN <<ServerGreeting>> ELSE <<>>
           q == <<Message("hello")>>
<1>3. /\ conn[c] = "none" /\ cli' = [cli EXCEPT ![c] = "hello"] /\ left' = left
      /\ toServer' = [toServer EXCEPT ![c] = q]
      /\ conn' = [conn EXCEPT ![c] = "open"] /\ phase' = [phase EXCEPT ![c] = ph]
      /\ UNCHANGED <<nonce, sess>>
  BY DEF Connect, BuildProtocol
<1>4. toClient' = [d \in Conns |->
        IF cli'[d] # "off" /\ out'[d] # Nothing THEN Append([toClient EXCEPT ![c] = <<>>][d], out'[d])
                                                ELSE [toClient EXCEPT ![c] = <<>>][d]]
  BY DEF Connect, Carry
<1>5. /\ out'[c] = (IF ph = 1 THEN ServerGreeting ELSE Nothing)
      /\ \A d \in Conns : d # c => out'[d] = Nothing
  BY DEF Connect, BuildProtocol, FirstWords, NoOutput
<1>6. \A d \in Conns : d # c => active'[d] = active[d]
  <2>1. active' = [active EXCEPT ![c] = HasSlot] /\ active \in [Conns -> BOOLEAN]
    BY DEF Connect, BuildProtocol, LInv, IInv, TypeOK
  <2> QED BY <2>1
<1>7. ServerGreeting # Nothing
  BY Words
<1>8. ph \in {0, 1} /\ ~sess[c]
  BY <1>1, <1>3 DEF Fine
<1>9. Fine("hello", q, r, "open", ph, nonce[c], sess[c], active'[c])
  BY <1>8, ConnectFine
<1>10. q \in Seq(Said)
  BY <1>9 DEF Fine
<1>11. toClient = [d \in Conns |-> toClient[d]]
  BY ConnFacts
<1>12. cli'[c] = "hello" /\ toServer'[c] = q /\ conn'[c] = "open" /\ phase'[c] = ph
  BY <1>1, <1>2, <1>3
<1> HIDE DEF q, ph
<1>13. toClient'[c] = r
  <2>1. [toClient EXCEPT ![c] = <<>>][c] = <<>>
    BY <1>11
  <2> QED BY <1>4, <1>5, <1>7, <1>8, <1>12, <2>1, AppendWord
<1> HIDE DEF r
<1>14. LinkTyped'
  <2>1. cli' \in [Conns -> Places] /\ left' \in [Conns -> Int] /\ toServer' \in [Conns -> Seq(Said)]
    BY <1>1, <1>3, <1>10 DEF Places
  <2> QED BY <1>4, <2>1 DEF LinkTyped
<1>15. ASSUME NEW d \in Conns
       PROVE  Fine(cli'[d], toServer'[d], toClient'[d], conn'[d], phase'[d], nonce'[d], sess'[d], active'[d])
  <2>1. CASE d = c
    BY <1>3, <1>9, <1>12, <1>13, <2>1
  <2>2. CASE d # c
    <3>1. toClient'[d] = toClient[d]
      BY <1>4, <1>5, <1>11, <2>2
    <3>2. /\ cli'[d] = cli[d] /\ toServer'[d] = toServer[d] /\ conn'[d] = conn[d]
          /\ phase'[d] = phase[d] /\ nonce'[d] = nonce[d] /\ sess'[d] = sess[d] /\ active'[d] = active[d]
      BY <1>1, <1>2, <1>3, <1>6, <2>2
    <3>3. Fine(cli[d], toServer[d], toClient[d], conn[d], phase[d], nonce[d], sess[d], active[d])
      BY ConnFacts
    <3> QED BY <3>1, <3>2, <3>3
  <2> QED BY <2>1, <2>2
<1> QED BY <1>14, <1>15 DEF AllFine

\* The server's end of connection c after a call-back that leaves q unread.
LEMMA ServerEnd ==
  ASSUME LInv, NEW c \in Conns, cli' = cli, Carry(toClient),
         NEW Q \in [Conns -> Seq(Said)], Unread(Q)
  PROVE  /\ cli'[c] = cli[c]
         /\ toServer'[c] = IF conn'[c] = "none" THEN <<>> ELSE Q[c]
         /\ out'[c] = Nothing => toClient'[c] = toClient[c]
         /\ \A n \in Nonces : out'[c] = Ping(n) =>
              toClient'[c] = IF cli[c] # "off" THEN Append(toClient[c], Ping(n)) ELSE toClient[c]
<1>1. \A n \in Nonces : Ping(n) # Nothing
  BY Words
<1> QED BY <1>1 DEF Carry, Unread

\* The server's call-backs that no data causes.
LEMMA UnpromptedKeeps ==
  ASSUME LInv, NEW c \in Conns, PingTimer(c) \/ Abort(c) \/ Closed(c) \/ Lost(c)
  PROVE  LinkTyped' /\ AllFine'
<1>1. /\ Fine(cli[c], toServer[c], toClient[c], conn[c], phase[c], nonce[c], sess[c], active[c])
      /\ toServer \in [Conns -> Seq(Said)]
      /\ IInv
  BY ConnFacts DEF LInv
<1>2. /\ conn \in [Conns -> {"none", "open", "closing"}] /\ phase \in [Conns -> 0..2]
      /\ nonce \in [Conns -> Nonces \cup {NoNonce}]
  BY <1>1 DEF IInv, TypeOK
<1>3. UNCHANGED <<cli, left>> /\ Carry(toClient) /\ Unread(toServer)
  BY DEF PingTimer, Abort, Closed, Lost, Unprompted
<1>4. toServer' = [d \in Conns |-> IF conn'[d] = "none" THEN <<>> ELSE toServer[d]]
  BY <1>3 DEF Unread
<1>5. /\ cli'[c] = cli[c]
      /\ toServer'[c] = IF conn'[c] = "none" THEN <<>> ELSE toServer[c]
      /\ out'[c] = Nothing => toClient'[c] = toClient[c]
      /\ \A n \in Nonces : out'[c] = Ping(n) =>
           toClient'[c] = IF cli[c] # "off" THEN Append(toClient[c], Ping(n)) ELSE toClient[c]
  BY <1>1, <1>3, ServerEnd
<1>6. SUFFICES /\ \A d \in Conns : d # c => Elsewhere(d)
               /\ Fine(cli'[c], toServer'[c], toClient'[c], conn'[c], phase'[c], nonce'[c], sess'[c], active'[c])
  BY <1>1, <1>3, <1>4, ServerStep
\* The transport is asked to close.
<1>7. ASSUME conn[c] # "none", loseConnection(c), out' = NoOutput, UNCHANGED <<active, phase, nonce, sess>>
      PROVE  /\ \A d \in Conns : d # c => Elsewhere(d)
             /\ Fine(cli'[c], toServer'[c], toClient'[c], conn'[c], phase'[c], nonce'[c], sess'[c], active'[c])
  <2>1. conn'[c] = "closing" /\ \A d \in Conns : d # c => conn'[d] = conn[d]
    BY <1>2, <1>7 DEF loseConnection
  <2>2. \A d \in Conns : out'[d] = Nothing
    BY <1>7 DEF NoOutput
  <2>3. \A d \in Conns : d # c => Elsewhere(d)
    BY <1>7, <2>1, <2>2 DEF Elsewhere
  <2>4. Fine(cli[c], toServer[c], toClient[c], "closing", phase[c], nonce[c], sess[c], active[c])
    BY <1>1, <1>7, CloseFine
  <2> QED BY <1>5, <1>7, <2>1, <2>2, <2>3, <2>4
<1>8. CASE PingTimer(c)
  <2>1. writePing(c) /\ conn[c] # "none"
    BY <1>1, <1>8 DEF PingTimer, writePing, IInv, SilentPeerNoticed
  <2>2. CASE phase[c] = 2
    <3>1. loseConnection(c) /\ out' = NoOutput /\ UNCHANGED <<active, phase, nonce, sess>>
      BY <2>1, <2>2 DEF writePing
    <3> QED BY <1>7, <2>1, <3>1
  <2>3. CASE phase[c] # 2
    <3>1. PICK n \in Nonces :
            /\ phase[c] = 1 /\ phase' = [phase EXCEPT ![c] = 2] /\ nonce' = [nonce EXCEPT ![c] = n]
            /\ out' = [NoOutput EXCEPT ![c] = Ping(n)] /\ UNCHANGED <<conn, active, sess>>
      BY <2>1, <2>3 DEF writePing
    <3>2. /\ phase'[c] = 2 /\ nonce'[c] = n /\ out'[c] = Ping(n)
          /\ \A d \in Conns : d # c => phase'[d] = phase[d] /\ nonce'[d] = nonce[d] /\ out'[d] = Nothing
      BY <1>2, <3>1 DEF NoOutput
    <3>3. \A d \in Conns : d # c => Elsewhere(d)
      BY <3>1, <3>2 DEF Elsewhere
    <3> DEFINE r == IF cli[c] # "off" THEN Append(toClient[c], Ping(n)) ELSE toClient[c]
    <3>4. Fine(cli[c], toServer[c], r, conn[c], 2, n, sess[c], active[c])
      BY <1>1, <2>1, <3>1, PingFine
    <3>5. toClient'[c] = r
      BY <1>5, <3>2
    <3> HIDE DEF r
    <3>6. toServer'[c] = toServer[c]
      BY <1>5, <2>1, <3>1
    <3> QED BY <1>5, <3>1, <3>2, <3>3, <3>4, <3>5, <3>6
  <2> QED BY <2>2, <2>3
<1>9. CASE Abort(c)
  <2>1. conn[c] # "none" /\ loseConnection(c) /\ out' = NoOutput /\ UNCHANGED <<active, phase, nonce, sess>>
    BY <1>9 DEF Abort, CommitFailed
  <2> QED BY <1>7, <2>1
<1>10. CASE Closed(c) \/ Lost(c)
  <2>1. connectionLost(c)
    BY <1>10 DEF Closed, Lost, Disconnect
  <2>2. /\ conn'[c] = "none" /\ ~sess'[c] /\ out'[c] = Nothing
        /\ \A d \in Conns : d # c => Elsewhere(d)
    BY <1>1, <2>1, LostEffect
  <2>3. Fine(cli[c], <<>>, toClient[c], "none", phase'[c], nonce'[c], sess'[c], active'[c])
    BY <1>1, <2>2, LostFine
  <2> QED BY <1>5, <2>2, <2>3
<1> QED BY <1>8, <1>9, <1>10

\* What the next word finds at the server.
LEMMA NextWord ==
  ASSUME NEW cl, NEW q, NEW r, NEW co, NEW ph, NEW no, NEW se, NEW ac,
         Fine(cl, q, r, co, ph, no, se, ac), co # "none", q # <<>>
  PROVE  /\ Head(q) \in Said /\ Head(q).type \in {"hello", "update", "done", "pong"}
         /\ Head(q).type = "hello" <=> ~se
<1>1. q \in Seq(Said) /\ Unhandled(cl, q, se, ac)
  BY DEF Fine
<1>2. Head(q) = q[1] /\ 1 \in 1..Len(q) /\ q[1] \in Said
  BY <1>1
<1>3. Head(q).type \in {"hello", "update", "done", "pong"}
  BY <1>2, Words DEF Plain
<1> QED BY <1>1, <1>2, <1>3 DEF Unhandled

\* No handler raises and no pong is refused: the session is there for an update
\* and for a done, and the nonce for a pong.
LEMMA ReceivedEffect ==
  ASSUME LInv, NEW c \in Conns, dataReceived(c)
  PROVE  LET m == Head(toServer[c]) IN
         /\ m \in Said /\ conn[c] # "none" /\ phase[c] \in {1, 2} /\ toServer[c] # <<>>
         /\ \/ m.type = "hello" /\ recvClientGreeting(c)
            \/ m.type = "update" /\ sess[c] /\ RecvSkipped(c)
            \/ m.type = "done" /\ sess[c] /\ recvDone(c)
            \/ /\ m.type = "pong" /\ nonce[c] = m.nonce /\ nonce[c] \in Nonces
               /\ recvHeader(c) /\ phase' = [phase EXCEPT ![c] = 1] /\ out' = NoOutput
               /\ UNCHANGED <<NActive, Wait, conn, active, nonce, sess>>
<1> DEFINE q == toServer[c]
           m == Head(q)
<1>1. /\ Fine(cli[c], q, toClient[c], conn[c], phase[c], nonce[c], sess[c], active[c])
      /\ phase[c] \in {0, 1, 2}
  BY ConnFacts
<1>2. q # <<>> /\ conn[c] # "none" /\ phase[c] \in {1, 2} /\ rxfn(c, m)
  BY <1>1 DEF dataReceived, Readable
<1>3. /\ m \in Said /\ m.type \in {"hello", "update", "done", "pong"}
      /\ m.type = "hello" <=> ~sess[c]
  BY <1>1, <1>2, NextWord
<1>4. ASSUME m.type = "pong" PROVE nonce[c] = m.nonce /\ nonce[c] \in Nonces
  <2>1. Head(q).type = "pong"
    BY <1>4
  <2>2. q # <<>> /\ conn[c] # "none" /\ phase[c] \in {1, 2}
    BY <1>2
  <2> HIDE DEF q
  <2>3. /\ nonce[c] = Head(q).nonce /\ nonce[c] \in Nonces /\ ~active[c]
        /\ Fine(cli[c], Tail(q), toClient[c], conn[c], 1, nonce[c], sess[c], active[c])
    BY <1>1, <2>1, <2>2, PongFine
  <2> QED BY <2>3
<1> HIDE DEF m, q
<1>5. CASE m.type = "hello"
  <2>1. recvClientGreeting(c)
    BY <1>2, <1>5 DEF rxfn
  <2> QED BY <1>2, <1>3, <1>5, <2>1 DEF m, q
<1>6. CASE m.type = "update"
  <2>1. RecvUpdate(c) /\ sess[c]
    BY <1>2, <1>3, <1>6 DEF rxfn
  <2> QED BY <1>2, <1>3, <1>6, <2>1 DEF m, q, RecvUpdate
<1>7. CASE m.type = "done"
  <2>1. recvDone(c) /\ sess[c]
    BY <1>2, <1>3, <1>7 DEF rxfn
  <2> QED BY <1>2, <1>3, <1>7, <2>1 DEF m, q
<1>8. CASE m.type = "pong"
  <2>1. recvPong(c, m.nonce)
    BY <1>2, <1>8 DEF rxfn
  <2>2. nonce[c] # NoNonce
    BY <1>4, <1>8, NoncesAssumption DEF NoNonce
  <2>3. /\ recvHeader(c) /\ phase' = [phase EXCEPT ![c] = 1] /\ out' = NoOutput
        /\ UNCHANGED <<NActive, Wait, conn, active, nonce, sess>>
    BY <1>4, <1>8, <2>1, <2>2 DEF recvPong
  <2> QED BY <1>2, <1>3, <1>4, <1>8, <2>3 DEF m, q
<1> QED BY <1>3, <1>5, <1>6, <1>7, <1>8

\* The server reads the next message.
LEMMA ReceivedKeeps ==
  ASSUME LInv, NEW c \in Conns, dataReceived(c)
  PROVE  LinkTyped' /\ AllFine'
<1> DEFINE q == toServer[c]
           m == Head(q)
           Q == [toServer EXCEPT ![c] = Tail(@)]
<1>1. /\ Fine(cli[c], q, toClient[c], conn[c], phase[c], nonce[c], sess[c], active[c])
      /\ toServer \in [Conns -> Seq(Said)]
      /\ IInv
  BY ConnFacts DEF LInv
<1>2. /\ conn \in [Conns -> {"none", "open", "closing"}] /\ phase \in [Conns -> 0..2]
      /\ nonce \in [Conns -> Nonces \cup {NoNonce}] /\ sess \in [Conns -> BOOLEAN]
  BY <1>1 DEF IInv, TypeOK
<1>3. UNCHANGED <<cli, left>> /\ Carry(toClient) /\ Unread(Q)
  BY DEF dataReceived
<1>4. /\ m \in Said /\ conn[c] # "none" /\ phase[c] \in {1, 2} /\ q # <<>>
      /\ \/ m.type = "hello" /\ recvClientGreeting(c)
         \/ m.type = "update" /\ sess[c] /\ RecvSkipped(c)
         \/ m.type = "done" /\ sess[c] /\ recvDone(c)
         \/ /\ m.type = "pong" /\ nonce[c] = m.nonce /\ nonce[c] \in Nonces
            /\ recvHeader(c) /\ phase' = [phase EXCEPT ![c] = 1] /\ out' = NoOutput
            /\ UNCHANGED <<NActive, Wait, conn, active, nonce, sess>>
  BY ReceivedEffect
<1>5. Tail(q) \in Seq(Said)
  BY <1>1, <1>4
<1>6. Q \in [Conns -> Seq(Said)] /\ Q[c] = Tail(q) /\ \A d \in Conns : d # c => Q[d] = toServer[d]
  BY <1>1, <1>5
<1> HIDE DEF Q
<1>7. toServer' = [d \in Conns |-> IF conn'[d] = "none" THEN <<>> ELSE Q[d]]
  BY <1>3 DEF Unread
<1>8. /\ cli'[c] = cli[c]
      /\ toServer'[c] = IF conn'[c] = "none" THEN <<>> ELSE Q[c]
      /\ out'[c] = Nothing => toClient'[c] = toClient[c]
      /\ \A n \in Nonces : out'[c] = Ping(n) =>
           toClient'[c] = IF cli[c] # "off" THEN Append(toClient[c], Ping(n)) ELSE toClient[c]
  BY <1>3, <1>6, ServerEnd
<1>9. SUFFICES /\ \A d \in Conns : d # c => Elsewhere(d)
               /\ Fine(cli'[c], toServer'[c], toClient'[c], conn'[c], phase'[c], nonce'[c], sess'[c], active'[c])
  BY <1>3, <1>6, <1>7, ServerStep
<1> HIDE DEF q
\* The handlers of the hello and of the updates write nothing.
<1>10. ASSUME m.type \in {"hello", "update"}, out' = NoOutput, UNCHANGED <<conn, active, phase, nonce>>,
              sess'[c], \A d \in Conns : d # c => sess'[d] = sess[d]
       PROVE  /\ \A d \in Conns : d # c => Elsewhere(d)
              /\ Fine(cli'[c], toServer'[c], toClient'[c], conn'[c], phase'[c], nonce'[c], sess'[c], active'[c])
  <2>1. \A d \in Conns : out'[d] = Nothing
    BY <1>10 DEF NoOutput
  <2>2. \A d \in Conns : d # c => Elsewhere(d)
    BY <1>10, <2>1 DEF Elsewhere
  <2>3. Fine(cli[c], Tail(q), toClient[c], conn[c], phase[c], nonce[c], sess'[c], active[c])
    <3>1. Head(q).type # "pong" /\ Head(q).type # "done"
      BY <1>10
    <3>2. q # <<>> /\ conn[c] # "none" /\ phase[c] \in {1, 2} /\ sess'[c]
      BY <1>4, <1>10
    <3>3. active[c] => active[c] /\ Head(q).type # "done"
      BY <3>1
    <3> QED BY <1>1, <3>1, <3>2, <3>3, ReadFine
  <2> QED BY <1>4, <1>6, <1>8, <1>10, <2>1, <2>2, <2>3
<1>11. CASE m.type = "hello" /\ recvClientGreeting(c)
  <2>1. out' = NoOutput /\ UNCHANGED <<conn, active, phase, nonce>> /\ sess' = [sess EXCEPT ![c] = TRUE]
    BY <1>11 DEF recvClientGreeting
  <2>2. sess'[c] = TRUE /\ \A d \in Conns : d # c => sess'[d] = sess[d]
    BY <1>2, <2>1
  <2>3. sess'[c]
    BY <2>2, Zenon
  <2> QED BY <1>10, <1>11, <2>1, <2>2, <2>3
<1>12. CASE m.type = "update" /\ sess[c] /\ RecvSkipped(c)
  <2>1. out' = NoOutput /\ UNCHANGED <<conn, active, phase, nonce, sess>>
    BY <1>12 DEF RecvSkipped
  <2> QED BY <1>10, <1>12, <2>1
<1>13. CASE m.type = "done" /\ sess[c] /\ recvDone(c)
  <2>1. /\ conn'[c] = conn[c] /\ sess'[c] = sess[c] /\ ~active'[c]
        /\ \/ /\ phase[c] = 1 /\ phase'[c] = 2
              /\ \E n \in Nonces : nonce'[c] = n /\ out'[c] = Ping(n)
           \/ phase'[c] = phase[c] /\ nonce'[c] = nonce[c] /\ out'[c] = Nothing
        /\ \A d \in Conns : d # c => Elsewhere(d)
    BY <1>1, <1>13, DoneEffect
  <2>2. Fine(cli[c], Tail(q), toClient[c], conn[c], phase[c], nonce[c], sess'[c], active'[c])
    BY <1>1, <1>4, <1>13, <2>1, ReadFine
  <2>3. toServer'[c] = Tail(q)
    BY <1>4, <1>6, <1>8, <2>1
  <2>4. CASE phase'[c] = phase[c] /\ nonce'[c] = nonce[c] /\ out'[c] = Nothing
    BY <1>8, <2>1, <2>2, <2>3, <2>4
  <2>5. ASSUME phase[c] = 1, phase'[c] = 2, NEW n \in Nonces, nonce'[c] = n, out'[c] = Ping(n)
        PROVE  Fine(cli'[c], toServer'[c], toClient'[c], conn'[c], phase'[c], nonce'[c], sess'[c], active'[c])
    <3> DEFINE r == IF cli[c] # "off" THEN Append(toClient[c], Ping(n)) ELSE toClient[c]
    <3>1. Fine(cli[c], Tail(q), toClient[c], conn[c], 1, nonce[c], sess'[c], active'[c])
      BY <2>2, <2>5
    <3>2. Fine(cli[c], Tail(q), r, conn[c], 2, n, sess'[c], active'[c])
      BY <1>4, <3>1, PingFine
    <3>3. toClient'[c] = r
      BY <1>8, <2>5
    <3> HIDE DEF r
    <3> QED BY <1>8, <2>1, <2>3, <2>5, <3>2, <3>3
  <2> QED BY <2>1, <2>4, <2>5
<1>14. CASE /\ m.type = "pong" /\ phase' = [phase EXCEPT ![c] = 1] /\ out' = NoOutput
            /\ UNCHANGED <<conn, active, nonce, sess>>
  <2>1. Fine(cli[c], Tail(q), toClient[c], conn[c], 1, nonce[c], sess[c], active[c])
    BY <1>1, <1>4, <1>14, PongFine
  <2>2. phase'[c] = 1 /\ \A d \in Conns : d # c => phase'[d] = phase[d]
    BY <1>2, <1>14
  <2>3. \A d \in Conns : out'[d] = Nothing
    BY <1>14 DEF NoOutput
  <2>4. \A d \in Conns : d # c => Elsewhere(d)
    BY <1>14, <2>2, <2>3 DEF Elsewhere
  <2>5. toServer'[c] = Tail(q)
    BY <1>4, <1>6, <1>8, <1>14
  <2> QED BY <1>8, <1>14, <2>1, <2>2, <2>3, <2>4, <2>5
<1> QED BY <1>4, <1>11, <1>12, <1>13, <1>14

-----------------------------------------------------------------------------
(* The theorems.                                                           *)

\* LInv holds at first.
LEMMA LinkInitLInv == LinkInit => LInv
<1> SUFFICES ASSUME LinkInit PROVE LInv
  OBVIOUS
<1>1. IInv
  BY InitIInv DEF LinkInit
<1>2. <<>> \in Seq(Said) /\ "off" \in Places
  BY DEF Places
<1>3. LinkTyped
  BY <1>2 DEF LinkInit, LinkTyped
<1>4. ASSUME NEW c \in Conns
      PROVE  Fine(cli[c], toServer[c], toClient[c], conn[c], phase[c], nonce[c], sess[c], active[c])
  <2>1. cli[c] = "off" /\ toServer[c] = <<>> /\ toClient[c] = <<>> /\ conn[c] = "none"
    BY DEF LinkInit, Init
  <2>2. sess[c] = FALSE
    BY DEF LinkInit, Init
  <2>3. ~sess[c]
    BY <2>2, Zenon
  <2>4. Unheard("off", <<>>)
    BY DEF Unheard
  <2> QED BY <1>2, <2>1, <2>3, <2>4 DEF Fine
<1> QED BY <1>1, <1>3, <1>4 DEF LInv, AllFine

\* A step of the composition is a step of CastReceiver, and only the messages
\* that a client of this repository can have sent arrive.
LEMMA LinkStepIsStep == LInv /\ [LinkNext]_linkVars => [Next]_vars
<1> SUFFICES ASSUME LInv, [LinkNext]_linkVars PROVE [Next]_vars
  OBVIOUS
<1>1. CASE UNCHANGED linkVars
  BY <1>1 DEF linkVars, vars
<1>2. ASSUME NEW c \in Conns, Connect(c) PROVE Next
  BY <1>2 DEF Connect, Next
<1>3. ASSUME NEW c \in Conns,
             ClientGreeted(c) \/ ClientUploads(c) \/ ClientDone(c) \/ ClientPong(c) \/ ClientQuits(c)
      PROVE  UNCHANGED vars
  BY <1>3, ClientKeeps
<1>4. ASSUME NEW c \in Conns, PingTimer(c) \/ Abort(c) \/ Closed(c) \/ Lost(c) PROVE Next
  BY <1>4 DEF PingTimer, Abort, Closed, Lost, Next
<1>5. ASSUME NEW c \in Conns, dataReceived(c) PROVE Next
  <2> DEFINE m == Head(toServer[c])
  <2>1. \/ recvClientGreeting(c) \/ (sess[c] /\ RecvSkipped(c)) \/ recvDone(c)
        \/ /\ nonce[c] = m.nonce /\ nonce[c] \in Nonces
           /\ recvHeader(c) /\ phase' = [phase EXCEPT ![c] = 1] /\ out' = NoOutput
           /\ UNCHANGED <<NActive, Wait, conn, active, nonce, sess>>
    BY <1>5, ReceivedEffect
  <2>2. recvClientGreeting(c) \/ RecvSkipped(c) \/ recvDone(c) \/ recvPong(c, nonce[c])
    BY <2>1 DEF recvPong
  <2> QED BY <2>1, <2>2 DEF Next, recvPong
<1> QED BY <1>1, <1>2, <1>3, <1>4, <1>5 DEF LinkNext

\* Every step keeps LInv.
LEMMA LinkNextLInv == LInv /\ [LinkNext]_linkVars => LInv'
<1> SUFFICES ASSUME LInv, [LinkNext]_linkVars PROVE LInv'
  OBVIOUS
<1>1. IInv'
  BY LinkStepIsStep, NextIInv DEF LInv
<1>2. CASE UNCHANGED linkVars
  <2>1. LinkTyped' /\ AllFine'
    BY <1>2 DEF linkVars, LInv, LinkTyped, AllFine
  <2> QED BY <1>1, <2>1 DEF LInv
<1>3. ASSUME NEW c \in Conns,
             \/ Connect(c) \/ ClientGreeted(c) \/ ClientUploads(c) \/ ClientDone(c)
             \/ ClientPong(c) \/ ClientQuits(c)
             \/ dataReceived(c) \/ PingTimer(c) \/ Abort(c) \/ Closed(c) \/ Lost(c)
      PROVE  LinkTyped' /\ AllFine'
  BY <1>3, ConnectKeeps, ClientKeeps, ReceivedKeeps, UnpromptedKeeps
<1>4. LinkNext => LinkTyped' /\ AllFine'
  BY <1>3 DEF LinkNext
<1> QED BY <1>1, <1>2, <1>4 DEF LInv

\* Every reachable state satisfies LInv.
LEMMA LinkInvariance == LinkSpec => []LInv
  BY LinkInitLInv, LinkNextLInv, PTL DEF LinkSpec

\* With the RecCaster client of this repository at the other end CastReceiver
\* behaves as its own specification says, so what is proved there of its slots,
\* its queue and its timers holds of the two together.
THEOREM LinkImplementsCastReceiver == LinkSpec => Spec
<1>1. LinkInit => Init
  BY DEF LinkInit
<1> QED BY <1>1, LinkInvariance, LinkStepIsStep, PTL DEF LinkSpec, Spec

\* InFlight counts the messages of one type.
LEMMA InFlightIs ==
  ASSUME NEW s, NEW t, NEW x
  PROVE  x \in InFlight(s, t) <=> \E i \in 1..Len(s) : x = <<i, s[i]>> /\ s[i].type = t
  BY DEF InFlight

\* The pings and pongs of one connection.
PingOrPong(q, r) == InFlight(r, "ping") \cup InFlight(q, "pong")

AsPhaseSays(q, r, ph, no) ==
  /\ ph = 2 => \E x : PingOrPong(q, r) = {x} /\ x[2].nonce = no
  /\ ph # 2 => PingOrPong(q, r) = {}

\* A connection that is fine has at most one ping, or its pong, in flight.
LEMMA OneOut ==
  ASSUME NEW cl, NEW q, NEW r, NEW co, NEW ph \in {0, 1, 2}, NEW no, NEW se, NEW ac,
         Fine(cl, q, r, co, ph, no, se, ac), cl # "off", co # "none"
  PROVE  AsPhaseSays(q, r, ph, no)
<1> DEFINE O == PingOrPong(q, r)
<1>1. /\ Unhandled(cl, q, se, ac) /\ (ph = 0 => Parked(cl, q, r)) /\ cl \in {"hello", "upload", "pings"}
      /\ (ph = 1 => NonePinged(cl, q, r)) /\ (ph = 2 => Pinged(cl, q, r, no)) /\ q \in Seq(Said)
  BY DEF Fine, Places
<1>2. \A x : x \in O <=> \/ \E i \in 1..Len(r) : x = <<i, r[i]>> /\ r[i].type = "ping"
                         \/ \E i \in 1..Len(q) : x = <<i, q[i]>> /\ q[i].type = "pong"
  BY InFlightIs DEF PingOrPong
<1> SUFFICES (ph = 2 => \E x : O = {x} /\ x[2].nonce = no) /\ (ph # 2 => O = {})
  BY DEF AsPhaseSays
<1> HIDE DEF O
<1>3. CASE ph = 0
  <2>1. r = <<>> /\ q = <<Message("hello")>> /\ Message("hello").type = "hello"
    BY <1>1, <1>3, Words DEF Parked, Plain
  <2>2. Len(r) = 0 /\ Len(q) = 1 /\ q[1].type = "hello"
    BY <2>1
  <2> QED BY <1>2, <1>3, <2>2
<1>4. CASE ph = 1
  <2>1. NonePinged(cl, q, r)
    BY <1>1, <1>4
  <2>2. \A i \in 1..Len(r) : r[i].type # "ping"
    <3>1. r = <<>> \/ r = <<ServerGreeting>>
      BY <1>1, <2>1 DEF NonePinged
    <3> QED BY <3>1, Words
  <2>3. O = {}
    BY <1>2, <2>1, <2>2 DEF NonePinged
  <2> QED BY <1>4, <2>3
<1>5. CASE ph = 2
  <2>1. Pinged(cl, q, r, no) /\ no \in Nonces
    BY <1>1, <1>5 DEF Pinged
  <2>2. CASE r # <<>>
    <3>1. \A i \in 1..Len(q) : q[i].type # "pong"
      BY <2>1, <2>2 DEF Pinged
    <3>2. r = <<Ping(no)>> \/ r = <<ServerGreeting, Ping(no)>>
      BY <1>1, <2>1, <2>2 DEF Pinged
    <3>3. PICK j \in 1..Len(r) : r[j] = Ping(no) /\ \A i \in 1..Len(r) : r[i].type = "ping" => i = j
      BY <2>1, <3>2, Words
    <3>4. Ping(no).type = "ping" /\ Ping(no).nonce = no
      BY <2>1, Words
    <3>5. O = {<<j, r[j]>>}
      BY <1>2, <3>1, <3>3, <3>4
    <3>6. <<j, r[j]>>[2].nonce = no
      BY <3>3, <3>4
    <3> QED BY <1>5, <3>5, <3>6
  <2>3. CASE r = <<>>
    <3>1. cl = "pings" /\ \E k \in 1..Len(q) : q[k].type = "pong"
      BY <1>1, <2>1, <2>3, Shapes DEF Pinged
    <3>2. PICK k \in 1..Len(q) : q[k].type = "pong"
      BY <3>1
    <3>3. k = Len(q) /\ \A i \in 1..Len(q) : q[i].type = "pong" => i = k
      BY <1>1, <3>2 DEF Unhandled
    <3>4. O = {<<k, q[k]>>}
      <4>1. Len(r) = 0
        BY <2>3
      <4> QED BY <1>2, <3>2, <3>3, <4>1
    <3>5. <<k, q[k]>>[2].nonce = no
      BY <2>1, <3>2 DEF Pinged
    <3> QED BY <1>5, <3>4, <3>5
  <2> QED BY <2>2, <2>3
<1> QED BY <1>3, <1>4, <1>5

\* phase tells whether a ping is out: while both ends are there phase 2 means
\* exactly one ping or pong under way, with the nonce that recvPong compares, and
\* any other phase none, whatever writePing, recvDone and the client do.
THEOREM AtMostOnePingIsOut == LinkSpec => []OnePingOut
<1>1. LInv => OnePingOut
  <2> SUFFICES ASSUME LInv, NEW c \in Conns, cli[c] # "off", conn[c] # "none"
               PROVE  /\ Cardinality(Outstanding(c)) = IF phase[c] = 2 THEN 1 ELSE 0
                      /\ \A m \in Outstanding(c) : m[2].nonce = nonce[c]
    BY DEF OnePingOut
  <2> DEFINE O == Outstanding(c)
  <2>1. O = PingOrPong(toServer[c], toClient[c])
    BY DEF Outstanding, PingOrPong
  <2>2. /\ Fine(cli[c], toServer[c], toClient[c], conn[c], phase[c], nonce[c], sess[c], active[c])
        /\ phase[c] \in {0, 1, 2}
    BY ConnFacts
  <2> HIDE DEF O
  <2>3. (phase[c] = 2 => \E x : O = {x} /\ x[2].nonce = nonce[c]) /\ (phase[c] # 2 => O = {})
    <3>1. AsPhaseSays(toServer[c], toClient[c], phase[c], nonce[c])
      BY <2>2, OneOut
    <3> QED BY <2>1, <3>1 DEF AsPhaseSays
  <2>4. CASE phase[c] = 2
    <3>1. PICK x : O = {x} /\ x[2].nonce = nonce[c]
      BY <2>3, <2>4
    <3>2. Cardinality(O) = 1
      BY <3>1, FS_Singleton
    <3> QED BY <2>4, <3>1, <3>2 DEF O
  <2>5. CASE phase[c] # 2
    <3>1. O = {} /\ Cardinality(O) = 0
      BY <2>3, <2>5, FS_EmptySet
    <3> QED BY <2>5, <3>1 DEF O
  <2> QED BY <2>4, <2>5
<1> QED BY <1>1, LinkInvariance, PTL

\* rxfn never calls a handler too early: the session exists before the first
\* update or Done is handled, self.nonce before the first pong, and that nonce is
\* the one the pong brings.
THEOREM NoHandlerRaises == LinkSpec => []HandlersFindTheirState
<1>1. LInv => HandlersFindTheirState
  <2> SUFFICES ASSUME LInv, NEW c \in Conns, conn[c] # "none", toServer[c] # <<>>
               PROVE  CASE Head(toServer[c]).type = "hello" -> ~sess[c]
                        [] Head(toServer[c]).type \in {"update", "done"} -> sess[c]
                        [] Head(toServer[c]).type = "pong" ->
                             nonce[c] = Head(toServer[c]).nonce /\ ~active[c]
    BY DEF HandlersFindTheirState
  <2> DEFINE q == toServer[c]
  <2>1. /\ Fine(cli[c], q, toClient[c], conn[c], phase[c], nonce[c], sess[c], active[c])
        /\ phase[c] \in {0, 1, 2}
    BY ConnFacts
  <2>2. /\ Head(q).type \in {"hello", "update", "done", "pong"}
        /\ Head(q).type = "hello" <=> ~sess[c]
    BY <2>1, NextWord
  <2>3. ASSUME Head(q).type = "pong" PROVE nonce[c] = Head(q).nonce /\ ~active[c]
    <3>1. phase[c] # 0
      <4>1. phase[c] = 0 => q = <<Message("hello")>>
        BY <2>1 DEF Fine, Parked
      <4>2. Message("hello").type = "hello"
        BY Words DEF Plain
      <4> QED BY <2>3, <4>1, <4>2, Shapes
    <3>2. q # <<>> /\ conn[c] # "none" /\ phase[c] \in {1, 2}
      BY <2>1, <3>1
    <3> HIDE DEF q
    <3>3. /\ nonce[c] = Head(q).nonce /\ nonce[c] \in Nonces /\ ~active[c]
          /\ Fine(cli[c], Tail(q), toClient[c], conn[c], 1, nonce[c], sess[c], active[c])
      BY <2>1, <2>3, <3>2, PongFine
    <3> QED BY <3>3
  <2> HIDE DEF q
  <2>4. CASE Head(q).type = "hello"
    BY <2>2, <2>4 DEF q
  <2>5. CASE Head(q).type \in {"update", "done"}
    BY <2>2, <2>5 DEF q
  <2>6. CASE Head(q).type = "pong"
    BY <2>3, <2>6 DEF q
  <2> QED BY <2>2, <2>4, <2>5, <2>6
<1> QED BY <1>1, LinkInvariance, PTL

\* The client never reads a first message that is not the greeting, and never a
\* second greeting: a ping follows the greeting also on a connection that was
\* parked in between.
THEOREM TheGreetingComesFirst == LinkSpec => []GreetingFirst
<1>1. LInv => GreetingFirst
  <2> SUFFICES ASSUME LInv, NEW c \in Conns, NEW i \in 1..Len(toClient[c])
               PROVE  (toClient[c][i].type = "greeting") <=> (cli[c] = "hello" /\ i = 1)
    BY DEF GreetingFirst
  <2> DEFINE r == toClient[c]
  <2>1. Unheard(cli[c], r) /\ cli[c] \in {"off", "hello", "upload", "pings"}
    BY ConnFacts DEF Fine, Places
  <2>2. i \in 1..Len(r)
    OBVIOUS
  <2> HIDE DEF r
  <2>3. \/ r = <<>>
        \/ cli[c] = "hello" /\ r = <<ServerGreeting>>
        \/ cli[c] = "hello" /\ \E n \in Nonces : r = <<ServerGreeting, Ping(n)>>
        \/ cli[c] # "hello" /\ \E n \in Nonces : r = <<Ping(n)>>
    BY <2>1 DEF Unheard
  <2>4. r[i].type = "greeting" <=> cli[c] = "hello" /\ i = 1
    BY <2>2, <2>3, Words
  <2> QED BY <2>4 DEF r
<1> QED BY <1>1, LinkInvariance, PTL
=============================================================================
