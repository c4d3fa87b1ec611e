-------------------------------- MODULE Wire --------------------------------
(***************************************************************************)
(* One upload on the wire: casterPushPDB (client/castApp/src/dbcb.c) and   *)
(* the send functions of caster.c at one end, the frames of CastReceiver   *)
(* (recast.py) and the codec (protocol/messages.py) at the other.          *)
(*                                                                         *)
(* The stream is a sequence of units: a header, the fixed part of a body,  *)
(* or one byte of text.  A send that fails leaves any part of its message  *)
(* in the stream.  The lengths of the texts are carried in fields of 8 and *)
(* 16 bits, here numbers below KeyMod and ValMod, which RecCaster does not *)
(* check; the length of the body has 32 bits and is right.                 *)
(***************************************************************************)
EXTENDS Integers, SequencesExt

CONSTANTS
  Plan,      \* what there is to send, in the order of casterPushPDB
  KeyLens,   \* lengths of a record type or of an info's name
  ValLens,   \* lengths of a record's name or of an info's value
  KeyMod, ValMod,
  MaxOdd     \* bound: items that are not short texts in UTF-8

Kinds == {"env", "record", "alias", "info", "recordDesc"}
ASSUME PlanAssumption == Plan \in Seq([kind : Kinds, rec : Nat])
ASSUME LengthsAssumption ==
  /\ KeyLens \cup ValLens \subseteq Nat \ {0}   \* empty values are not sent
  /\ {KeyMod, ValMod} \subseteq Nat \ {0, 1}
  /\ MaxOdd \in Nat

VARIABLES
  pc,       \* the item of Plan the client is at; Quit when it has given up
  sent,     \* the client's sends: the message, and how much of it went out
  stream,   \* what the server has not read
  want,     \* the state of StatefulProtocol: what is read next
  handled,  \* the updates that the server's handlers have accepted
  done,     \* Upload Done was handled
  srv       \* the server's end: "open" or "closing"

vars == <<pc, sent, stream, want, handled, done, srv>>

Quit == 0
AllSent == Len(Plan) + 1
Header == [id |-> "header", len |-> 1]

Init ==
  /\ pc = 1
  /\ sent = <<>>
  /\ stream = <<>>
  /\ want = Header
  /\ handled = <<>>
  /\ done = FALSE
  /\ srv = "open"

-----------------------------------------------------------------------------
(* The client.                                                             *)

\* The contents of item i: the lengths of its texts, and whether they are UTF-8.
\* An alias has no record type.
Items(i) ==
  [n : {i}, kind : {Plan[i].kind},
   kl : IF Plan[i].kind = "alias" THEN {0} ELSE KeyLens, vl : ValLens, utf8 : BOOLEAN]

Odd(m) == m.kl > 1 \/ m.vl > 1 \/ ~m.utf8
WithinBound(m) == Odd(m) => Len(SelectSeq(sent, LAMBDA x : Odd(x.msg))) < MaxOdd

MsgId(m) ==
  CASE m.kind \in {"record", "alias"} -> "add"
    [] m.kind \in {"env", "info", "recordDesc"} -> "info"
    [] m.kind = "done" -> "done"

\* casterSendRA, casterSendInfo: the header, the fixed part, and the two texts.
\* The record's id is not modelled; n stands for it.
frame(m) ==
  <<[t |-> "head", id |-> MsgId(m), len |-> 1 + m.kl + m.vl],
    [t |-> "fixed", n |-> m.n, kl |-> m.kl % KeyMod, vl |-> m.vl % ValMod]>>
  \o [j \in 1..m.kl |-> [t |-> "key", n |-> m.n, utf8 |-> m.utf8]]
  \o [j \in 1..m.vl |-> [t |-> "val", n |-> m.n, utf8 |-> m.utf8]]

Done == [n |-> AllSent, kind |-> "done", kl |-> 0, vl |-> 0, utf8 |-> TRUE]

\* The sends of one message, of which k units go out before one of them fails.
shSendAll(m, k) ==
  /\ sent' = Append(sent, [msg |-> m, whole |-> k = Len(frame(m))])
  /\ stream' = IF srv = "open" THEN stream \o SubSeq(frame(m), 1, k) ELSE stream

\* Where pushEnv, pushRecord and casterPushPDB go on.  After a failure the
\* upload ends, except that pushRecord sends the recordDesc of the same record
\* all the same and returns the result of that.
AfterItem(i, ok) ==
  LET descs == {j \in i + 1..Len(Plan) :
                  Plan[j].kind = "recordDesc" /\ Plan[j].rec = Plan[i].rec}
  IN IF ok THEN i + 1
     ELSE IF Plan[i].kind \in {"alias", "info"} /\ descs # {} THEN CHOOSE j \in descs : TRUE
     ELSE Quit

casterPushPDB ==
  /\ pc \in DOMAIN Plan
  /\ \E m \in Items(pc), k \in 0..2 + Max(KeyLens) + Max(ValLens) :
       /\ WithinBound(m)
       /\ k <= Len(frame(m))
       /\ shSendAll(m, k)
       /\ pc' = AfterItem(pc, k = Len(frame(m)))
  /\ UNCHANGED <<want, handled, done, srv>>

\* "All done".
SendDone ==
  /\ pc = AllSent
  /\ \E k \in 0..2 : shSendAll(Done, k)
  /\ pc' = Quit   \* nothing more is sent
  /\ UNCHANGED <<want, handled, done, srv>>

-----------------------------------------------------------------------------
(* The codec.                                                              *)

\* Fault: a body may be longer than its texts, as README.md asks.
require_length_AtLeast(text, n) == Len(text) >= n

\* _require_length, exact.
require_length(text, n) == Len(text) = n

\* Fault: an alias has to name a record type.
validate_record_lengths_Type(kind, kl, vl) == vl # 0 /\ kl # 0

\* _validate_record_lengths
validate_record_lengths(kind, kl, vl) == vl # 0 /\ (kl = 0 <=> kind = "alias")

\* AddRecord.decode and AddInfo.decode: what does not raise ProtocolError.  The
\* first unit of a body that is not a fixed part is a header read as one: the
\* first byte of a body length, taken for a length, is 0, which both refuse.
Decodes(id, body) ==
  LET f == Head(body) IN
  /\ f.t = "fixed"
  /\ IF id = "add" THEN validate_record_lengths(Plan[f.n].kind, f.kl, f.vl)
                   ELSE f.kl # 0
  /\ require_length(Tail(body), f.kl + f.vl)

\* bytes.decode raises UnicodeDecodeError, which no handler catches.
IsUTF8(body) == \A u \in ToSet(Tail(body)) : u.t \in {"key", "val"} => u.utf8

Decoded(body) ==
  LET f == Head(body) IN
  [n |-> f.n, key |-> SubSeq(Tail(body), 1, f.kl),
              val |-> SubSeq(Tail(body), f.kl + 1, Len(body) - 1)]

-----------------------------------------------------------------------------
(* The server.                                                             *)

Reads(n) == stream' = SubSeq(stream, n + 1, Len(stream))
Ready(id) == srv = "open" /\ want.id = id /\ Len(stream) >= want.len
Body == SubSeq(stream, 1, want.len)

\* A header with a foreign protocol id ends the connection.
recvHeader ==
  /\ Ready("header")
  /\ Reads(1)
  /\ IF Head(stream).t = "head"
       THEN want' = [id |-> Head(stream).id, len |-> Head(stream).len] /\ UNCHANGED srv
       ELSE srv' = "closing" /\ UNCHANGED want
  /\ UNCHANGED <<pc, sent, handled, done>>

\* recvAddRec, recvInfo: what cannot be decoded is ignored.
recvUpdate(id) ==
  /\ Ready(id)
  /\ Reads(want.len)
  /\ want' = Header
  /\ \/ ~Decodes(id, Body) /\ UNCHANGED <<handled, srv>>
     \/ Decodes(id, Body) /\ IsUTF8(Body)
        /\ handled' = Append(handled, Decoded(Body)) /\ UNCHANGED srv
     \/ Decodes(id, Body) /\ ~IsUTF8(Body) /\ srv' = "closing" /\ UNCHANGED handled
  /\ UNCHANGED <<pc, sent, done>>

recvDone ==
  /\ Ready("done")
  /\ Reads(want.len)
  /\ want' = Header
  /\ done' = TRUE
  /\ UNCHANGED <<pc, sent, handled, srv>>

Next ==
  \/ casterPushPDB \/ SendDone
  \/ recvHeader \/ recvUpdate("add") \/ recvUpdate("info") \/ recvDone

Spec == Init /\ [][Next]_vars

-----------------------------------------------------------------------------
(* Properties.                                                             *)

\* README: "The TCP data stream will consist of a sequence of messages having
\* an 8 byte header followed by a variable length body."  Only the last message
\* that the client sends may be cut short.
StreamIsMessages == \A k \in 1..Len(sent) - 1 : sent[k].whole

\* What the handlers have to be given for message m.
Faithful(m) ==
  [n |-> m.n,
   key |-> [j \in 1..m.kl |-> [t |-> "key", n |-> m.n, utf8 |-> TRUE]],
   val |-> [j \in 1..m.vl |-> [t |-> "val", n |-> m.n, utf8 |-> TRUE]]]
Fits(m) == m.kl < KeyMod /\ m.vl < ValMod
Given(updates, m) ==
  IF Fits(m) /\ m.kind # "done" THEN Append(updates, Faithful(m)) ELSE updates

\* What they have to be given in all, after each send of a log and after the last.
Expectations(log) ==
  LET exp[k \in 0..Len(log)] ==
        IF k = 0 THEN <<>> ELSE Given(exp[k - 1], log[k].msg)
  IN exp

Expected == Expectations(sent)[Len(sent)]

\* No update is misread, as long as the client stops at its first failed send:
\* a name whose length does not fit its field is never taken for a shorter one,
\* half a message at the end of the stream is not handled, and updates are
\* handled in the order they were sent.
DecodedIsSent == StreamIsMessages => IsPrefix(handled, Expected)

\* Done means all, as long as the client stops at its first failed send: when
\* Done is handled, every item was sent and every one whose lengths fit handled.
DoneMeansAll == StreamIsMessages /\ done => handled = Expected /\ Len(sent) = AllSent
=============================================================================
