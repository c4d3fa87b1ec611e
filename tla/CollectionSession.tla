------------------------- MODULE CollectionSession --------------------------
(***************************************************************************)
(* One CollectionSession (server/recceiver/recast.py): how the messages of *)
(* an IOC become transactions, and in which order these are committed.     *)
(*                                                                         *)
(* The stream is the one RecCaster writes (client/castApp/src/dbcb.c):     *)
(* IOC-level infos, then each record followed by its aliases and its infos,*)
(* then Done.  Record deletions, which the protocol and the session know   *)
(* and RecCaster does not send, come between records.  A record, an alias  *)
(* or an info is abstracted to the id of its record.                       *)
(***************************************************************************)
EXTENDS Integers, SequencesExt

CONSTANTS
  RecIds,    \* record ids, given out once each and in order by nextRecID
  EnvKeys,   \* names of IOC-level infos
  trlimit,   \* commitSizeLimit; 0 is no limit
  MaxTxns    \* bound: transactions of one session

ASSUME RecIdsAssumption == RecIds \subseteq Nat \ {0}   \* id 0 addresses the IOC
ASSUME TrlimitAssumption == trlimit \in Nat
ASSUME MaxTxnsAssumption == MaxTxns \in Nat \ {0}

VARIABLES
  transaction,  \* the transaction being filled
  dirty,
  deadline,     \* _flush_deadline: "none", "ahead", or "passed"
  chain,        \* _commit_chain: the head is being committed, the rest waits
  committed,    \* the commits that ended, however they ended
  link,         \* the connection: "open", "closing" after abort, "lost"
  cur,          \* the record whose aliases and infos are being sent
  said          \* what the client has said so far

vars == <<transaction, dirty, deadline, chain, committed, link, cur, said>>

NoRec == 0
Blank == [adds |-> {}, aliases |-> {}, infos |-> {}, dels |-> {}, env |-> {},
          initial |-> FALSE, connected |-> TRUE]
Silence == [recs |-> {}, aliases |-> {}, infos |-> {}, env |-> {}, ids |-> {}]

TxnType == [adds : SUBSET RecIds, aliases : SUBSET RecIds, infos : SUBSET RecIds,
            dels : SUBSET RecIds, env : SUBSET EnvKeys,
            initial : BOOLEAN, connected : BOOLEAN]

TypeOK ==
  /\ transaction \in TxnType
  /\ dirty \in BOOLEAN
  /\ deadline \in {"none", "ahead", "passed"}
  /\ chain \in Seq(TxnType)
  /\ committed \in Seq(TxnType)
  /\ link \in {"open", "closing", "lost"}
  /\ cur \in RecIds \cup {NoRec}

Init ==
  /\ transaction = [Blank EXCEPT !.initial = TRUE]
  /\ dirty = FALSE
  /\ deadline = "none"
  /\ chain = <<>>
  /\ committed = <<>>
  /\ link = "open"
  /\ cur = NoRec
  /\ said = Silence

-----------------------------------------------------------------------------
(* Flushing.                                                               *)

\* Fault: every transaction of the session counts as the initial one.
Flushed_StaysInitial == [txn |-> [Blank EXCEPT !.env = transaction.env,
                                               !.initial = transaction.initial],
                         chain |-> Append(chain, transaction)]

\* Fault: the next transaction does not know the IOC-level infos.
Flushed_NoEnv == [txn |-> Blank, chain |-> Append(chain, transaction)]

\* flush: the next transaction starts with the IOC-level infos of this one.
Flushed == [txn |-> [Blank EXCEPT !.env = transaction.env],
            chain |-> Append(chain, transaction)]
AsIs == [txn |-> transaction, chain |-> chain]

\* flush does nothing when there is nothing new.
flush == IF dirty THEN Flushed ELSE AsIs

\* Fault: the limit is noticed one record late.
TooBig_OffByOne ==
  /\ trlimit # 0
  /\ trlimit < Cardinality(transaction.adds) + Cardinality(transaction.dels)

TooBig ==
  /\ trlimit # 0
  /\ trlimit <= Cardinality(transaction.adds) + Cardinality(transaction.dels)

\* flush_safely runs only where a record begins or is deleted.
flush_safely == IF deadline = "passed" \/ TooBig THEN flush ELSE AsIs

\* mark_dirty, after a flush_safely that did, or did not, clear the deadline.
mark_dirty(cleared) ==
  /\ dirty' = TRUE
  /\ deadline' = IF cleared \/ deadline = "none" THEN "ahead" ELSE deadline

-----------------------------------------------------------------------------
(* The messages.                                                           *)

Receiving == link # "lost" /\ Len(committed) + Len(chain) < MaxTxns - 1

ioc_info(k) ==
  /\ Receiving
  /\ transaction' = [transaction EXCEPT !.env = @ \cup {k}]
  /\ mark_dirty(FALSE)
  /\ said' = [said EXCEPT !.env = @ \cup {k}]
  /\ UNCHANGED <<chain, committed, link, cur>>

\* Fault: the aliases and infos go to the next id.
add_record_NextId(r) ==
  /\ Receiving
  /\ r \notin said.ids /\ \A q \in RecIds : q < r => q \in said.ids
  /\ transaction' = [flush_safely.txn EXCEPT !.adds = @ \cup {r}]
  /\ chain' = flush_safely.chain
  /\ mark_dirty(deadline = "passed" \/ TooBig)
  /\ cur' = r + 1
  /\ said' = [said EXCEPT !.recs = @ \cup {r}, !.ids = @ \cup {r}]
  /\ UNCHANGED <<committed, link>>

add_record(r) ==
  /\ Receiving
  /\ r \notin said.ids /\ \A q \in RecIds : q < r => q \in said.ids
  /\ transaction' = [flush_safely.txn EXCEPT !.adds = @ \cup {r}]
  /\ chain' = flush_safely.chain
  /\ mark_dirty(deadline = "passed" \/ TooBig)
  /\ cur' = r
  /\ said' = [said EXCEPT !.recs = @ \cup {r}, !.ids = @ \cup {r}]
  /\ UNCHANGED <<committed, link>>

add_alias ==
  /\ Receiving
  /\ cur # NoRec
  /\ transaction' = [transaction EXCEPT !.aliases = @ \cup {cur}]
  /\ mark_dirty(FALSE)
  /\ said' = [said EXCEPT !.aliases = @ \cup {cur}]
  /\ UNCHANGED <<chain, committed, link, cur>>

\* Fault: an info may flush, like a record.
rec_info_Flushes ==
  /\ Receiving
  /\ cur # NoRec
  /\ transaction' = [flush_safely.txn EXCEPT !.infos = @ \cup {cur}]
  /\ chain' = flush_safely.chain
  /\ mark_dirty(deadline = "passed" \/ TooBig)
  /\ said' = [said EXCEPT !.infos = @ \cup {cur}]
  /\ UNCHANGED <<committed, link, cur>>

rec_info ==
  /\ Receiving
  /\ cur # NoRec
  /\ transaction' = [transaction EXCEPT !.infos = @ \cup {cur}]
  /\ mark_dirty(FALSE)
  /\ said' = [said EXCEPT !.infos = @ \cup {cur}]
  /\ UNCHANGED <<chain, committed, link, cur>>

\* Fault: a record added and deleted in one transaction stays among the added.
del_record_KeepsAdd(r) ==
  /\ Receiving
  /\ r \in said.recs
  /\ transaction' = [flush_safely.txn EXCEPT !.dels = @ \cup {r}]
  /\ chain' = flush_safely.chain
  /\ mark_dirty(deadline = "passed" \/ TooBig)
  /\ cur' = NoRec
  /\ said' = [said EXCEPT !.recs = @ \ {r}, !.aliases = @ \ {r}, !.infos = @ \ {r}]
  /\ UNCHANGED <<committed, link>>

\* del_record leaves the aliases of the record in the transaction.
del_record(r) ==
  /\ Receiving
  /\ r \in said.recs
  /\ transaction' = [flush_safely.txn EXCEPT !.adds = @ \ {r}, !.infos = @ \ {r},
                                             !.dels = @ \cup {r}]
  /\ chain' = flush_safely.chain
  /\ mark_dirty(deadline = "passed" \/ TooBig)
  /\ cur' = NoRec
  /\ said' = [said EXCEPT !.recs = @ \ {r}, !.aliases = @ \ {r}, !.infos = @ \ {r}]
  /\ UNCHANGED <<committed, link>>

done ==
  /\ Receiving
  /\ transaction' = flush.txn
  /\ chain' = flush.chain
  /\ dirty' = FALSE
  /\ deadline' = "none"
  /\ cur' = NoRec
  /\ UNCHANGED <<committed, link, said>>

\* Fault: close cancels the commits under way.
close_Cancels ==
  /\ link # "lost"
  /\ link' = "lost"
  /\ chain' = <<[Blank EXCEPT !.connected = FALSE]>>
  /\ transaction' = Blank
  /\ dirty' = FALSE
  /\ deadline' = "none"
  /\ cur' = NoRec
  /\ UNCHANGED <<committed, said>>

\* close, from connectionLost: what was not flushed is dropped, commits under
\* way are not cancelled, and the disconnect queues up behind them.
close ==
  /\ link # "lost"
  /\ link' = "lost"
  /\ chain' = Append(chain, [Blank EXCEPT !.connected = FALSE])
  /\ transaction' = Blank
  /\ dirty' = FALSE
  /\ deadline' = "none"
  /\ cur' = NoRec
  /\ UNCHANGED <<committed, said>>

-----------------------------------------------------------------------------
(* Time, and the commits.                                                  *)

DeadlinePasses ==
  /\ deadline = "ahead"
  /\ deadline' = "passed"
  /\ UNCHANGED <<transaction, dirty, chain, committed, link, cur, said>>

\* The commit under way ends and the next in the chain starts.
NextCommit ==
  /\ chain # <<>>
  /\ committed' = Append(committed, Head(chain))
  /\ chain' = Tail(chain)
  /\ UNCHANGED <<transaction, dirty, deadline, cur, said>>

\* It succeeds or is cancelled: nothing else happens.
CommitEnds == NextCommit /\ UNCHANGED link

\* Fault: the error skips the commits behind it.
CommitFails_EndsChain ==
  /\ chain # <<>>
  /\ committed' = Append(committed, Head(chain))
  /\ chain' = <<>>
  /\ link' = IF link = "lost" THEN "lost" ELSE "closing"
  /\ UNCHANGED <<transaction, dirty, deadline, cur, said>>

\* It fails: abort closes the connection, and the chain goes on.
CommitFails ==
  /\ NextCommit
  /\ link' = IF link = "lost" THEN "lost" ELSE "closing"

Next ==
  \/ \E k \in EnvKeys : ioc_info(k)
  \/ \E r \in RecIds : add_record(r) \/ del_record(r)
  \/ add_alias \/ rec_info \/ done
  \/ close
  \/ DeadlinePasses
  \/ CommitEnds \/ CommitFails

Spec == Init /\ [][Next]_vars

\* Commits end, and a connection that abort gave up is closed by the transport.
Fairness == WF_vars(CommitEnds \/ CommitFails) /\ WF_vars(link = "closing" /\ close)
FairSpec == Spec /\ Fairness

-----------------------------------------------------------------------------
(* Properties.                                                             *)

\* The transactions handed over so far, in order.
Log == committed \o chain

\* "Flushes must NOT occur at arbitrary points": no transaction carries an info
\* or an alias of a record that it does not itself add (or delete again).
NothingSplit ==
  \A t \in ToSet(Append(Log, transaction)) :
    t.infos \subseteq t.adds /\ t.aliases \subseteq t.adds \cup t.dels

\* What a processor knows after transaction t: deletions and re-creations first,
\* then the additions; infos and aliases only of records the transaction adds.
Apply(v, t) ==
  LET old == v.recs \ (t.dels \cup t.adds) IN
  [recs    |-> old \cup t.adds,
   aliases |-> (v.aliases \cap old) \cup (t.aliases \cap t.adds),
   infos   |-> (v.infos \cap old) \cup (t.infos \cap t.adds)]

\* What it knows after each of the transactions of a log, and after the last.
Views(log) ==
  LET view[k \in 0..Len(log)] ==
        IF k = 0 THEN [recs |-> {}, aliases |-> {}, infos |-> {}]
                 ELSE Apply(view[k - 1], log[k])
  IN view

Replay(log) == Views(log)[Len(log)]

\* The transactions, applied in order, give exactly the records the IOC has
\* announced, with their aliases and infos; after Done nothing is held back.
NothingLost ==
  link # "lost" =>
    LET v == Replay(Append(Log, transaction)) IN
    /\ v = [recs |-> said.recs, aliases |-> said.aliases, infos |-> said.infos]
    /\ transaction.env = said.env
    /\ ~dirty => Replay(Log) = v

\* The first transaction of a session, and no other, is the initial one, and the
\* disconnect, once the connection is lost, is there once and at the end.
InitialFirstDisconnectLast ==
  /\ \A k \in 1..Len(Log) :
       /\ Log[k].initial <=> (k = 1 /\ Log[k].connected)
       /\ ~Log[k].connected <=> (k = Len(Log) /\ link = "lost")
  /\ link # "lost" => (transaction.initial <=> Log = <<>>)

\* A later transaction knows every IOC-level info an earlier one knew: the
\* processors take the IOC's name from each transaction anew.
EnvCarriedOn ==
  \A k, l \in 1..Len(Log) :
    k < l /\ Log[l].connected => Log[k].env \subseteq Log[l].env

\* A transaction never grows past commitSizeLimit.
BatchBound ==
  trlimit # 0 => \A t \in ToSet(Append(Log, transaction)) :
                   Cardinality(t.adds) + Cardinality(t.dels) <= trlimit

\* What was handed over is never withdrawn or overtaken, in particular not by
\* close: every step only appends to the log.
LogOnlyGrows == [][IsPrefix(Log, Log')]_vars

\* However commits end, the disconnect of a lost session gets committed.
DisconnectCommitted ==
  link # "open" ~> (committed # <<>> /\ ~Last(committed).connected)
=============================================================================
