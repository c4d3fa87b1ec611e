------------------------- MODULE ProcessorController ------------------------
(***************************************************************************)
(* ProcessorController (server/recceiver/processors.py) between the        *)
(* sessions, which chain their commits (recast.py), and the processors.    *)
(*                                                                         *)
(* A commit is given to every processor in procs and ends when the         *)
(* Deferreds of all of them have fired.  A processor is arbitrary here: its*)
(* Deferred fires at any time, with any outcome, or commit itself raises.  *)
(*                                                                         *)
(* The reactor runs a chain of call-backs to its end before it turns to    *)
(* anything else: Open, Upload, Lose and Ends wait until no Deferred has   *)
(* call-backs left to run.                                                 *)
(***************************************************************************)
EXTENDS Integers, SequencesExt

CONSTANTS
  Sessions,     \* numbered in the order in which the clients connect
  Addresses,    \* Addresses[s]: host and port of the session's client, one of these
  Bodies,       \* contents of a transaction that adds, changes or deletes
  NoBody,       \* content of the transaction of a disconnect
  Configured,   \* the processors in the order of the configuration
  Raises,       \* processors whose commit may raise at the call
  Cancels,      \* processors that may end a commit with CancelledError
  ReuseEarly,   \* whether an address comes back while commits of its earlier
                \* session are unfinished
  MaxTxns       \* bound: uploads of all sessions; disconnects come on top

Processors == ToSet(Configured)
AllAddresses == UNION {Addresses[s] : s \in Sessions}

ASSUME ConfiguredAssumption ==
  /\ Configured \in Seq(Processors) /\ IsInjective(Configured)
  /\ Raises \subseteq Processors /\ Cancels \subseteq Processors
ASSUME SessionsAssumption ==
  /\ Sessions \subseteq Nat /\ Addresses \in [Sessions -> SUBSET AllAddresses]
  /\ ReuseEarly \in BOOLEAN /\ MaxTxns \in Nat

VARIABLES
  procs,     \* self.procs
  said,      \* per session: the transactions it has chained
  finished,  \* per session: how many of them have ended
  results,   \* per session: the outcomes of the commit under way
  seen,      \* per processor and session: what commit was called with
  linked,    \* sessions with a connection
  closing,   \* of these, the ones whose connection is being closed
  opened     \* the sessions that exist or existed, with their addresses

vars == <<procs, said, finished, results, seen, linked, closing, opened>>

NoCommit == <<>>
Transactions ==
  [initial : BOOLEAN, connected : BOOLEAN, body : Bodies \cup {NoBody}]
Outcomes(p) == {"ok", "error"} \cup {r \in {"cancelled"} : p \in Cancels}

TypeOK ==
  /\ procs \in Seq(Processors)
  /\ \A s \in Sessions :
       /\ said[s] \in Seq(Transactions)
       /\ finished[s] \in 0..Len(said[s])
       /\ DOMAIN results[s] \subseteq Processors
       /\ \A p \in DOMAIN results[s] :
            results[s][p] \in {"pending", "ok", "error", "cancelled"}
  /\ \A p \in Processors, s \in Sessions : seen[p][s] \in Seq(Transactions)
  /\ closing \subseteq linked /\ linked \subseteq DOMAIN opened
  /\ opened \in [DOMAIN opened -> AllAddresses] /\ DOMAIN opened \subseteq Sessions

Init ==
  /\ procs = Configured
  /\ said = [s \in Sessions |-> <<>>]
  /\ finished = [s \in Sessions |-> 0]
  /\ results = [s \in Sessions |-> NoCommit]
  /\ seen = [p \in Processors |-> [s \in Sessions |-> <<>>]]
  /\ linked = {}
  /\ closing = {}
  /\ opened = <<>>

\* A commit that no processor is given has no outcomes: it starts and ends in
\* one step (commit, below).
Unfinished(s) == finished[s] < Len(said[s])
Runnable(s) == Unfinished(s) /\ results[s] = NoCommit
AllFired(s) ==
  results[s] # NoCommit /\ \A p \in DOMAIN results[s] : results[s][p] # "pending"
ReactorFree == \A s \in Sessions : ~Runnable(s) /\ ~AllFired(s)

\* f[x] = v of a dictionary.
With(f, x, v) == [y \in DOMAIN f \cup {x} |-> IF y = x THEN v ELSE f[y]]

-----------------------------------------------------------------------------
(* The sessions.                                                           *)

\* A client connects from address a and greets: addClient.
Open(s, a) ==
  /\ ReactorFree
  /\ s \notin DOMAIN opened /\ \A u \in Sessions : u < s => u \in DOMAIN opened
  /\ \A u \in DOMAIN opened : opened[u] = a =>
       u \notin linked /\ (ReuseEarly \/ ~Unfinished(u))
  /\ opened' = With(opened, s, a)
  /\ linked' = linked \cup {s}
  /\ UNCHANGED <<procs, said, finished, results, seen, closing>>

Chain(s, t) == said' = [said EXCEPT ![s] = Append(@, t)]

Uploads(s) == Len(SelectSeq(said[s], LAMBDA t : t.connected))

\* flush: the session's first transaction is initial.
Upload(s, b) ==
  /\ ReactorFree
  /\ s \in linked
  /\ MapThenSumSet(Uploads, Sessions) < MaxTxns
  /\ Chain(s, [initial |-> said[s] = <<>>, connected |-> TRUE, body |-> b])
  /\ UNCHANGED <<procs, finished, results, seen, linked, closing, opened>>

\* The connection is lost: close chains a new transaction, which is not initial
\* even when it is the only one.
Lose(s) ==
  /\ ReactorFree
  /\ s \in linked
  /\ Chain(s, [initial |-> FALSE, connected |-> FALSE, body |-> NoBody])
  /\ linked' = linked \ {s}
  /\ closing' = closing \ {s}
  /\ UNCHANGED <<procs, finished, results, seen, opened>>

-----------------------------------------------------------------------------
(* A commit.                                                               *)

\* Fault: the transaction goes to the first processor only.
Visited_First(F) == {procs[k] : k \in {j \in 1..Len(procs) : j = 1}}

\* The comprehension over self.procs, when the commits of the processors in F
\* raise at the call: punish removes them from the list that is being iterated
\* over, and the one after each of them is passed over.
Visited(F) ==
  LET visited[k \in 1..Len(procs)] ==
        k = 1 \/ ~(visited[k - 1] /\ procs[k - 1] \in F)
  IN {procs[k] : k \in {j \in 1..Len(procs) : visited[j]}}

\* What is left of the first k processors of a list when those in F are removed,
\* for each k.
Kept(list, F) ==
  LET kept[k \in 0..Len(list)] ==
        IF k = 0 THEN <<>>
        ELSE IF list[k] \in F THEN kept[k - 1] ELSE Append(kept[k - 1], list[k])
  IN kept

\* punish for the processors in F, unless they were removed before.
Punished(F) == Kept(procs, F)[Len(procs)]

\* The commit of the session's next transaction.  With no processor left the
\* DeferredList fires at once.
commit(s) ==
  /\ Runnable(s)
  /\ \E F \in SUBSET (Raises \cap ToSet(procs)) :
       LET given == Visited(F) IN
       /\ results' = [results EXCEPT ![s] =
            [p \in given |-> IF p \in F THEN "error" ELSE "pending"]]
       /\ seen' = [p \in Processors |->
            IF p \in given THEN [seen[p] EXCEPT ![s] = Append(@, said[s][finished[s] + 1])]
                           ELSE seen[p]]
       /\ procs' = Punished(F \cap given)
       /\ finished' = IF given = {} THEN [finished EXCEPT ![s] = @ + 1] ELSE finished
  /\ UNCHANGED <<said, linked, closing, opened>>

\* The Deferred of processor p for the commit of s fires with outcome r.
Ends(p, s, r) ==
  /\ ReactorFree
  /\ p \in DOMAIN results[s]
  /\ results[s][p] = "pending"
  /\ results' = [results EXCEPT ![s][p] = r]
  /\ procs' = IF r = "error" THEN Punished({p}) ELSE procs
  /\ UNCHANGED <<said, finished, seen, linked, closing, opened>>

\* The places in the configuration of the processors that did not succeed.
Bad(s) ==
  {k \in 1..Len(Configured) :
     Configured[k] \in DOMAIN results[s] /\ results[s][Configured[k]] # "ok"}

\* Fault: the last one.
find_first_error_Last(s) ==
  IF Bad(s) = {} THEN "ok" ELSE results[s][Configured[Max(Bad(s))]]

\* The first outcome, in the order of procs, that is not a success.
find_first_error(s) ==
  IF Bad(s) = {} THEN "ok" ELSE results[s][Configured[Min(Bad(s))]]

\* Fault: a connection that is lost is waited for again.
abort_Lost(s) == closing \cup {s}

\* abort: loseConnection, of which nothing comes when the connection is lost.
abort(s) == closing \cup ({s} \cap linked)

\* Fault: a failed commit ends the chain.
Fires_Stops(s) ==
  /\ AllFired(s)
  /\ closing' = IF find_first_error(s) = "error" THEN abort(s) ELSE closing
  /\ finished' = [finished EXCEPT ![s] =
       IF find_first_error(s) = "error" THEN Len(said[s]) ELSE @ + 1]
  /\ results' = [results EXCEPT ![s] = NoCommit]
  /\ UNCHANGED <<procs, said, seen, linked, opened>>

\* The DeferredList fires: abort closes the connection unless the commit was
\* cancelled, and the chain goes on in every case.
Fires(s) ==
  /\ AllFired(s)
  /\ closing' = IF find_first_error(s) = "error" THEN abort(s) ELSE closing
  /\ finished' = [finished EXCEPT ![s] = @ + 1]
  /\ results' = [results EXCEPT ![s] = NoCommit]
  /\ UNCHANGED <<procs, said, seen, linked, opened>>

SessionNext(s) ==
  \/ \E a \in Addresses[s] : Open(s, a)
  \/ Lose(s) \/ commit(s) \/ Fires(s)
  \/ \E b \in Bodies : Upload(s, b)

Next ==
  \E s \in Sessions :
    \/ SessionNext(s)
    \/ \E p \in Processors : \E r \in Outcomes(p) : Ends(p, s, r)

Spec == Init /\ [][Next]_vars

-----------------------------------------------------------------------------
(* Properties.                                                             *)

\* What the sessions have handed over: the ended commits and the one under way.
HandedOver(s) ==
  SubSeq(said[s], 1, finished[s] + IF results[s] = NoCommit THEN 0 ELSE 1)

\* Fan-out is a broadcast: whichever processors fail, in whatever order the
\* Deferreds of several sessions fire, a processor that is still in procs has
\* been given every transaction of every session, once and in order, and one
\* that was removed is given none.
Feed == INSTANCE CommitFeed WITH
  attached <- ToSet(procs),
  log <- [s \in Sessions |-> HandedOver(s)],
  feed <- seen
Broadcast == Feed!FeedSpec

\* A processor that failed has missed data of this client for good: the
\* connection is closed, so that the client uploads again to the ones left.
FailureCloses ==
  [][\A s \in linked :
       /\ results[s] # NoCommit /\ results'[s] = NoCommit
       /\ \E p \in DOMAIN results[s] : results[s][p] = "error"
       => s \in closing']_vars
=============================================================================
