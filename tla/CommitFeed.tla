----------------------------- MODULE CommitFeed -----------------------------
(***************************************************************************)
(* What a processor may rely on: every transaction of a session is given   *)
(* to all the attached processors at once, in the session's order, so that *)
(* an attached processor has missed nothing; one that is detached gets     *)
(* nothing any more and never comes back.                                  *)
(***************************************************************************)
EXTENDS Sequences

CONSTANTS Processors, Sessions, Transactions

VARIABLES
  attached,   \* the processors in service
  log,        \* per session: the transactions handed over so far
  feed        \* per processor and session: what it was given

FeedInit ==
  /\ attached = Processors
  /\ log = [s \in Sessions |-> <<>>]
  /\ feed = [p \in Processors |-> [s \in Sessions |-> <<>>]]

\* A processor that fails at once is detached in the same step.
HandOver(s, t) ==
  /\ log' = [log EXCEPT ![s] = Append(@, t)]
  /\ feed' = [p \in Processors |->
       IF p \in attached THEN [feed[p] EXCEPT ![s] = Append(@, t)] ELSE feed[p]]
  /\ attached' \in SUBSET attached

Detach(p) == attached' = attached \ {p} /\ UNCHANGED <<log, feed>>

FeedNext ==
  \/ \E s \in Sessions, t \in Transactions : HandOver(s, t)
  \/ \E p \in attached : Detach(p)

FeedSpec == FeedInit /\ [][FeedNext]_<<attached, log, feed>>
=============================================================================
