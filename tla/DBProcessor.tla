----------------------------- MODULE DBProcessor ----------------------------
(***************************************************************************)
(* DBProcessor (server/recceiver/dbstore.py) as one of the processors of   *)
(* ProcessorController, the others being arbitrary.                        *)
(*                                                                         *)
(* A commit is an interaction of the adbapi pool: it runs on a pool thread,*)
(* and SQLite's IMMEDIATE transactions let one at a time touch the tables, *)
(* so it is one step.  Its Deferred fires in the same step: until it has,  *)
(* the session that chained it does nothing that could tell the difference.*)
(* Other owners' rows are left out: every statement names the owner, or an *)
(* id that belongs to it.                                                  *)
(***************************************************************************)
EXTENDS ProcessorController

CONSTANTS
  RecIds,     \* record ids of a client
  MaxFaults   \* bound: failures of the database

ASSUME BodiesAssumption ==
  Bodies \cup {NoBody} \subseteq
    [adds : SUBSET RecIds, dels : SUBSET RecIds, aliases : SUBSET RecIds]
ASSUME DBAssumption == "db" \in Processors /\ "db" \notin Raises \cup Cancels
ASSUME FaultsAssumption == MaxFaults \in Nat

VARIABLES
  server,    \* table.server: the address, by id
  record,    \* table.record and record_name: the record ids, by the server's id
  sources,   \* self.sources: a session's server id
  queued,    \* sessions whose commit the pool has accepted and not ended
  pool,      \* the pool: "open", "stopping" once self.done is set, "closed"
  faults

tables == <<server, record>>
dbvars == <<server, record, sources, queued, pool, faults>>
allvars == <<vars, dbvars>>

None == <<>>   \* the empty table

DBInit ==
  /\ Init
  /\ server = None /\ record = None /\ sources = None
  /\ queued = {}
  /\ pool = "open"
  /\ faults = 0

-----------------------------------------------------------------------------
(* The interaction _commit.                                                *)

Current(s) == said[s][finished[s] + 1]

\* INSERT INTO server: the id SQLite gives out is one more than the largest.
NewId == 1 + Max({0} \cup DOMAIN server)
WithRow(s) == With(server, NewId, opened[s])

\* The server row the transaction is about.  The SELECT after the INSERT asks for
\* the address: of several rows that have it, fetchone may return any.
ServersNow(s) == IF Current(s).initial THEN WithRow(s) ELSE server
Srvids(s) ==
  IF Current(s).initial THEN {i \in DOMAIN WithRow(s) : WithRow(s)[i] = opened[s]}
  ELSE {sources[s] : x \in {s} \cap DOMAIN sources}   \* else a KeyError

RecordsNow(i) == IF i \in DOMAIN record THEN record[i] ELSE {}

\* Fault: records that are there already are added to, not replaced.
Replaced_NoDelete(old, body) == old \cup body.adds

\* "Remove all records, including those which will be re-created."
Replaced(old, body) == (old \ (body.adds \cup body.dels)) \cup body.adds

\* What makes a statement fail: a record of a server row that is gone (foreign
\* key), an alias of a record that is not in the table (NOT NULL).
Refused(s, i) ==
  LET t == Current(s) IN
  /\ t.connected
  /\ \/ i \notin DOMAIN ServersNow(s) /\ t.body.adds # {}
     \/ ~(t.body.aliases \subseteq Replaced(RecordsNow(i), t.body))

\* The rows after the transaction; the records of a row go with it (CASCADE).
Rows(s, i) ==
  IF Current(s).connected THEN DOMAIN ServersNow(s) ELSE DOMAIN ServersNow(s) \ {i}

\* self.sources is a Python dictionary: a rollback does not touch it.
SourcesAfter(s, i) ==
  IF Current(s).connected THEN With(sources, s, i)
  ELSE Restrict(sources, DOMAIN sources \ {s})

Ended(s, r) == queued' = queued \ {s} /\ Ends("db", s, r)

DBStores(s, i) ==
  /\ s \in queued
  /\ i \in Srvids(s) /\ ~Refused(s, i)
  /\ server' = [j \in Rows(s, i) |-> ServersNow(s)[j]]
  /\ record' = [j \in Rows(s, i) |->
       IF j = i THEN Replaced(RecordsNow(i), Current(s).body) ELSE RecordsNow(j)]
  /\ sources' = SourcesAfter(s, i)
  /\ Ended(s, "ok")
  /\ UNCHANGED <<pool, faults>>

\* A transaction that is not initial, of a client that has no entry: KeyError.
DBNoSource(s) ==
  /\ s \in queued
  /\ Srvids(s) = {}
  /\ Ended(s, "error")
  /\ UNCHANGED <<tables, sources, pool, faults>>

\* A statement fails: the tables are rolled back.
DBRefuses(s, i) ==
  /\ s \in queued
  /\ i \in Srvids(s) /\ Refused(s, i)
  /\ sources' = SourcesAfter(s, i)
  /\ Ended(s, "error")
  /\ UNCHANGED <<tables, pool, faults>>

\* The database fails: "database is locked" before any change, or an error of
\* the COMMIT.
DBFails(s) ==
  /\ s \in queued
  /\ faults < MaxFaults
  /\ faults' = faults + 1
  /\ \/ sources' = sources
     \/ \E i \in Srvids(s) : sources' = SourcesAfter(s, i)
  /\ Ended(s, "error")
  /\ UNCHANGED <<tables, pool>>

-----------------------------------------------------------------------------
(* The service.                                                            *)

\* commit: a closed pool drops the interaction, whose Deferred never fires.
DBTakes(s) ==
  /\ commit(s)
  /\ queued' = IF pool # "closed" /\ "db" \in DOMAIN results'[s] THEN queued \cup {s} ELSE queued
  /\ UNCHANGED <<tables, sources, pool, faults>>

\* stopService sets done and asks for another clean-up; the first clean-up to
\* end after that, be it the one of startService, closes the pool.  The owner is
\* not passed as a sequence, which sqlite3 refuses: a clean-up raises and
\* deletes nothing.
stopService ==
  /\ ReactorFree
  /\ pool = "open"
  /\ pool' = "stopping"
  /\ UNCHANGED <<vars, tables, sources, queued, faults>>

dec_count ==
  /\ ReactorFree
  /\ pool = "stopping"
  /\ pool' = "closed"
  /\ UNCHANGED <<vars, tables, sources, queued, faults>>

Others(s) ==
  /\ \/ pool = "open" /\ \E a \in Addresses[s] : Open(s, a)   \* else it does not listen
     \/ Lose(s) \/ Fires(s)
     \/ \E b \in Bodies : Upload(s, b)
     \/ \E p \in Processors \ {"db"} : \E r \in Outcomes(p) : Ends(p, s, r)
  /\ UNCHANGED dbvars

Interaction(s) ==
  \/ \E i \in DOMAIN server \cup {NewId} : DBStores(s, i) \/ DBRefuses(s, i)
  \/ DBNoSource(s) \/ DBFails(s)

DBNext ==
  \/ \E s \in Sessions : Others(s) \/ DBTakes(s) \/ Interaction(s)
  \/ stopService \/ dec_count

DBSpec == DBInit /\ [][DBNext]_allvars

\* The reactor runs call-backs, pool threads run the interactions they are given,
\* and the other processors end each commit.
FairDBSpec ==
  /\ DBSpec
  /\ WF_allvars(\E s \in Sessions : DBTakes(s) \/ (Fires(s) /\ UNCHANGED dbvars))
  /\ \A s \in Sessions :
       /\ WF_allvars(Interaction(s))
       /\ \A p \in Processors \ {"db"} :
            WF_allvars((\E r \in Outcomes(p) : Ends(p, s, r)) /\ UNCHANGED dbvars)

-----------------------------------------------------------------------------
(* Properties.                                                             *)

\* The transactions of s that "db" has finished with.
Applied(s) ==
  LET given == seen["db"][s] IN
  IF "db" \in DOMAIN results[s] /\ results[s]["db"] = "pending" THEN Front(given) ELSE given
Stored == {s \in Sessions : Applied(s) # <<>> /\ Last(Applied(s)).connected}

\* The records that s has: the last transaction that names one adds it.
Present(s) ==
  {r \in RecIds : \E k \in DOMAIN Applied(s) :
     /\ r \in Applied(s)[k].body.adds
     /\ \A j \in DOMAIN Applied(s) : j > k => r \notin Applied(s)[j].body.dels}

\* As long as "db" has not been removed the tables say exactly what the clients
\* said: a row of its own for every client that is connected and has uploaded,
\* with the records that its transactions, one after the other, leave, and no
\* row else, although the ids of deleted rows are given out again and the
\* interactions of several clients and failures come in any order.
TablesFollow ==
  "db" \in ToSet(procs) =>
    /\ DOMAIN sources = Stored
    /\ IsInjective(sources) /\ DOMAIN server = Range(sources)
    /\ \A s \in Stored :
         /\ server[sources[s]] = opened[s]
         /\ record[sources[s]] = Present(s)

\* However the commits before it end, the disconnect of a client reaches every
\* processor that is in service, unless the service is being stopped.
DisconnectReachesAll ==
  \A s \in Sessions :
    s \in DOMAIN opened \ linked ~>
      \/ pool # "open"
      \/ \A p \in ToSet(procs) : seen[p][s] # <<>> /\ ~Last(seen[p][s]).connected
=============================================================================
