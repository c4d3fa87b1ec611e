---------------------------- MODULE CFProcessor -----------------------------
(***************************************************************************)
(* The ChannelFinder processor (server/recceiver/cf/processor.py) and the  *)
(* ChannelFinder service it writes to.                                     *)
(*                                                                         *)
(* Commits arrive from the sessions, at most one per session at a time     *)
(* (CollectionSession), and run one after the other under a FIFO lock, each*)
(* in a thread.  Every HTTP request of the thread is a step: it may fail,  *)
(* with or without having taken effect, and the sweep that the start-up    *)
(* launches runs between them, since it does not take the lock.            *)
(*                                                                         *)
(* A channel of ChannelFinder is abstracted to the iocid it names (NoIoc   *)
(* when the IOC-level properties are gone) and its pvStatus.               *)
(***************************************************************************)
EXTENDS Integers, SequencesExt

CONSTANTS
  Sessions,
  iocid,         \* iocid[s]: IOCInfo.id, the host:port of the session's client
  Names,         \* record and alias names
  Recs,          \* Recs[s]: the records the client of s has
  Aliases,       \* Aliases[n]: the aliases of record n; they are no records
  NoIoc,
  queryLimit,    \* findSizeLimit: page of a query and chunk of a write
  alwaysRetry,   \* pushAlwaysRetry
  maxRetries,    \* pushMaxRetries
  cleanOnStart, cleanOnStop,
  sweepRetries,  \* failures after which a stopping sweep is abandoned
  CanCrash,      \* whether the process may be killed
  CleanTool,     \* whether recceiver-clean may be run
  LostReplies,   \* whether a write may take effect and still raise
  MaxFaults,     \* bound: failed requests
  MaxCommits     \* bound: commits that wait in one session's chain

Iocids == {iocid[s] : s \in Sessions}

ASSUME NamesAssumption == IsFiniteSet(Names)
ASSUME RecsAssumption == iocid \in [Sessions -> Iocids] /\ Recs \in [Sessions -> SUBSET Names]
ASSUME AliasesAssumption ==
  /\ Aliases \in [Names -> SUBSET Names]
  /\ \A s \in Sessions : \A n, m \in Recs[s] :
       Aliases[n] \cap Recs[s] = {} /\ (Aliases[n] \cap Aliases[m] # {} => n = m)
ASSUME BoundsAssumption ==
  /\ {queryLimit, maxRetries, sweepRetries} \subseteq Nat \ {0}
  /\ {MaxFaults, MaxCommits} \subseteq Nat
  /\ {alwaysRetry, cleanOnStart, cleanOnStop, CanCrash,
      CleanTool, LostReplies} \subseteq BOOLEAN
ASSUME NoIocAssumption == NoIoc \notin Iocids /\ "stop" \notin Sessions

VARIABLES
  cf,          \* ChannelFinder: name -> channel
  up,          \* the RecCeiver process exists
  running,     \* Service.running
  iocs,        \* CFProcessor.iocs: iocid -> channelcount, Unknown if not a key
  channel_ioc_ids,
  ioc_channels,\* CFProcessor._ioc_channels
  lock,        \* who holds the lock (the head) and who waits for it
  job,         \* the thread of the lock's holder
  sweep,       \* clean_service at start-up and at stop, and recceiver-clean
  chain,       \* per session: the commits not yet finished
  linked,      \* the sessions whose client is connected
  fresh,       \* the sessions that have not flushed yet: next commit is initial
  sent,        \* the records a connected client's flushed transactions hold
  used,        \* the sessions that exist or existed
  outcome,     \* per session: how its last commit ended
  faults       \* failures ChannelFinder has left

memory == <<iocs, channel_ioc_ids, ioc_channels>>
sessions == <<chain, linked, fresh, sent, used, outcome>>
vars == <<cf, up, running, memory, lock, job, sweep, sessions, faults>>

Unknown == -1
Absent == [ioc |-> NoIoc, status |-> "Absent"]
Idle == [pc |-> "idle", tries |-> 0, towrite |-> <<>>]
NoSweep == [pc |-> "off", tries |-> 0, found |-> {}]
Sweeps == {"start", "stop", "tool"}

WithAliases(R) == R \cup UNION {Aliases[n] : n \in R}

TypeOK ==
  /\ cf \in [Names -> [ioc : Iocids \cup {NoIoc},
                       status : {"Absent", "Active", "Inactive"}]]
  /\ {up, running} \subseteq BOOLEAN
  /\ iocs \in [Iocids -> Int]
  /\ channel_ioc_ids \in [Names -> Seq(Iocids)]
  /\ ioc_channels \in [Iocids -> SUBSET Names]
  /\ lock \in Seq(Sessions \cup {"stop"})
  /\ job.pc \in {"idle", "find", "write", "clean"}
  /\ DOMAIN job.towrite \subseteq Names
  /\ DOMAIN sweep = Sweeps
  /\ \A k \in DOMAIN sweep : sweep[k].pc \in {"off", "find", "update"}
  /\ \A s \in Sessions : \A t \in ToSet(chain[s]) : t.recs \subseteq Recs[s]
  /\ {linked, fresh, used} \subseteq SUBSET Sessions
  /\ sent \in [Sessions -> SUBSET Names]
  /\ outcome \in [Sessions -> {"none", "ok", "cancelled", "error"}]
  /\ faults \in 0..MaxFaults

-----------------------------------------------------------------------------
(* The process.                                                            *)

Amnesia ==
  /\ iocs' = [i \in Iocids |-> Unknown]
  /\ channel_ioc_ids' = [n \in Names |-> <<>>]
  /\ ioc_channels' = [i \in Iocids |-> {}]

Init ==
  /\ cf = [n \in Names |-> Absent]
  /\ up = FALSE
  /\ running = FALSE
  /\ iocs = [i \in Iocids |-> Unknown]
  /\ channel_ioc_ids = [n \in Names |-> <<>>]
  /\ ioc_channels = [i \in Iocids |-> {}]
  /\ lock = <<>>
  /\ job = Idle
  /\ sweep = [k \in Sweeps |-> NoSweep]
  /\ chain = [s \in Sessions |-> <<>>]
  /\ linked = {}
  /\ fresh = {}
  /\ sent = [s \in Sessions |-> {}]
  /\ used = {}
  /\ outcome = [s \in Sessions |-> "none"]
  /\ faults = MaxFaults

\* startService: the start-up sweep is scheduled, not run.
startService ==
  /\ ~up
  /\ up' = TRUE
  /\ running' = TRUE
  /\ sweep' = IF cleanOnStart THEN [sweep EXCEPT !["start"].pc = "find"] ELSE sweep
  /\ UNCHANGED <<cf, memory, lock, job, sessions, faults>>

\* stopService: running is cleared at once, the rest waits for the lock.
stopService ==
  /\ up /\ running
  /\ running' = FALSE
  /\ lock' = Append(lock, "stop")
  /\ UNCHANGED <<cf, up, memory, job, sweep, sessions, faults>>

\* The process ends: killed, or by itself once stopService has finished.
Exit ==
  /\ up
  /\ CanCrash \/ (~running /\ "stop" \notin ToSet(lock))
  /\ up' = FALSE
  /\ running' = FALSE
  /\ Amnesia
  /\ lock' = <<>>
  /\ job' = Idle
  /\ sweep' = [sweep EXCEPT !["start"] = NoSweep, !["stop"] = NoSweep]
  /\ chain' = [s \in Sessions |-> <<>>]
  /\ linked' = {}
  /\ fresh' = {}
  /\ sent' = [s \in Sessions |-> {}]
  /\ outcome' = [s \in Sessions |-> "none"]
  /\ UNCHANGED <<cf, used, faults>>

-----------------------------------------------------------------------------
(* The sessions: each hands over its commits one at a time.                *)

\* The commit is appended to the session's chain; an empty chain runs it, and
\* commit asks for the lock.
Flush(s, t) ==
  /\ chain' = [chain EXCEPT ![s] = Append(@, t)]
  /\ lock' = IF chain[s] = <<>> THEN Append(lock, s) ELSE lock

\* A client connects, possibly under the host:port of an earlier session whose
\* commits are not over.
Connect(s) ==
  /\ running
  /\ s \notin used
  /\ \A u \in linked : iocid[u] # iocid[s]
  /\ linked' = linked \cup {s}
  /\ fresh' = fresh \cup {s}
  /\ used' = used \cup {s}
  /\ UNCHANGED <<cf, up, running, memory, lock, job, sweep, chain, sent, outcome, faults>>

\* A flush of the session: records not sent before, or only IOC-level infos
\* when the first deadline passes before the first record.
Upload(s, R) ==
  /\ s \in linked
  /\ Len(chain[s]) < MaxCommits
  /\ R \cap sent[s] = {}
  /\ R # {} \/ s \in fresh
  /\ Flush(s, [initial |-> s \in fresh, connected |-> TRUE, recs |-> R])
  /\ fresh' = fresh \ {s}
  /\ sent' = [sent EXCEPT ![s] = @ \cup R]
  /\ UNCHANGED <<cf, up, running, memory, job, sweep, linked, used, outcome, faults>>

\* The connection is lost: CollectionSession.close.
Drop(s) ==
  /\ s \in linked
  /\ linked' = linked \ {s}
  /\ fresh' = fresh \ {s}
  /\ sent' = [sent EXCEPT ![s] = {}]
  /\ Flush(s, [initial |-> FALSE, connected |-> FALSE, recs |-> {}])
  /\ UNCHANGED <<cf, up, running, memory, job, sweep, used, outcome, faults>>

-----------------------------------------------------------------------------
(* A commit, under the lock.                                               *)

Holder == Head(lock)
Committing == lock # <<>> /\ Holder # "stop"
Transaction == Head(chain[Holder])

\* Fault: the session's chain is not continued.
Finish_EndsChain(end) ==
  /\ job' = Idle
  /\ chain' = [chain EXCEPT ![Holder] = Tail(@)]
  /\ lock' = Tail(lock)
  /\ outcome' = [outcome EXCEPT ![Holder] = end]
  /\ UNCHANGED <<linked, fresh, sent, used>>

\* The thread ended: the lock passes on, then the session's chain continues.
\* chain_result and chain_error both call d.callback(None): the session is told
\* success whatever the end was, so none of its errbacks closes the connection.
Finish(end) ==
  /\ job' = Idle
  /\ chain' = [chain EXCEPT ![Holder] = Tail(@)]
  /\ lock' = IF Tail(chain[Holder]) = <<>> THEN Tail(lock)
                                           ELSE Append(Tail(lock), Holder)
  /\ outcome' = [outcome EXCEPT ![Holder] = end]
  /\ UNCHANGED <<linked, fresh, sent, used>>

\* channel_ioc_ids once every name in D was taken from i by remove_channel.
Unlisted(D, i) ==
  [n \in Names |-> IF n \in D THEN RemoveFirst(channel_ioc_ids[n], i)
                              ELSE channel_ioc_ids[n]]

\* channelcount of i after k calls of remove_channel: the entry goes at zero.
Uncounted(i, k) ==
  IF iocs[i] = Unknown \/ (k > 0 /\ iocs[i] <= k) THEN Unknown ELSE iocs[i] - k

\* update_ioc_infos for a disconnect: all the channels of i are removed.
ForgetChannels(i) ==
  LET D == {n \in ioc_channels[i] : i \in ToSet(channel_ioc_ids[n])} IN
  /\ channel_ioc_ids' = Unlisted(D, i)
  /\ ioc_channels' = [ioc_channels EXCEPT ![i] = @ \ D]
  /\ iocs' = [iocs EXCEPT ![i] = Uncounted(i, Cardinality(D))]

\* Fault: aliases are listed but not counted.
RegisterChannels_AliasesUncounted(i, R, initial) ==
  LET N == {n \in WithAliases(R) : i \notin ToSet(channel_ioc_ids[n])} IN
  /\ channel_ioc_ids' = [n \in Names |->
       IF n \in N THEN Append(channel_ioc_ids[n], i) ELSE channel_ioc_ids[n]]
  /\ ioc_channels' = [ioc_channels EXCEPT ![i] = @ \cup WithAliases(R)]
  /\ iocs' = [iocs EXCEPT ![i] = (IF initial THEN 0 ELSE @) + Cardinality(N \cap R)]

\* Fault: an IOC is listed again for a channel it is listed for.
RegisterChannels_Twice(i, R, initial) ==
  LET N == WithAliases(R) IN
  /\ channel_ioc_ids' = [n \in Names |->
       IF n \in N THEN Append(channel_ioc_ids[n], i) ELSE channel_ioc_ids[n]]
  /\ ioc_channels' = [ioc_channels EXCEPT ![i] = @ \cup N]
  /\ iocs' = [iocs EXCEPT ![i] = (IF initial THEN 0 ELSE @) + Cardinality(N)]

\* update_ioc_infos for the records R of i, aliases included.
RegisterChannels(i, R, initial) ==
  LET N == {n \in WithAliases(R) : i \notin ToSet(channel_ioc_ids[n])} IN
  /\ channel_ioc_ids' = [n \in Names |->
       IF n \in N THEN Append(channel_ioc_ids[n], i) ELSE channel_ioc_ids[n]]
  /\ ioc_channels' = [ioc_channels EXCEPT ![i] = @ \cup WithAliases(R)]
  /\ iocs' = [iocs EXCEPT ![i] = (IF initial THEN 0 ELSE @) + Cardinality(N)]

Listed(i, n) == i \in ToSet(channel_ioc_ids[n])

\* update_ioc_infos for records R of an IOC that is not in iocs, not all listed
\* with their aliases: the records P were met before, then n up to its name or
\* alias x.  self.iocs[iocid] raises KeyError after x was appended.
RegisterRaises(i, R) ==
  \E n \in R : \E x \in WithAliases({n}) :
    /\ ~Listed(i, x)
    /\ channel_ioc_ids' = [channel_ioc_ids EXCEPT ![x] = Append(@, i)]
    /\ \E P \in SUBSET {m \in R : \A y \in WithAliases({m}) : Listed(i, y)},
          Q \in SUBSET {y \in WithAliases({n}) : Listed(i, y)} :
         /\ IF x = n THEN Q = {} ELSE n \in Q
         /\ ioc_channels' = [ioc_channels EXCEPT ![i] = @ \cup WithAliases(P) \cup Q]
    /\ UNCHANGED iocs

\* _commit_with_thread up to the first request.
BeginCommit ==
  LET i == iocid[Holder]
      t == Transaction
      counted == \/ t.initial \/ iocs[i] # Unknown
                 \/ \A n \in WithAliases(t.recs) : Listed(i, n)
  IN
  /\ Committing
  /\ job.pc = "idle"
  /\ UNCHANGED <<cf, up, running, sweep, faults>>
  /\ \/ /\ ~running
        /\ Finish("cancelled")
        /\ UNCHANGED memory
     \/ /\ running /\ ~t.connected /\ iocs[i] = Unknown
        /\ Finish("ok")
        /\ UNCHANGED memory
     \/ /\ running /\ ~t.connected /\ iocs[i] # Unknown
        /\ ForgetChannels(i)
        /\ job' = [Idle EXCEPT !.pc = "find"]
        /\ UNCHANGED <<lock, sessions>>
     \/ /\ running /\ t.connected /\ counted
        /\ RegisterChannels(i, t.recs, t.initial)
        /\ job' = [Idle EXCEPT !.pc = "find"]
        /\ UNCHANGED <<lock, sessions>>
     \/ /\ running /\ t.connected /\ ~counted
        /\ RegisterRaises(i, t.recs)
        /\ Finish("error")

-----------------------------------------------------------------------------
(* _update_channelfinder: two queries, then chunks of writes.              *)

\* A page of a query: at most queryLimit of the channels that match.
Pages(S) == {P \in SUBSET S : Cardinality(P) = IF Cardinality(S) < queryLimit
                                               THEN Cardinality(S) ELSE queryLimit}

find_by_ioc_id(i) == Pages({n \in Names : cf[n].status # "Absent" /\ cf[n].ioc = i})

\* The properties written.  _merge_property_lists drops every managed property
\* that the new list lacks; _orphan_channel passes no managed set and keeps all.
Owned(i) == [ioc |-> i, status |-> "Active"]
OldAndNew == [ioc |-> NoIoc, status |-> "Active"]
\* Fault: a pvStatus nobody knows.
Orphan_BadStatus(n) == [cf[n] EXCEPT !.status = "Orphaned"]
Orphan(n) == [cf[n] EXCEPT !.status = "Inactive"]

\* Fault: the channel is orphaned although another IOC has it.
OldValue_Orphans(n) == Orphan(n)

\* _handle_channels for a channel that is deleted or not in the commit: it goes
\* to its last known IOC, or is orphaned.
OldValue(n) ==
  IF channel_ioc_ids[n] # <<>> /\ iocs[Last(channel_ioc_ids[n])] # Unknown
    THEN Owned(Last(channel_ioc_ids[n]))
    ELSE Orphan(n)

\* The channels of the page old that _handle_channels takes for old ones.  Its
\* test "not new_channels" reads the set from which the same loop removes: once
\* the last of N is met, what is left of the page counts as old.  The other
\* test, on records_to_delete, adds nothing: a disconnect has N = {}, and what
\* the transaction lists for deletion are record ids, not names.
OldOnly(old, N) ==
  IF N = {} THEN {old} ELSE IF N \subseteq old THEN SUBSET (old \ N) ELSE {{}}

\* What one attempt writes: the old-only channels L, the ones both old and new,
\* the new ones with their aliases.
ToWrite(i, old, N, L) ==
  [n \in L \cup N \cup WithAliases(N \ old) |->
     IF n \in WithAliases(N \ old) THEN Owned(i)
     ELSE IF n \in N THEN OldAndNew
     ELSE OldValue(n)]

\* Fault: a failed push is given up although pushAlwaysRetry is set.
MayTry_Once == running /\ job.tries < maxRetries

\* The loop condition of _push_to_cf.
MayTry == running /\ (alwaysRetry \/ job.tries < maxRetries)

\* _push_to_cf has another attempt: the queries succeed and the writes are
\* known.  The second query, by name, is part of the step: all it adds to what
\* is written are properties that RecCeiver does not manage.  For a channel in CF
\* and in the commit alike that has an alias, new_channels.remove(alias_name)
\* raises KeyError, which nobody retries.
Find ==
  LET i == iocid[Holder]
      N == Transaction.recs
  IN
  /\ Committing
  /\ job.pc = "find"
  /\ MayTry
  /\ UNCHANGED <<cf, up, running, memory, sweep, faults>>
  /\ \E old \in find_by_ioc_id(i) : \E L \in OldOnly(old, N) :
       IF \E n \in N \cap old : Aliases[n] # {}
         THEN Finish("error")
       ELSE IF DOMAIN ToWrite(i, old, N, L) = {}
         THEN Finish("ok")
       ELSE /\ job' = [job EXCEPT !.pc = "write", !.towrite = ToWrite(i, old, N, L)]
            /\ UNCHANGED <<lock, sessions>>

FindFails ==
  /\ Committing
  /\ job.pc = "find"
  /\ MayTry
  /\ faults > 0
  /\ faults' = faults - 1
  /\ job' = [job EXCEPT !.tries = @ + 1]
  /\ UNCHANGED <<cf, up, running, memory, lock, sweep, sessions>>

\* ChannelFinder after set_channels of the chunk C.
Written(C) == [n \in Names |-> IF n \in C THEN job.towrite[n] ELSE cf[n]]

\* _cf_set_chunked sends one more chunk.
Write ==
  /\ job.pc = "write"
  /\ UNCHANGED <<up, running, memory, sweep, faults>>
  /\ \E C \in Pages(DOMAIN job.towrite) :
       /\ cf' = Written(C)
       /\ IF C = DOMAIN job.towrite
            THEN Finish("ok")
            ELSE /\ job' = [job EXCEPT !.towrite =
                      [n \in DOMAIN job.towrite \ C |-> job.towrite[n]]]
                 /\ UNCHANGED <<lock, sessions>>

\* set_channels raises; the chunk may nevertheless have been stored.
WriteFails ==
  /\ job.pc = "write"
  /\ faults > 0
  /\ faults' = faults - 1
  /\ job' = [job EXCEPT !.pc = "find", !.tries = @ + 1, !.towrite = <<>>]
  /\ \/ UNCHANGED cf
     \/ LostReplies /\ \E C \in Pages(DOMAIN job.towrite) : cf' = Written(C)
  /\ UNCHANGED <<up, running, memory, lock, sweep, sessions>>

\* _push_to_cf returns False: stopped, or out of retries.  _evict_ioc.
GiveUp ==
  LET i == iocid[Holder] IN
  /\ Committing
  /\ job.pc = "find"
  /\ ~MayTry
  /\ IF Transaction.connected
       THEN /\ channel_ioc_ids' = Unlisted(ioc_channels[i], i)
            /\ ioc_channels' = [ioc_channels EXCEPT ![i] = {}]
            /\ iocs' = [iocs EXCEPT ![i] = Unknown]
       ELSE UNCHANGED memory
  /\ Finish("cancelled")
  /\ UNCHANGED <<cf, up, running, sweep, faults>>

-----------------------------------------------------------------------------
(* clean_service, at start-up without the lock and at stop under it, and    *)
(* the command recceiver-clean.                                            *)

\* _stop_service_with_lock.
BeginStop ==
  /\ lock # <<>> /\ Holder = "stop"
  /\ job.pc = "idle"
  /\ IF cleanOnStop
       THEN /\ sweep' = [sweep EXCEPT !["stop"] = [NoSweep EXCEPT !.pc = "find"]]
            /\ job' = [Idle EXCEPT !.pc = "clean"]
            /\ UNCHANGED lock
       ELSE lock' = Tail(lock) /\ UNCHANGED <<job, sweep>>
  /\ UNCHANGED <<cf, up, running, memory, sessions, faults>>

\* run_clean is started by an operator.
BeginTool ==
  /\ CleanTool
  /\ sweep["tool"].pc = "off"
  /\ sweep' = [sweep EXCEPT !["tool"].pc = "find"]
  /\ UNCHANGED <<cf, up, running, memory, lock, job, sessions, faults>>

\* A sweep ends; the one of stopService returns the lock.
EndSweep(k) ==
  /\ sweep' = [sweep EXCEPT ![k] = NoSweep]
  /\ IF k = "stop" THEN lock' = Tail(lock) /\ job' = Idle
                   ELSE UNCHANGED <<lock, job>>

\* Channels without a recceiverID are not found, whatever their pvStatus.
find_active_for_recceiver ==
  Pages({n \in Names : cf[n].status = "Active" /\ cf[n].ioc # NoIoc})

SweepFind(k) ==
  /\ sweep[k].pc = "find"
  /\ \E F \in find_active_for_recceiver :
       IF F = {} THEN EndSweep(k)
       ELSE /\ sweep' = [sweep EXCEPT ![k].pc = "update", ![k].found = F]
            /\ UNCHANGED <<lock, job>>
  /\ UNCHANGED <<cf, up, running, memory, sessions, faults>>

\* clean_channels: update_property on the names found before.
SweepUpdate(k) ==
  /\ sweep[k].pc = "update"
  /\ cf' = [n \in Names |-> IF n \in sweep[k].found
                              THEN [cf[n] EXCEPT !.status = "Inactive"] ELSE cf[n]]
  /\ sweep' = [sweep EXCEPT ![k].pc = "find", ![k].found = {}]
  /\ UNCHANGED <<up, running, memory, lock, job, sessions, faults>>

\* Fault: the first failure ends the sweep.
SweepFails_Quits(k) ==
  /\ sweep[k].pc # "off"
  /\ faults > 0
  /\ faults' = faults - 1
  /\ EndSweep(k)
  /\ UNCHANGED <<cf, up, running, memory, sessions>>

\* RequestException: clean_service starts over, unless the processor is
\* stopped and its patience exhausted; recceiver-clean gives up.
SweepFails(k) ==
  /\ sweep[k].pc # "off"
  /\ faults > 0
  /\ faults' = faults - 1
  /\ IF k = "tool" \/ (~running /\ sweep[k].tries + 1 >= sweepRetries)
       THEN EndSweep(k)
       ELSE /\ sweep' = [sweep EXCEPT ![k] = [pc |-> "find", found |-> {},
                                              tries |-> sweep[k].tries + 1]]
            /\ UNCHANGED <<lock, job>>
  /\ UNCHANGED <<cf, up, running, memory, sessions>>

-----------------------------------------------------------------------------

CommitStep == BeginCommit \/ Find \/ FindFails \/ Write \/ WriteFails \/ GiveUp
SweepStep(k) == SweepFind(k) \/ SweepUpdate(k) \/ SweepFails(k)

Next ==
  \/ startService \/ stopService \/ Exit \/ BeginStop \/ BeginTool
  \/ \E s \in Sessions : Connect(s) \/ Drop(s)
  \/ \E s \in Sessions : \E R \in SUBSET Recs[s] : Upload(s, R)
  \/ CommitStep
  \/ \E k \in Sweeps : SweepStep(k)

Spec == Init /\ [][Next]_vars

\* Every thread that was started runs; nothing is assumed of the IOCs, of the
\* operator or of who stops the process.  ChannelFinder fails MaxFaults times
\* at most, that is, it is back for long enough in the end.
Fairness ==
  /\ WF_vars(CommitStep)
  /\ WF_vars(BeginStop)
  /\ \A k \in Sweeps : WF_vars(SweepStep(k))
FairSpec == Spec /\ Fairness

-----------------------------------------------------------------------------
(* Properties.                                                             *)

\* The connected IOCs that have handed over channel n.
Announcers(n) == {iocid[s] : s \in {u \in linked : n \in WithAliases(sent[u])}}

\* No commit and no sweep is under way.
Quiet ==
  /\ running
  /\ lock = <<>>
  /\ \A k \in Sweeps : sweep[k].pc = "off"

\* Once the commits are done ChannelFinder says what the IOCs said: a channel is
\* Active exactly when a connected IOC has it, and then under the iocid of one
\* that does, although IOCs share channels, disconnect in any order and the
\* push of any of them was retried.
InSync ==
  Quiet => \A n \in Names :
    /\ cf[n].status = "Active" <=> Announcers(n) # {}
    /\ cf[n].status = "Active" => cf[n].ioc \in Announcers(n)

\* The three tables of the processor agree: _ioc_channels inverts
\* channel_ioc_ids, no IOC is listed twice for a channel, and channelcount counts.
Bookkeeping ==
  /\ \A i \in Iocids :
       /\ ioc_channels[i] = {n \in Names : i \in ToSet(channel_ioc_ids[n])}
       /\ iocs[i] = Unknown => ioc_channels[i] = {}
       /\ iocs[i] # Unknown => iocs[i] = Cardinality(ioc_channels[i])
  /\ \A n \in Names :
       Cardinality(ToSet(channel_ioc_ids[n])) = Len(channel_ioc_ids[n])

\* Whatever fails, remove_channel finds what it removes: no IOC is listed twice
\* for a channel, and _ioc_channels names only channels that list the IOC, so
\* list.remove(iocid) raises neither at a disconnect nor while evicting.
ListedOnce ==
  /\ \A n \in Names :
       Cardinality(ToSet(channel_ioc_ids[n])) = Len(channel_ioc_ids[n])
  /\ \A i \in Iocids : \A n \in ioc_channels[i] : i \in ToSet(channel_ioc_ids[n])

\* When stopService is through with its sweep, no channel that carries the
\* recceiverID is Active and none becomes so: the commit that held the lock
\* finished before, the ones behind it find the processor stopped.
StopLeavesNoneActive ==
  up /\ ~running /\ "stop" \notin ToSet(lock) =>
    \A n \in Names : cf[n].ioc # NoIoc => cf[n].status # "Active"

ActiveUnder(i, n) == cf[n].status = "Active" /\ cf[n].ioc = i

\* As long as the process lives, a channel does not stay Active under an IOC
\* that is gone: the disconnect is committed however often the push is retried,
\* and what a killed process left behind is swept at the next start.
StaleGoes ==
  \A i \in Iocids, n \in Names :
    (up /\ (\A s \in linked : iocid[s] # i) /\ ActiveUnder(i, n)) ~> (~up \/ ~ActiveUnder(i, n))

\* The lock is always passed on: every commit a session has chained ends.
CommitsEnd == \A s \in Sessions : (chain[s] # <<>>) ~> (chain[s] = <<>>)

-----------------------------------------------------------------------------
(* What a comment says of the processor, and the code does not do.         *)

\* _evict_ioc: "Remove an IOC from in-memory state so its next commit is
\* treated as initial": the next commit of an evicted IOC does not raise.
EvictedStartsOver == \A s \in linked : outcome[s] # "error"
=============================================================================
