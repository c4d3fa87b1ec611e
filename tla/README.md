# TLA+ models of RecSync

RecSync keeps a directory of the process variables (records) of EPICS IOCs. Every IOC
runs *RecCaster* (C, `client/castApp/src`), which finds a *RecCeiver* (Python/Twisted,
`server/recceiver`) by its UDP announcements, connects to it by TCP, uploads its records
and then answers pings for as long as it lives. RecCeiver turns uploads into transactions
and hands them to processors; the one that matters in practice writes them to
*ChannelFinder*, a directory service with an HTTP interface.

This directory holds models of that system, the TLC runs that check them on small
instances, and proofs that TLAPS checks. `PROJECT.json` maps every definition to the lines
it models and lists runs, mutants, hazards, findings and theorems.

## 1. Inventory

| Component | State | Operations | What makes it correct |
|---|---|---|---|
| `CastReceiver`, `CastFactory` (`recast.py`) | `NActive`, `Wait`; per connection `active`, `phase`, `nonce`, `_ping_timer`, `sess`, the transport | accept, handlers of the six messages, ping timer, `connectionLost`, `isDone` | slots neither leaked nor freed twice, nobody waits beside a free slot, FIFO, a silent peer is noticed |
| RecCaster's TCP phase (`casttcp.c`, `dbcb.c`, `caster.c`) | position in `doCasterTCPPhase`, the sockets | greet, upload, done, answer pings, give up | both ends agree on greeting, session and ping; no slot is held for ever |
| `CollectionSession`, `Transaction` (`recast.py`) | the open transaction, `dirty`, `_flush_deadline`, `_commit_chain` | one per message, `flush`, `close`, end of a commit | nothing lost, split, reordered; first is initial, last is the disconnect |
| `CFProcessor` (`cf/processor.py`, `cf/adapter.py`) | `iocs`, `channel_ioc_ids`, `_ioc_channels`, the lock, `running` | start, stop, commit thread (bookkeeping, queries, chunked writes, retries, eviction), sweeps | ChannelFinder says what the IOCs said; tables agree; stale channels go |
| ChannelFinder (external) | channels with properties | find, set, update property | – |
| `recceiver-clean` (`clean_tool.py`) | – | one sweep | touches stale channels only |
| `ProcessorController` (`processors.py`) | list of processors | fan-out of commits, removal of a failing processor | one failing processor does not disturb the others; who is left has missed nothing |
| `DBProcessor` (`dbstore.py`) | `sources`, pending deferreds, the pool, SQL tables | commit, clean-up, stop | tables follow the sessions |
| `Announcer` (`announcer.py`), `RecService` (`application.py`) | timer, failing addresses | start, periodic datagram, stop | a bad address does not silence the others |
| RecCaster thread, UDP phase (`caster.c`, `castudp.c`) | state, error count, candidate server, shutdown flag, wake-up socket | listen, hold-off, connect, back-off, shutdown | reconnects, never to a stale server, stops when told |
| Socket helpers (`sockhelpers.c`) | time-out, wake-up socket | exact read, send all, wait | whole messages, no unbounded wait |
| Codec (`protocol/messages.py`, `caster.c`, `dbcb.c`) | – | encode, frame, decode | what is handled is what was sent |
| `ShowProcessor`, metrics, configuration, IOC integration (`castinit.c`) | little or none | – | – |

They interact as follows. RecCaster and `CastReceiver` exchange messages over TCP.
`CastFactory` parks a connection above `maxActive` (the transport is paused) and starts it
from inside the call-back that ends another one's upload. `CastReceiver` calls its
`CollectionSession`, which chains commits on a Deferred and may close the connection from
an errback. Each commit goes through `ProcessorController` to `CFProcessor.commit`, waits
for a lock shared by all sessions, and runs in a thread that talks to ChannelFinder. A
start-up sweep runs in another thread without the lock; the sweep at stop runs under it.

The hard behaviours: slots handed on inside other connections' call-backs and freed on
several paths; pings that cross a slow upload; commits that fail in the middle of a chain
while the connection is going down; pushes repeated after partial or unseen effect; IOCs
that share records and come and go in any order; kills, restarts and sweeps beside all
this; processors that fail while others hold commits of the same session; SQL transactions
rolled back under tables kept in memory; sends cut in the middle of a message; servers that
are replaced while a client sleeps or holds off. `PROJECT.json` lists each at its line under
`hazards`.

## 2. Modules

* **`UploadSlots`** – what the flow control promises: a FIFO semaphore with a set of
  uploading connections and a queue. No counter.
* **`CastReceiver`** – the TCP server. One action per reactor call-back; the peer is
  arbitrary. `BuildProtocol` is `buildProtocol` followed by `connectionMade`; `connectionLost`
  and `recvDone` include what `isDone` does to *another* connection (`Admitted`, `Activate`).
  A handler that raises (`AttributeError` for a missing session or nonce) is `connectionLost`
  in the same step, as in Twisted. `out` is what the call-back writes. After
  `loseConnection` the connection is `"closing"`: data already read is still handled and
  `connectionLost` comes later. `CommitFailed` is the errback of a session's commit.
* **`CastLink`** – extends `CastReceiver` with `doCasterTCPPhase` at the other end and two
  FIFO streams of messages. `Carry` moves `out` to the client, `rxfn` dispatches.
* **`CollectionSession`** – one session. A record, alias or info is the id of its record.
  `said` records what the client has said; `Log` is `committed \o chain`. RecCaster's order
  of the stream (record, then its aliases and infos) is `cur`; `del_record`, which the
  protocol has and RecCaster does not use, comes between records. The deadline is abstracted
  to none, ahead, passed.
* **`CFProcessor`** – processor, lock, sessions as far as the processor sees them, and
  ChannelFinder. A session has an iocid, its client's host:port, which another session may
  have later. A channel is its iocid and its pvStatus. The commit thread takes one step up to the first request (`BeginCommit`), one
  for the queries (`Find`), one per chunk (`Write`); each request may fail
  (`FindFails`, `WriteFails`, `SweepFails`), a write with or without effect (`LostReplies`).
  What `_merge_property_lists` keeps and drops decides `Owned`, `OldAndNew`, `Orphan`. `OldOnly` is the loop that tests `new_channels` while it removes from it.
  `Finish` tells the session success however the commit ended, as `chain_error` does.
* **`CommitFeed`** – what a processor may rely on: a broadcast. Every transaction goes to all
  attached processors, in the session's order; a detached one gets nothing and stays away.
* **`ProcessorController`** – sessions with their commit chains, and the fan-out. `commit` is
  the comprehension over `procs` with the processors that raise at once (`Visited` models
  that the list shrinks under the iteration), `Ends` the Deferred of one processor with
  `punish`, `Fires` the `DeferredList` with `find_first_error` and the session's `abort`. The
  processors are arbitrary. A chain of call-backs runs to its end first (`ReactorFree`).
* **`DBProcessor`** – extends it with `dbstore.py` for the processor `"db"`. An interaction of
  the pool is a step (`IMMEDIATE` transactions exclude each other): `DBStores`, `DBRefuses`
  (foreign key, `NOT NULL`), `DBNoSource` (`KeyError`), `DBFails`. Failures roll `server` and
  `record` back, not `sources`. The tables are the ones the statements name.
* **`Wire`** – one upload as a stream of units (header, fixed part, byte of text), produced by
  `casterPushPDB` with sends that may fail anywhere, consumed by `recvHeader` and the
  handlers through the codec. Length fields are numbers modulo `KeyMod` and `ValMod` (2^8 and
  2^16 in the code); the body length, 32 bits, is exact.
* **`Discovery`** – the Announcer of each life of the server and the threads of the clients
  from the search to the TCP phase, with `casterShutdown`. An announcement is the life that
  sent it. A client whose candidate was replaced meanwhile is refused or, where `bind` fixes
  the port, reaches the later life (`Connect`), as the server does not compare the key. Time is
  abstracted: a hold-off is none or some.
* **`CastReceiver_proofs`**, **`CastLink_proofs`**, **`CollectionSession_proofs`**,
  **`CFProcessor_proofs`**, **`DBProcessor_proofs`** (with the controller's theorems),
  **`Wire_proofs`**, **`Discovery_proofs`** – the theorems, see section 4. **`DataLemmas`** –
  what they share: facts about sequences, and induction over numbers.
* `MC*` – instances for TLC. Definitions named `X_Something` under the comment *Fault* are
  deviations of `X` that a plausible bug would make; each property is shown to notice one.

## 3. Runs

| Run | Bounds | Checks |
|---|---|---|
| `cast_receiver` | 4 connections, 2 slots, 2 nonces, symmetry | `TypeOK`, `SlotAccounting`, `NoIdleSlot`, `ParkedOnce`, `SilentPeerNoticed`, refinement `FIFOSlots` |
| `cast_link` | 2 connections, 1 slot, 2 nonces, 2 updates, fair | `OnePingOut`, `HandlersFindTheirState`, `GreetingFirst`, `SlotsReturn`, `WaitersAdmitted` |
| `session` | 3 records, limit 2, at most 4 transactions, fair | `NothingSplit`, `NothingLost`, `InitialFirstDisconnectLast`, `EnvCarriedOn`, `BatchBound`, `LogOnlyGrows`, `TypeOK`, `DisconnectCommitted` |
| `cf` | 3 IOCs sharing a record with an alias, 1 failure, retries without limit | `InSync`, `Bookkeeping`, `StopLeavesNoneActive`, `TypeOK` |
| `cf_live` | 2 IOCs, 1 channel, 1 failure, kills and restarts, start-up sweep, fair | `StaleGoes`, `CommitsEnd` |
| `cf_faulty` | 2 sessions under one host:port that may overlap, 2 records and an alias, pages of one, one retry, 2 failures, lost replies, `recceiver-clean` | `ListedOnce`, `StopLeavesNoneActive` |
| `store` | `db` and another processor, 2 sessions at one or two addresses, 3 kinds of transactions, 1 database failure, fair | refinement `Broadcast`, `TablesFollow`, `FailureCloses`, `DisconnectReachesAll`, `TypeOK` |
| `wire` | 6 items, lengths that fit, wrap to 0 or to less, 2 odd items, a cut anywhere | `DecodedIsSent`, `DoneMeansAll` |
| `discovery` | 1 client, 3 lives, 3 addresses of which one is too long a message and one unreachable, 3 faults, fair | `NoStaleServer`, `ShutdownEnds`, `Reconnects`, `TypeOK` |

Bounds. With two slots and four connections there are two uploads and a queue of two, so
that order in `Wait`, removal from its middle and activation all happen. Two connections
and one slot give a parked connection behind a live one. Three records against a limit of
two give a flush by size and one by deadline in a session. Three IOCs give a channel a
history of three owners, so that the last one matters. `MaxFaults` bounds the requests that
fail; under fairness it also says that ChannelFinder is back for long enough in the end.
`MaxCommits` bounds the commits one session has queued. In `store` two sessions overlap or
follow each other at one address, so that row ids are given out again; `MaxTxns` = 2 gives two
uploads to one session or one to each, also one after the other, and every disconnect comes on
top. In
`wire` one record has every kind of item and another follows it; two odd items are enough
for one to follow another. Clients of `discovery` do not interact, hence one; three lives
let a server be replaced twice within one search and its hold-off.

`CHECK_DEADLOCK FALSE` is set where the system really ends: a session, the commits of the
bounded number of sessions, an upload, a client that was shut down.

### What the code does not do as documented

| Run | Statement in the repository | What the code does |
|---|---|---|
| `cf_evicted_starts_over` | "so its next commit is treated as initial" (`cf/processor.py:407`) | the next commit raises `KeyError` |
| `wire_cut` | "The TCP data stream will consist of a sequence of messages" (`README.md:137`) | a failed send of an alias or info is forgotten when the description behind it goes out (`dbcb.c:133`): the upload continues behind a cut message |
| `caster_holdoff` | "`reccastMaxHoldoff` sets the upper limit" (`client/README.md:50`) | a hold-off of zero waits without limit (`sockhelpers.c:251`), always so with `reccastMaxHoldoff` 0 |

More disagreements are visible in the model without a run of their own. The passing runs
are configured so that they do not arise, except where stated.

* *ChannelFinder.* With `LostReplies` a repeated write meets channels of its own and
  `_merge_property_lists` drops their iocid ("mark active and update time",
  `cf/processor.py:752`). The start-up sweep, which takes no lock, also marks the channels of
  an IOC that has just connected (the test speaks of "the stale channels",
  `tests/integration/test_single_ioc.py:147`), and `recceiver-clean` those of any connected
  IOC ("whose IOCs have not reconnected", `clean_tool.py:3`). For a channel that is in
  ChannelFinder already and has an alias, `new_channels.remove(alias_name)` raises `KeyError`
  ("update its properties in place", `cf/processor.py:639`). The one query of a disconnect
  returns a page, so that channels beyond it stay Active. A disconnect committed late takes
  the channels of the session that has the same host:port by then. `cf_faulty` has the last
  three and lost replies switched on, and shows what holds all the same.
  `Finish` tells the session success after a push that gave up, although
  `_commit_with_thread` is documented to raise "so the Twisted caller sees a failed Deferred"
  (`cf/processor.py:338`); `GiveUp` evicts an IOC although an earlier commit of it may have
  been written, where `_evict_ioc` says "CF was never written" (`cf/processor.py:409`).
* *Processors.* A processor that raises at the call hides the transaction from the next one
  (`processors.py:131`); run `store` lets the last one raise. A cancellation hides an error
  behind it (`processors.py:134`); run `store` lets the last one cancel.
* *Server.* A message of an unknown MSGID is not skipped ("endpoints must silently ignore
  messages with unknown `MSGID`", `README.md:165`): `dfact` names `cls.ignoreBody`, which is
  bound to no instance (`recast.py:206`), the call raises `TypeError` and the connection is
  lost. It is `RecvUnknown`; RecCaster sends none. A second greeting on a connection would
  replace the session without closing the first (`recast.py:118`); RecCaster greets once.
  `recvDone` divides by the time since the connection was made, which may be zero
  (`recast.py:189`): the call-back raises after the slot was freed, a behaviour that
  `CastReceiver` has as `recvDone` followed by `Disconnect`. An IOC that uploads no record
  leaves an entry with channelcount 0 in `iocs` for good (`cf/processor.py:307`).
* *SQL.* A client that leaves before its first flush hands over a transaction that is not
  initial (`interfaces.py:24` says the first one is), whose `KeyError` removes `db` for good:
  run `store` has it, and `TablesFollow` speaks of the time before. Two sessions at one
  address share a row if their commits overlap (`ReuseEarly`, `dbstore.py:103`). The clean-up
  passes its owner as a bare integer, which sqlite3 refuses (`dbstore.py:83`), so that it
  deletes nothing. And the schema that `README.md:51` names, `server/recceiver.sqlite3`, has
  the columns `rtype` and `rname`, where `dbstore.py` writes `record_type` and
  `record_name`: with it every connected commit fails. The model has the tables that
  `dbstore.py` expects.
* *Wire.* Text that is not UTF-8 raises `UnicodeDecodeError`, which no handler catches
  (`messages.py:158`): the connection is lost, and the client sends the same text after every
  back-off. `_require_length` is exact, where `README.md:166` asks to "ignore extra body
  bytes"; it is this exactness that keeps a wrapped length from being misread, as the mutant
  of `DecodedIsSent` shows.
* *Discovery.* An unreachable address ends the Announcer's round, so that the addresses
  behind it hear nothing (`announcer.py:75`). `errors` is reset at shutdown only
  (`casttcp.c:80`): a client that has lost ten servers always sleeps 50 s before it searches.

### Fairness

`cast_link`: the reactor fires armed timers and completes `loseConnection`. Nothing is
assumed of clients or the network. `session`: a commit that started ends (as `cf_live`
shows for ChannelFinder), and a connection given up by `abort` is closed. `cf_live`: threads
that were started run. IOCs, operators and whoever stops the process may do nothing.
`store`: the reactor runs call-backs, pool threads run what they were given, the other
processors end each commit. `discovery`: the announcer's timer fires, the clients' threads
run and `casterShutdown` completes its two steps; whether a server is ever started is left
open, and at most `MaxFaults` datagrams are lost.

## 4. Proofs

Every invariant, action property and refinement that a passing run checks is also proved, for
all values of the constants. The assumptions on constants are named in the
modules that declare them and hold for every configuration of the program: sets that exist at
run time are finite, limits and nonces are numbers, record ids are not 0. Where a theorem
needs more than the code guarantees, the hypothesis is in the theorem itself and named below.

**`CastReceiver_proofs`**: `TypeCorrect`, `SlotAccountingHolds`, `NoIdleSlotHolds`,
`ParkedOnceHolds`, `SilentPeerNoticedHolds`, and `FlowControlIsFIFO`, the refinement of
`UploadSlots`. The inductive invariant is `TypeOK /\ Parking /\ Counting /\
SilentPeerNoticed`. `SlotAccounting` alone is not inductive: when `isDone` hands a slot on, the
count stays right only if the head of `Wait` was not active and is not the connection that
leaves, which is what `Parking` says (`Wait` holds, once each, exactly the connections that
are accepted and not started; only a started one is active). `NoIdleSlot` needs
`NActive <= maxActive`, hence `Counting`. `ReleaseCounts` is the heart: the three cases of
`isDone`, used for `recvDone` and for `connectionLost`. The refinement maps `BuildProtocol` to
`Arrive` and a release to `Finish`, `Abandon` or a stuttering step.

**`CastLink_proofs`**: `LinkImplementsCastReceiver` – the composition is an implementation of
`CastReceiver`, whose peer is arbitrary, so all of the above holds of it – and
`AtMostOnePingIsOut`, `NoHandlerRaises`, `TheGreetingComesFirst`. The invariant adds `Fine` to
that of the server, a predicate of one connection that says what can be in its two streams
for each place of the client and each phase of the server: the hello comes first and no
session exists before it is read, a pong is the last word, before a pong the server has read
or will read the Done that returns the slot, phase 2 means that the remembered nonce is out
or on its way back. As `Fine` is about one connection, a call-back that admits another one
is two uses of it (`Elsewhere`, `AdmitFine`).

**`CollectionSession_proofs`**: `TypeCorrect`, `NoRecordIsSplit`, `BatchesAreBounded`,
`NothingIsLost`, `InitialIsFirstDisconnectIsLast`, `EnvIsCarriedOn`, `TheLogOnlyGrows`. The
invariant `Coherent` relates log, open transaction and what the client said. `NothingLost`
needs that the open transaction names only ids the client has used (`Tidy`), so that what is
new in it meets nothing older in the log, and that infos and aliases stay with their record
(`Whole`), or a deletion would leave some behind. `LogShift` says that the end of a commit does not change the
log, `FlushKeeps` and `CloseKeeps` what is appended to it.

**`CFProcessor_proofs`**: `TypeCorrect`, `RemoveFindsTheIoc` and `TheLockMovesOn` without
hypotheses, that is with lost replies, overlapping sessions of one host:port, evictions, a
commit thread that raises in the middle of its bookkeeping, kills and sweeps. The invariant
`PInv` also says who is in the queue of the lock and that the thread works for its head.
`TheLockMovesOn` is what `CommitsEnd` needs besides fairness: nobody with commits is outside
the queue, and its head is at work or may begin, so that no order of ends, stops and kills
leaves the lock with nobody. `NothingIsActiveAfterStop` has the hypotheses `cleanOnStop` and
`MaxFaults < sweepRetries`: the sweep is a loop that ChannelFinder can exhaust. Its argument is
that the sweep runs under the lock, that a page is empty only if nothing is left, and that a
commit that gets the lock afterwards finds the processor stopped. `TablesAgree` has two
hypotheses. `iocid` is injective: with overlapping sessions of one host:port it is false. And
either `pushAlwaysRetry` is set or ChannelFinder fails less often than `pushMaxRetries`
(`cf/config.py:58`; the default is not to retry for ever): an eviction leaves a session whose
next commit raises, as run `cf_evicted_starts_over` shows. Its invariant needs `Known`: an IOC
is in `iocs` from its initial commit until its disconnect, and `Ordered`: the first commit of a
chain alone is initial and the last alone a disconnect.

`ChannelFinderFollows` is `InSync`, the purpose of the processor. Its hypotheses are collected
in `Undisturbed`, of which run `cf` is an instance. Each is needed: with the constants of
`MCCFProcessor.cfg`, two sessions and any one of the hypotheses given up, TLC finds `InSync`
violated.

| Hypothesis | Otherwise |
|---|---|
| `iocid` is injective | a late disconnect takes the channels of the next session at its host:port |
| `alwaysRetry` or `MaxFaults < maxRetries` | a push that gave up leaves ChannelFinder as it was |
| `Cardinality(Names) <= queryLimit` | a disconnect marks the channels of the first page only |
| `cleanOnStop`, `MaxFaults < sweepRetries`, no `CanCrash` | Active channels of an earlier life, whose IOCs may not return |
| no `cleanOnStart`, no `CleanTool` | sweeps without the lock mark what a connected IOC has written |
| no `LostReplies` | a write that is repeated after it took effect drops the iocid |

The invariant `YInv` extends that of `TablesAgree` and `Stopped`. `InSync` compares two ends
of a pipeline, and `YInv` says where a channel is in it. *From the clients to the tables*
(`Follows`): what a session has sent is in `_ioc_channels` or in a commit that is not begun,
and never in both, because no record is in two commits of a chain (`Tidy`); an IOC that is
gone has nothing in the tables or its disconnect is still to come. *From the tables to
ChannelFinder* (`Present`): a channel is `Right` – Active exactly when an IOC has it, under one
that does – or it is `Due`, that is, the commit thread is between its bookkeeping and the write
of it. `Writing` says of the thread that what it is about to write is right and covers all
that is due; this is where the cases of `ToWrite` are used, and that the lock keeps the
tables as they were when the queries were answered. `Past` carries the argument across
`stopService` and the next start, where nothing is Active. When the chains are empty nothing
is to come and nothing is due, and the two halves give `InSync`. TLC has checked the parts of
`YInv` on the instance of run `cf`.

**`DBProcessor_proofs`** proves `TypeCorrect`, `FailureClosesTheConnection` and
`FanOutIsABroadcast`, the refinement of `CommitFeed`, for any number of sessions and
arbitrary processors; then `DBIsAProcessor`, by which all of it holds with `"db"`; then
`TablesFollowTheClients`. The hypotheses say when the code keeps what it promises:
`LastOnly(Raises)` for the broadcast and the tables (a processor that raises at the call hides
the transaction from the next one), `LastOnly(Cancels)` for the failure (a cancellation hides
an error behind it), `~ReuseEarly` for the tables (`_commit` finds a row by its address).
`LastOnly` holds of any single processor. `Given` ties what `"db"` was given to what was handed over, and is
read off the refinement; `Apart` and `Saying` then make the transaction that is stored the
next one of its session, whose row belongs to nobody else.

**`Wire_proofs`**: `NothingIsMisread` and `DoneEndsTheUpload`, for any upload, any lengths and
any widths of the length fields. Both are about streams of whole messages of which only the
last may be cut (`StreamIsMessages` in the properties); run `wire_cut` shows that the client
can break it. The invariant says where each message that is not read yet lies in the stream
(`Laid`, `Placed`) and that the server stands at the start of a message or behind its header
(`Synced`). The codec's lemmas carry the rest: `DecodesFits` – the exact length that
`_require_length` asks for is met just when no length has wrapped – and `DecodedIsFaithful`.

**`Discovery_proofs`**: `TypeCorrect`, `NoClientTriesAStaleServer`. `NoStaleServer` alone is
not inductive: `Fresh` says of the datagrams in the socket of a searching client what it says
of the server that was found, `Dated` that a search begins with a life that exists.

*Induction.* The provers cannot instantiate a theorem with an operator parameter, and the
definitions that need induction are therefore recursive functions (`Views`, `Kept`,
`Expectations`). `DataLemmas` proves induction over numbers in a form they can use, for the
set of numbers of which a statement holds. `ViewsDef`, `KeptDef` and `ExpectationsDef` show
with it that each function satisfies its equation, and lemmas such as `ReplayAppend`,
`KeptProperties` and `ExpectationsGrow` how it grows.

*Only model-checked.* Liveness and fairness, which are out of the prover's reach:
`SlotsReturn`, `WaitersAdmitted`, `DisconnectCommitted`, `StaleGoes`, `CommitsEnd`,
`DisconnectReachesAll`, `ShutdownEnds`, `Reconnects`.

## 5. Not modelled, and plan

Not modelled: metrics, which nothing reads back; the IOC integration (`castinit.c`), which
holds no protocol state; reading of the configuration. Inside the modelled parts: the choice
of properties written to ChannelFinder beyond iocid, recceiverID and pvStatus and the creation
of property names at start-up; Del Record in `CFProcessor`, where it has no effect since ids
are compared with names; infos in the SQL tables and rows of earlier lives; the datagram
helpers and `shRecvIgnore`, which nothing reaches; the emulation of `socketpair`.

Every safety property of the passing runs is proved. Next: the safety parts of more liveness
properties, as `TheLockMovesOn` for `CommitsEnd`: that what a killed process left is in the
hands of a sweep, that a client who lost its server is on its way to search again.
