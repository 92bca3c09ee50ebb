# Verification of the FreeSWITCH router

The repository is a call router "S2" that sits between an origin switch S1, an
intermediate switch S3 and a final switch S4. A call arrives from S1 with a
caller and a destination number (ANI-1, DNIS-1), goes out to S3 under a number
of the router's own (a DID taken from a pool), comes back from S3 addressed to
that DID, and is sent on to S4 with the original numbers. The state that makes
this work is small and shared by many: which DID is held for which call.

This directory holds TLA+ modules of the parts that keep that state, TLC
configurations that check them, and theorems about them checked by TLAPS.

    tlc -workers 2 -config MCSipServer_safety.cfg MCSipServer.tla
    tlapm SipServerProofs.tla

## 1. The system

| Component | Source | State | Operations | Modelled by |
|---|---|---|---|---|
| SIP server | `src/sip/sip_server_dynamic.c` | lists of DIDs, providers, routes and active calls in memory, each with a mutex; tables `dids`, `call_records` | INVITE from an origin, INVITE of the return leg, reload, stale and expiry passes | `SipServer` |
| Lua route handler | `route_handler_corrected.lua`, written by `src/freeswitch/fs_generate_module2_dialplan.c` | table `dids`; one session per call leg | select and mark a DID, bridge, look up, release | `RouteHandler` |
| Route commands, dialplan files | `src/commands/route_cmd.c`, the same generator | table `routes`, dialplan directory, cache directory, what FreeSWITCH has loaded | route add, delete, reload, cache clear, cache restore | `Dialplan` (the steps), `Routing` (what the files do to a call) |
| Call validator | `src/validation/call_validator.c`, `src/commands/validation_cmd.c` | list of records under a mutex; table `call_validations` | validation pass, expiry, the stages of `validation test` | `CallValidator` |
| DID commands | `src/commands/did_cmd.c` | table `dids` | add, delete, release, import | actions `Operator...` of `SipServer` and `RouteHandler`; import in `Process` |
| Provider list | the provider list of the SIP server | list in memory with call counts, under a mutex | look-ups by address and role, reload | `ProviderTable` |
| Provider commands | `src/commands/provider_cmd.c`, `src/freeswitch/fs_xml_generator.c` | table `providers`, gateway, backup and mapping files | add, delete, reload | `ProviderFiles` |
| Database layer | `src/db/database_pg.c` | one connection, one mutex and one session per process | connect, query, prepared statements, reset, close | `Connection`; in every other module a failed statement and an empty result are the same NULL |
| Router, load balancer | `src/router/` | none | route a number | no: see 7 |
| HTTP API, FreeSWITCH XML handler | `src/core/server.c`, `src/api/`, `src/sip/freeswitch_handler.c` | none | requests | no |
| Program life cycle | `src/main.c`, `src/cli/cli.c` | threads, global pointers, flags a signal clears | start, serve or prompt, stop | `Process`; restart on the tables in `SipServer` |
| Second dialplan tree | `src/freeswitch/fs_xml_generator.c` | files below `/etc/freeswitch/conf` | written at start-up | `Routing` |
| Reports | other commands | none | SELECTs and printing | no |

How they meet:

* All of them meet in PostgreSQL. The daemon (`-d`) runs the SIP server, the
  validator and the HTTP API in one process; every command entered at a shell
  is another process; every FreeSWITCH session runs the Lua script with a
  connection of its own. No transaction spans two statements anywhere except in
  `did import`.
* Inside the daemon, the listen thread and the monitor thread share four lists,
  and a pointer found under a mutex is used after the mutex was released.
* The validator's thread, the thread of `main.c` that expires records and a
  command at the prompt share the record list.
* The route commands and FreeSWITCH meet in a directory that nothing locks, and
  so do the provider commands. Two generators write route files, each below a
  directory of its own and with a script of its own; FreeSWITCH reads one.
* All threads of a process, and the command at its prompt, share one connection
  and so one transaction, if a command has opened one.

What makes it hard: a reload replaces a list a handler still points into, and
its query is older than its installation; `db_query` failures are not looked
at, so memory and table part; UDP repeats INVITEs; FreeSWITCH, a shell command
or the daemon may end between two statements; mutexes are not recursive, and
two functions lock one their caller holds. `PROJECT.json` lists each such place
at its line, with the property that is about it.

What each component owes its users:

* SIP server, Lua handler: a DID stands for one call at a time; a DID in use is
  somebody's, or the way it was lost is known; the table shows what was decided;
  the threads keep working.
* Lua handler: a call goes on to S4 with the numbers it came with.
* Route commands: what FreeSWITCH routes by is what the table says.
* Provider list: calls are spread over the intermediates, none gets more than
  it can take, and the list follows the table. Provider commands: each provider
  has its files, and each mapping its provider.
* Call validator: pointers stay valid, rows follow records, and both the thread
  and the command get on.
* Process: nothing is used after it was destroyed, what was counted as imported
  is there, and a shutdown ends.
* Routes: a call follows the route that took it, with its own number at the end.

## 2. Modules

| Module | What it is |
|---|---|
| `DidPool` | Abstract: calls take DIDs one at a time, none that is out, until something the implementation does not guard against breaks the pool. Two implementations. |
| `SipServer` | The SIP server, two threads, operators, failures, restarts. |
| `SipServerProofs` | Its theorems. |
| `RouteHandler` | Any number of sessions of the script, S3, operators, the end of FreeSWITCH. |
| `RouteHandlerProofs` | Its theorems. |
| `Dialplan` | Any number of processes running route commands. |
| `DialplanProofs` | Its theorems. |
| `ProviderTable` | The listen thread choosing providers while the monitor replaces the list and operators edit the table. |
| `ProviderTableProofs` | Its theorems. |
| `ProviderFiles` | Any number of processes running provider commands. |
| `ProviderFilesProofs` | Its theorems. |
| `CallValidator` | The validation thread, expiry and the command. |
| `CallValidatorProofs` | Its theorems. |
| `Connection` | One connection to PostgreSQL: reset, session, transaction. Used by `Process`. |
| `Process` | One process from start to end: the three ways to run, every thread, signals, an import. |
| `ProcessProofs` | Its theorems. |
| `Routing` | Routes and providers on one pair of tables, both trees of files, and what FreeSWITCH makes of a call by them. |
| `RoutingProofs` | Its theorems. |
| `MC...` | Symmetry sets for TLC; each `.cfg` belongs to the MC module it is named after. |

Each specification starts with the slips of its helpers (`FreeDids_AlsoInUse`
next to `FreeDids`, for example). They are in no specification: each, put in
the place of the helper, is a bug one could write and breaks a property, which
shows that the property is about the code.

### SipServer

State: `db` (table `dids`, the call each row is held for), `dids` (the list in
memory, with whether `allocated_at` is set and for how long), `did_mutex`,
`calls` (`active_calls`), `records` (`call_records`), the listen thread's
position, INVITE, selected DID and found call, and the monitor's position and
query result. `dangling` says that the node the listen thread points into has
been freed; what it then reads is any string (`ReadDid`).

| Action | Code |
|---|---|
| `ReceiveOrigin`, `ReceiveReturn` | `recvfrom`, header extraction, provider match; for a return leg also the search of `active_calls` |
| `AllocateDid`, `NoDidAvailable`, `PersistAllocation` | `allocate_did`: scan and mark under `did_mutex`, then the UPDATE, then unlock |
| `CreateCall` | reads `did->did`, prepends the call, INSERTs its record |
| `FinalNotFound`, `AdvanceCall` | return leg: route gone, or stage 2 and its UPDATE |
| `ReleaseDid`, `PersistRelease` | `release_did` |
| `LoadDids`, `InstallDids` | `load_dids_from_db`: query, then lock and replace |
| `CleanStaleDids`, `CleanBlocks`, `ExpireCalls`, `Sleep` | the rest of `monitor_thread` |
| `OperatorRelease/Delete/Add`, `Restart` | `did` commands, process restart |

Simplifications: an INVITE that is rejected before it touches the pool is not a
step; INVITEs carry the headers SIP requires; prepending a call and inserting
its record are one step, since no other thread reads `call_records`; the DELETE
of records older than a day is left out; time is counted in the monitor's 30 s
sleeps. All headers read as `To` (`CallKey`), which is what the static buffer
of `extract_sip_header` makes of them.

`ExpireCalls` is a pass in one step with one UPDATE per expired call, each of
which may fail by itself. `lost` is history: the DIDs nobody will free any more,
by an expired call, a release that failed or found no node, a read through a
freed node, a restart. A `CleanBlocks` ends the monitor for good (`mpc` is
"stuck") and leaves `did_mutex` with it.

`causes` records what has gone wrong with the pool. There are five ways: an
UPDATE of an allocation that failed, a reload older than an allocation, a read
through a freed node, a second return leg, and an operator who takes away a DID
in use. Each alone leads to two calls on one DID, and nothing else does: that
is the content of `ExclusiveUnlessCaused`.

### RouteHandler

State: `row` (table `dids`), the stage of each origin session and the DID it
picked, `legs` (calls at S3), `returning` (return sessions between look-up and
release), and history. `SelectDid` and `MarkDid` are two actions since the
script makes two statements; so are `FindOriginal` and `ReleaseAndForward`. S3
is external: it brings a call back, drops it, or brings it back again.
Four causes break the pool: two sessions overlapping in select and mark, a
failed UPDATE, a return leg brought twice, an operator. A caller who dials the
number of a DID in use is such a second return leg: the stage that the files
give him (`Routing`) looks at nothing but the number.

### Dialplan

State: `routes`, the ids with a file in the dialplan and in the cache
directory, the ids FreeSWITCH has loaded, and per process a position in its
command, the id at hand and the ids still to visit. Every query, unlink, file
and reload is a step. Two histories say where commands that overlap go wrong:
`overtaken` has the routes whose file was written, or whose row was read by a
generator yet to write, while they were being deleted; `doubtful` the names whose
look-up failed or fell between another process's look-up and insert. FreeSWITCH
may not get a reload (`fs_reload_config` ignores what `system` returns), and
`missed` remembers that until the next one it gets.
A file is an id: what it says is left out. The list `cache_head`, which
is written and never read, is left out too. `fs_generate_module2_route_dialplan`
ends with a reload and so do its callers, hence "reload" and "again".

### ProviderTable

State: `table` (the active rows of `providers`), `list` (the list in memory, as
the count of calls of each entry), the listen thread's position and the two
pointers it holds, the monitor's position and query result. A reload turns the
pointers into `Freed`: what is read through one may be any id (`Shown`), and
what `current_calls++` through one changes may be any entry (`Increments`).
`sent` and `stray` are history: how many calls went to whom since the reload,
and whether a freed entry was used.

| Action | Code |
|---|---|
| `ReceiveInvite` | `find_provider_by_ip` |
| `FindIntermediate`, `FindFinal`, `NotRouted` | the role of the source, `find_provider_by_role` twice, 503 and 501 |
| `NoDidAvailable`, `CreateCall`, `CountCall` | `allocate_did` failed; the call and its record; the two `current_calls++` |
| `LoadProviders`, `InstallProviders` | `load_providers_from_db`: query, then lock and replace |
| `InsertProvider`, `DeleteProvider` | the statements of `provider add` and `provider delete` |

DIDs and calls are in `SipServer`, which takes the outcome of a look-up as
given; here it is the DID that is there or not. The monitor is the same thread
in both: after the providers it reloads the DIDs and cleans them up
(`FinishPass`), and may wait there for its own mutex for good (`BlockOnDids`).

### ProviderFiles

State: `providers` (row id and name), the ids with a gateway, a backup and a
mapping, and per process a position in its command, the name it was given, the
id at hand and the ids still to generate. Renaming the old gateway, opening the
new one and writing the mapping are three steps, as are the SELECT, the unlinks
and the DELETE of `provider delete`, which selects by name, unlinks by uuid and
deletes by name again. Gateways are written below
`/etc/freeswitch/sip_profiles` but unlinked below `/etc/freeswitch/conf`, so
`UnlinkFiles` removes the mapping only.

### CallValidator

State: the record list, the validation thread's position in its pass, the
command's position in its script and the record it points at, and
`call_validations`. The mutex is held exactly while the thread is in a pass
(`Held`). `Reports` and `LiveCalls` say what queries on `active_calls` and
`calls` would yield: they name columns that no schema file has, so with the
schemas of the repository both are empty; the runs check both ways. The command
passes one address twice to `validate_call_routing`, so no call is "diverted".
`expected_state` is not changed after a record is created, as in the code; a
call that makes progress is therefore a mismatch and is hung up after
`AttemptLimit` passes.

### Connection and Process

`Connection` keeps what the threads of a process share without knowing: the
session. A statement is one step, since the mutex is held from the check of the
connection to the answer. `Statement(rows, ok)` is what `db_query` or
`db_execute` does of a statement that writes these rows; it may find the
connection lost, be refused, or succeed, and in a transaction that was aborted
it must be refused. `undone` remembers why transactions did not commit.

`Process` EXTENDS it. `main` is where `main()` is, and `val`, `mon`, `lis` and
`smn` are its four threads: the validator's, the one of `main.c` that cleans up
after it, and the two of the SIP server.

| Action | Code |
|---|---|
| `ConnectDatabase` ... `StartServers` | `main()` up to its loop; `pthread_create` may fail at each call |
| `Serve`, `CheckFlag`, `ReadLine`, `EndOfFile`, `Exit` | the daemon's loop, the shell's |
| `Signal`, `SignalAfterShell` | the handler; `g_cli` is freed and not reset when the shell ends |
| `SelectProvider` ... `CommitImport` | `did import`: SELECT, BEGIN, one INSERT per line, COMMIT |
| `TestCall` | "validation test", the only code that opens a record to watch |
| `Validate`, `HangUp`, `UpdateRecord`, `MarkFailed` | a pass that may find a record to hang up: an event is written, an UPDATE names a column `call_records` does not have, the next one succeeds, and the thread waits for its own mutex |
| `JoinMonitor` ... `Return` | the end of `main()`; `early` is the clean-up that skips the joins |
| `UseFreed`, `JoinNothing` | undefined behaviour: the process dies or nothing happens |

What the threads do to DIDs, calls and records is in `SipServer` and
`CallValidator`. HTTP is left out: its handlers share no state with the rest.

### Routing

State: the tables `providers` and `routes`, `dids.provider_id` and the number a
DID stands for, the files of both trees, what FreeSWITCH has loaded, and for each
call the leg of it that is at S2. A pattern is the set of numbers it matches.
`Taking` is the first file: its two extensions take every number between them,
so no other file is ever asked. The last two arguments of a script are a record,
`next` and `final`; an empty one is merged with the blanks around it, so that
the second moves up to the place of an empty first (`Arguments`), which is what
the file of a route makes of a deleted provider. A caller may dial any number, those of the pool
too, and comes then by the return extension. `odd` keeps what set a call apart
from the documented flow: a pattern that took a
call that had been sent out ("pattern"), a return stage for a call no route sent
out ("unsent"), files that changed while it was out ("moved"), another call that
came with its DID and freed it ("taken"), or the simple script ("simple"). A new
route's file may come anywhere in the order of names: `route_10.xml` comes
before `route_9.xml`.

Taken from FreeSWITCH: it asks the extensions in the order of the files, splits
arguments at blanks, and takes the contexts that `public.xml` and the files it
includes both open as one context, as the generator means it.

## 3. Runs

| Run | Asks | Result |
|---|---|---|
| `pool_safety` | SIP server: refinement of `DidPool` (exclusive DIDs), who or what accounts for each DID in use, allocations durable, rows that pass through free, when the monitor can block, records in step | holds; 11 million states |
| `pool_liveness` | SIP server: INVITEs are answered, memory and table converge, unless the monitor has locked itself out | holds, through both ways to that lock-out; 1 million states |
| `monitor_blocks` | "Reload data from database every 30 seconds" | refuted: after five minutes without a successful reload the stale pass locks `did_mutex` twice |
| `route_safety` | Lua handler: numbers restored, DIDs accounted for, who releases a row, refinement of `DidPool`, the pool refills | holds |
| `dialplan_safety` | Route commands: no file without route, no route without file, what is loaded, a name given twice | holds; 7.3 million states |
| `provider_list` | Provider list: even spread, calls above capacity, list and table, capacity comes back | holds; 651 thousand states |
| `provider_files` | Provider commands: mappings have providers and gateways, providers have files | holds; 2.5 million states |
| `process_life` | One process: nothing destroyed is used, imports are kept, shutdown ends unless a thread waits for itself | holds; 834 thousand states |
| `routing` | Each call follows its route, who takes whose DID, a call ends | holds; 842 thousand states |
| `second_route` | "Route is now active and ready to handle Module 2 call flow" | refuted: the first file takes the calls of every other route and rejects them |
| `validator_safety` | Validator: pointers, rows, the command returns | holds; 704 thousand states |
| `validator_blocks` | "Check every 5 seconds" | refuted: the thread locks `validation_mutex` twice at the first call it hangs up |

Facts met on the way that have no run of their own:

* A reload of the SIP server queries before it locks, so its result may be older
  than an allocation, and the DID of a waiting call is offered again. Two
  sessions of the Lua script may select one DID before either marks it. Both are
  causes in `ExclusiveUnlessCaused` and `RestoredUnlessCaused`, and each alone
  breaks the pool.
* `extract_sip_header` returns one static buffer, so Call-ID, From and To all
  read as To and a return leg is matched by To (`CallKey`).
* `did import` reports numbers the table already has as imported (ON CONFLICT DO
  NOTHING answers like an insertion), and counts every line before it knows
  whether COMMIT worked. A connection that is reset in the middle takes the first
  lines with it and commits the others one by one; a statement that fails in
  another thread takes all. `ImportKept` says that nothing else does.
* `force_hangup_invalid_call` updates `call_records.failure_reason`, which no
  schema file has, so the statement always fails: during an import it aborts the
  transaction, the validator's own event included.
* Only "validation test" opens records, so the validator of the daemon watches an
  empty list.
* `sip_server_destroy` joins the SIP threads a second time; when a thread was
  never created, both joins are of an unset handle. A signal after the shell
  ended uses the freed `g_cli`.
* The simple script of the second tree sends a call out under its own number;
  when it comes back it matches the pattern again and goes out again, without
  end. A pattern that matches a DID does the same in the first tree, until the
  pool is empty (`CallsEnd`).
* Routes added or deleted while a daemon runs do not reach the second tree.
* Whoever dials a number of the pool is taken for a call that comes back: he goes
  on to S4 under the number of the call that has the DID, and frees it; given to
  a third call, it brings the first back with that call's number.
  `FollowsRoute` sets such a call apart ("taken") and shows that it takes a
  dialled number of the pool.
* A DID whose return leg never comes is in use for ever: the stale pass ("Clean up
  stale DIDs (allocated > 5 minutes ago)", `sip_server_dynamic.c:776`) looks for
  `allocated_at > 0`, which the reload just before it has cleared, so it finds
  something only after five minutes of failed reloads, and then blocks
  (`monitor_blocks`). When the call expires the DID is not released either.
  `InUseIsAccountedFor` names all ways a DID is lost, and shows there is no other.
* Two `route add` of one name both succeed when both look before either inserts:
  the column is not unique. `NamesUnique` shows that this and a failed look-up are
  the only ways.
* A generator with an older result writes the file of a route that another process
  is deleting; the row is gone then, FreeSWITCH routes by the file, and no command
  removes it. `FilesHaveRoutes` shows that this, and a cache restore in the same
  place, are the only ways to such a file.
* A route whose intermediate provider was deleted sends its calls out to the final
  one: `ON DELETE SET NULL` empties the argument and the next moves up. If that
  provider owns DIDs, the call leaves for it with a DID in place of its number.
  Without the origin provider the return stage has no final one to go to.
  `FollowsRoute` states both.
* A shutdown joins a validator thread, and a SIP monitor, that may wait for its own
  mutex, and then never ends; `ShutdownEnds` shows that nothing else holds it up.
  The clean-up after a one-shot command destroys the validator and the connection
  under the thread of `main.c`, which the other shutdown joins first;
  `UsesLive` shows that no other thread is met so.
* "Check if DID is already in use" in the validator never fails: `in_use`
  arrives as `t` or `f`, and `atoi` makes 0 of both.
* No statement writes `providers.current_calls` and nothing lowers the count of
  an entry, so `capacity` bounds calls per 30 s, not calls in progress. This is
  why `SentBounded` counts since the last reload, and why it needs showing that
  capacity comes back (`CapacityReturns`).
* The last provider deleted stays in the list of the SIP server, since an empty
  table looks like a failed query; `ListConverges` excludes that table.
* `provider delete` leaves the gateway of the provider behind (see
  `ProviderFiles` above), so there is no property "gateways have providers".
  Two commands that overlap (a delete and a reload) leave a mapping as well.
* Deleting every DID of the table while one is in use in memory leads to the
  same blocked monitor as `monitor_blocks` without any failed query, since an
  empty table looks like a failed query.
* `PoolRefills` excludes the DIDs of calls S3 did not bring back, which the
  script leaves marked for ever.

### Bounds, and why they are enough

* Two DIDs: one to hand out twice and one to tell "the first free" from "any".
  Two numbers: two calls that are told apart, and two that are not. Three
  INVITEs: two origin legs and a return leg that hits the wrong one, or a leg,
  its return and the next taker of its DID. All orders of the two threads.
* `StaleLimit` stands for ten sleeps and `CallLimit` for 120: `pool_safety`
  takes 0 for both, so that age is reached after a single sleep and every pass
  of the monitor can find something; the other runs take 1. The code compares
  with `>`, and so does the model, so the smallest limit has the same cases.
* `pool_safety` has a failure, an edit and a restart: each cause and each way to
  lose a DID arises from one of them or from none. `pool_liveness` has one DID,
  two failures, two edits and a restart: with `StaleLimit` 1, two failed reloads in
  a row, or the only row deleted while it is in use, take the monitor to the mutex
  it holds, unless the row is added again in time, and the handlers meet it there
  and before.
* Two calls and two DIDs for the script: one session overlaps another in every
  statement. Two failures, two drops, a repeated leg and two releases make every
  pair of causes meet.
* Two processes and two routes for the route commands: one route deleted while
  another is written. Names are interchangeable, and so are processes.
* Two intermediates of capacity 1 and 2, one origin and one final: a full and a
  free one, equal and unequal counts. Four INVITEs fill both and ask once more.
  Two edits and a failed query: the list is one or two changes behind, or a
  table is emptied and filled. Initial tables are all 16 subsets.
* Two processes, two names and three rows for the provider commands: a name
  given again to a second row while a delete of the first is under way, and a
  third row that is not concerned. One failure and one stop.
* One process; two lines to import, one of which the table may have, one event;
  one lost connection and one statement refused by the database: a transaction
  is cut or aborted at each place, and the other half goes on. Two lines at the
  prompt: a record is opened, and an import runs while the validator hangs it up.
* `routing`: one place for a route, three providers, one DID, a pattern that leaves
  the pool alone and one that takes the DID too, two calls, each to a number or to
  the DID, and either tree: a provider deleted under a call, files that change or
  go while it is out, a DID taken by an outsider or used again. That a third call
  gets the DID so taken, and the first comes back with its number, is left to the
  theorem, which has any number of calls and routes. `second_route` has two routes
  with no number in common.
* For the validator: limits 1, 2, 3, 4 stand for 3 passes, 6, 12 and 720 sleeps
  in the same order; a sleep may last up to `MaxSleep`; two tests, so that the
  list has two records and the record of one is removed under the other.

Deadlock is checked where steps are always possible (`Dialplan`,
`ProviderFiles`). It is not where the system may stop: `Process` ends, its threads
and those of `CallValidator` and `ProviderTable` may block for good
(`validator_blocks`, `monitor_blocks`), and so may both threads of `SipServer`; nor
where the model stops when its bounds are used up (`RouteHandler`, `Routing`).

## 4. Fairness

* `SipServer`: strong fairness of each thread. Both are threads of a process the
  operating system schedules; the other thread holds `did_mutex` for a pass
  over the list and an UPDATE and then sleeps 30 s or waits for a datagram, so
  a waiting thread is not passed over for ever. Nothing is assumed of INVITEs,
  operators, failures and restarts, and nothing of a monitor that has locked
  itself out: it waits for itself, no step of it is enabled, and whoever needs
  `did_mutex` waits with it. `InviteAnswered` and `PoolsConverge` end there.
* `RouteHandler`: a session that has started runs to its end, and S3 sends each
  call it has back or drops it (a SIP call ends). Nothing is assumed of
  operators and of the end of FreeSWITCH.
* `CallValidator`: weak fairness of the validation thread, strong fairness of
  the command, which waits for a mutex that is free for five seconds after
  every pass.
* `ProviderTable`: weak fairness of an INVITE that has begun and of the
  monitor. Each waits for the other only for a pass over the list, but the
  monitor may also lock itself out in the part of its loop that is about DIDs
  (`BlockOnDids`, which here may happen in any pass). No step of it is enabled
  then, so that fairness asks nothing of it, and `ListConverges` and
  `CapacityReturns` end there. Nothing is assumed of new INVITEs, operators and
  failures, nor of whether the monitor is ever stuck.
* `Process`: weak fairness of `main()` and of each thread, all of them threads of
  one process; a thread that waits (for a join, for a mutex) is disabled. Nothing
  is assumed of the user, of signals, of the network and of crashes.
* `Routing`: FreeSWITCH handles a leg it got, and S3 brings a call back or ends
  it. Nothing is assumed of commands.
* `Dialplan` and `ProviderFiles` state no liveness and assume none.

## 5. What is proved

For every value of the constants, from the named assumptions of the modules
(`SipServerAssumption`, `RouteHandlerAssumption`, `ProviderTableAssumption`,
`BoundsAssumption`, `ConnectionAssumption`, `ProcessAssumption`,
`RoutingAssumption`, `CallValidatorAssumption`), which say that bounds, limits
and capacities are naturals, that the limits of the code come in the order they
have there, that "none" is not a call, that a provider is not an origin and an
intermediate and that an event is no line of a file.

Every invariant and every action property that a passing run checks is stated
by a theorem, and so are both refinements of `DidPool`. Each inductive invariant
was checked by TLC on a small instance before it was proved. Two theorems state
what no run names: `Exclusive` (`ExclusiveUnlessCaused`), which `PoolKept`
contains, and `RowKept` (`LegKeepsItsRow`), which follows the same row as
`ReleasedByItsCall`.

| Theorem | Argument |
|---|---|
| `SipServerProofs!TypeCorrect` | one step at a time; the pointer of the listen thread names a call of the table unless `dangling` |
| `SipServerProofs!BlocksRarely` | Inductive with an age bound: a DID's allocation is no older than the number of reloads in a row that kept the list, adjusted by where the monitor is in its round |
| `SipServerProofs!Exclusive` | Until a cause: who holds `did_mutex` is where its position says; lists in memory and result are nested in what the table holds; a DID carried by a waiting call is held in the table and in memory and in no result not yet installed as free; the DID in the listen thread's hand is carried by no call |
| `SipServerProofs!Implements` | From the same invariant, each step is a `Take`, a `GiveBack`, a `Break` or a stutter of `DidPool` |
| `SipServerProofs!Accounted` | The row of a DID is followed from the UPDATE that took it to the call that carries it and to the UPDATE that frees it; every step hands it on, and those that drop the call or free the node put the DID into `lost` |
| `SipServerProofs!Durable` | Between the change of the list and the UPDATE the listen thread holds `did_mutex`, so no reload comes between and the list says what the UPDATE writes (`InTransit`); without operators every node has a row |
| `SipServerProofs!Recorded` | The call found is of the key the UPDATE goes by (`FoundMatches`), as long as it has not been freed; each call has a record with its key |
| `SipServerProofs!RowsPass` | A DID free in the list is free in the table, but for one whose release is on its way; the row an allocation on its way will write is still free (`FreeInv`). A failed release or an old result is what breaks it |
| `RouteHandlerProofs!TypeCorrect`, `Restored`, `RowKept`, `Accounted`, `ReturnsOnly` | Until a cause: the row of each call that is out is marked with that call, each call is in one place, and two calls that are out have different DIDs |
| `RouteHandlerProofs!Implements` | As for the SIP server |
| `Promised` in both | From `Implements` and the steps of `DidPool` alone: a pool that keeps to it has no two calls under one DID |
| `DialplanProofs!TypeCorrect` | directly |
| `DialplanProofs!FilesBelong` | A delete that has reached the row still has both files gone, and the rows a generator is yet to write are in the table, but for the overtaken |
| `DialplanProofs!Loads` | As a debt: if directory and loaded files differ, some process is between its change and its reload, or the last reload failed |
| `DialplanProofs!RoutesServed` | A row without a file is somebody's task: of a process about to read the table, with the row on its list, or deleting it |
| `DialplanProofs!NamesDiffer` | A name about to be inserted is in no row and in no other hand that is about to insert it, but for the doubtful |
| `ProviderTableProofs!TypeCorrect` | directly; a chosen intermediate is in the list until the list is freed |
| `ProviderTableProofs!Spread`, `Bounded` | The count of an entry is the number of calls sent to it, less the one between `CreateCall` and `CountCall`, unless a freed entry was used; the intermediate chosen has the least count, below its capacity, until it is counted. A freed pointer raises `sent` by at most one, before anything is chosen from the new list |
| `ProviderFilesProofs!TypeCorrect` | directly |
| `ProviderFilesProofs!GatewaysKept` | A mapping is written only after its gateway was, and a gateway goes only into its backup |
| `ProviderFilesProofs!MappingsBelong` | While commands do not overlap one process runs at most; the rows it is about to write are in the table, and a delete that has reached the row has the mapping gone |
| `ProviderFilesProofs!ProvidersServed` | A row without its gateway or mapping is on the list, or in the hand, of a process that writes it, or of a delete that will remove it |
| `CallValidatorProofs!TypeCorrect` | What is left of a command is an end of its script (`ScriptOK`), and each place of the command goes with the stage at its head; one record per command counted |
| `CallValidatorProofs!PointerStays` | A pass drops a record only when its call has hung up or is FAILED, the expiry thread only when it has hung up. A call hangs up in the last stage of the one test that works on it, which comes after every use of the pointer; one test call has one record (`CallsOK`), a live call never hangs up, and nothing in the list is ever FAILED (`HungUpOK`): the thread that would write it blocks on its mutex first |
| `CallValidatorProofs!RowsShow` | The row of a record shows its state, or the state the command is about to write there (`Shown`); nobody moves the record of a live call, nor one whose row is not there yet (`Unmoved`) |
| `ProcessProofs!TypeCorrect` | one step at a time, from what each operation of `Connection` does to the transaction |
| `ProcessProofs!NothingFreedIsUsed` | main() is behind the join of a thread wherever it has destroyed something the thread uses; the clean-ups that join less come where there are no SIP threads |
| `ProcessProofs!Imported` | In an open transaction the table stands where the import found it and what was answered waits; without one it is in the table already; a refused transaction leaves the table as it was |
| `RoutingProofs!TypeCorrect` | directly; the first file exists because ids are well ordered |
| `RoutingProofs!Follows` | A call that was sent out and that nothing set apart carries a DID that stands for the number dialled; whoever frees that DID marks it. As long as nobody has dialled a number of the pool, every call sent out has a DID of its own that nobody else carries, so that none is taken. Nothing is assumed of the numbers dialled, only that the DIDs are among the numbers one can dial |

The invariants named by the runs are not inductive by themselves: exclusivity
in memory says nothing of the table the next reload installs, and "loaded is
what is there when nobody runs" says nothing of the moments in between.

## 6. Only model-checked

Liveness and everything that needs fairness: `InviteAnswered`, `PoolsConverge`,
`PoolRefills`, `CommandReturns`, `ListConverges`, `CapacityReturns`,
`ShutdownEnds` and `CallsEnd`, which are out of the prover's reach. The
refuted properties are counterexamples, which TLC finds on the smallest
instance that has them.

## 7. Not modelled

* Routing by `router_route_call`: its statement uses SQLite's `GLOB`, which
  PostgreSQL rejects, so no request through the HTTP API or the XML handler
  finds a route, and no later statement of it runs. The load balancer returns
  its argument.
* SQL functions `allocate_did` and `release_did` of the schemas: no code calls
  them.
* Commands that only report; formatting, logging, configuration files.
* The scripts under `scripts/` other than the handler the generator writes, and
  the sources the Makefile does not build (`state_sync_service.c`,
  `freeswitch_integration.c`, `fs_router_api.c`, `provider_mgmt.c`,
  `monitor_fix.c`, `main_module2_update.c`, `tests_disabled/`).
* The XML written at start-up that depends on no table (profiles, contexts,
  modules), and what an earlier file's test extension does.

## 8. Plan

Built in this order, the most important first: `DidPool`, `SipServer`,
`RouteHandler`, `CallValidator`, `Dialplan`, `ProviderTable`, `ProviderFiles`,
`Connection`, `Process`, `Routing`, and the theorems of each. What is left:

1. `SharedPool`: `SipServer` and `RouteHandler` on one table `dids`, each
   unaware of the other, and what is left of the theorems of each.
2. Action properties of the route and provider commands: in which order rows and
   files go, where a step and not a state is what can be wrong.
