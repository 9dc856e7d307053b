# Remote attestation: TLA+ specifications, model checking and proofs

This directory models the remote attestation infrastructure of this repository:
the server processes (manager, verifier forwarder, verifier, extractor), the
MySQL tables and trigger they share, and the attestator that is linked into a
protected application. All specifications are plain TLA+; the properties are
checked by TLC on small instances, and all but the liveness properties are proved with
TLAPS for every instance.

`PROJECT.json` maps each definition to the lines it models and lists runs,
seeded faults (mutants), findings, hazards and theorems.

## 1. Inventory

| Component | Source | State it keeps | Operations |
|---|---|---|---|
| Database | `setup/create_tables/00_remote_attestation_tables.sql`, `ra_database.[ch]` | sessions, prepared data (nonce + expected bytes), requests, reaction status per application | queries of `ra_db_*`, procedure `RequestsSanitizer`, trigger `startup_attestation` |
| Manager, connection listener | `manager.c`, `main` and `asclWebSocketDispatcherMessage` | the client object of the callback, one event slot per thread | connection open: start session, status UNKNOWN, pass client; connection close: close session, status UNKNOWN, broadcast; SIGINT |
| Manager, actual managers | `manager.c`, `actual_manager_routine` | list of clients, scheduler queue, mutex and condition | wait; time-out: serve the head; event: client up, client down, die |
| Manager, requests | `manager.c`, `serve_client`, `attest_client_at_startup`, `send_ra_request` | one open transaction | choose nonce, insert, send, commit or roll back, launch extractor |
| Scheduler queue | `scheduler_queue.c`, `generic_list.c` | delta queue of clients | insert, remove, update time, remove all of a client |
| Verifier forwarder, verifier | `verifier_forwarder.c`, `verifier.c` | none; one process per response | stamp, look up, compare, set COMPROMISED, finalize |
| Extractor | `extractor.c` | the parsed ADS, the bytes of `.text`, two counters; processes forked by the manager | parse arguments, load, then per pass: draw a nonce, set it, prepare, insert; report |
| Attestator (client) | `attestator.c` | data table, connection, initialization status, exit flag | constructor, polling thread with retries, attestation routine, exit handler |
| Data table and areas (client and extractor) | `ra_data_table.c`, `ra_memory.c` | areas with their blocks, current nonce, prepared data, AID, number | parse and dump, insert and remove, find a byte, set and get |
| Data preparation (client and extractor) | `ra_nonce_interpretation_*.c`, `ra_data_preparation*.c`, `generic_functions.c`, `ra_goldback_partitions.h`, `ra_nonce_generation.c`, `ra_do_hash_*.c` | none | nonce -> area, generator, offset; walk over the area; hash |
| Lists and client objects (server) | `generic_list.c`, `ra_client.c`, `verifiers_list.c` | list and counter | insert, find, remove, destroy; compare; write to a file and read back |
| Build-time tools | `AnnotationInterpreter`, `scripts`, `setup` | files | generate tables, compile, deploy |

Interactions: clients and server talk through ACCL/ASCL WebSockets (external).
The listener hands clients to manager threads by a slot, a mutex and a
condition variable. Manager, verifiers and extractors share nothing but the
database, where every call opens its own connection in autocommit mode; the one
explicit transaction is that of `send_ra_request`.

What is hard: threads that wait without testing a predicate; a client object shared
between slots; a request that is sent before it is committed; verifier processes,
sanitizer and trigger that update the same rows; status resets that race with late
verdicts; failures and crashes between two statements; arithmetic of the delta queue and
of deadlines; initialization and exit of the client library; allocations whose failure
nobody tests; a walk that must visit the same bytes in two programs, built from one of
eight combinations of files. The list with lines is `hazards` in `PROJECT.json`.

What makes each part correct:

* requests: recorded once, judged at most once, no nonce used twice by a thread;
* sessions: at most one active session per attestator;
* reaction status: NONE only when every startup area was proved in active
  sessions (which the code breaks when a session is attested twice, see the runs);
  COMPROMISED is never cleared by the trigger;
* threads: what a thread serves is what it has scheduled, and (if no event is
  lost) what is connected; no dead client object is read; callbacks and
  shutdown terminate, provided that startup attestations do;
* queue: ordered, loses no time, starves nobody;
* client: data are alive when read, nothing is attested after exit began, exit
  terminates;
* data: an unchanged client is accepted and a change in a byte the nonce selects,
  or in a sum of two of them with the Goldbach preparation, is noticed, whatever
  failed before; the blame falls on the right application;
* extractor: it ends, and its exit code and report account for the rows;
* libraries: they hold what was put in, and what they write reads back.

## 2. Modules

| Module | Models | Uses |
|---|---|---|
| `RADatabase` | tables, queries and statements, sanitizer, trigger | |
| `Attestation` | listener, managers, network, forwarder, verifiers, extractors, interleaved on the tables | EXTENDS `RADatabase`, INSTANCE `RequestLifecycle` |
| `RequestLifecycle` | abstract: what is promised of each request | |
| `Manager` | threads, slots, condition variables, client objects, shutdown | |
| `Scheduler` | delta queue, sleep computation, the loop of one thread | |
| `Attestator` | client library: constructor, polling thread, exit handler | |
| `AttestedMemory` | `ra_memory.c`: blocks, areas, search, text of an area | |
| `DataTable` | `ra_data_table.c`: the table, its binary format | EXTENDS `AttestedMemory` |
| `NonceWalk` | interpretations of a nonce, preparations, Goldbach table | EXTENDS `DataTable` |
| `DoHash` | what each `ra_do_hash_*.c` hashes | |
| `RADirectory` | rows written at deployment, and the look-ups in them | |
| `DataPath` | extractor, then request, attestation, forwarding and verification with their data | EXTENDS `NonceWalk`, `RADirectory`, `DoHash` |
| `GenericList`, `RAClient`, `VerifiersList` | `generic_list.c`, `ra_client.c`, `verifiers_list.c` | |
| `Libraries` | any sequence of calls of a library | EXTENDS `DataTable`, `RAClient`, INSTANCE `GenericList`, `VerifiersList` |
| `Attestation_proofs` | theorems about `Attestation`: types, sessions, life cycle, nonces; startup requests, the trigger, the status | EXTENDS `Attestation` |
| `Manager_proofs`, `Scheduler_proofs`, `Attestator_proofs` | theorems about these modules | EXTENDS the module; the first two also `NatFacts` |
| `DataTable_proofs` | lemmas about the operators of `AttestedMemory` and `DataTable`: what the folds over blocks, areas and words compute | EXTENDS `DataTable`, `NatFacts` |
| `Libraries_proofs`, `DataPath_proofs` | theorems about these modules | EXTENDS the module and `DataTable_proofs` |
| `NatFacts` | least numbers, induction, remainders and common divisors, for the proofs | |
| `MCAttestation`, `MCManager`, `MCScheduler`, `MCLibraries`, `MCDataPath` | instances for TLC | |

`Attestation` and `Manager` describe the same process at two levels. In
`Manager` the hand-off (lock, slot, signal) is in full, serving a client is one step
and a startup attestation two; in `Attestation` the requests are in full, and of the
hand-off the slot: what the listener leaves in it, whether the signal wakes the thread
or is lost, what a wake-up finds there, signalled or not, and that a client which was
already in the list stays in it and is attested again by the next wake-up.
`Scheduler` refines only the choice *when* a client is served; the others let a
wait time out at any moment. `DataPath` describes once more what `Attestation`
describes, now with the bytes: there one request is on its way at a time, a
response is right because hashes agree, and prepared data are what the extractor
computed; `Attestation` has the interleavings, with a response that is right or
wrong. The libraries are modules of operators without state, shared by `DataPath`
(the paths the programs take) and `Libraries` (every sequence of calls).

Definitions named `X_Something` under the comment "Seeded fault" are not part of
the system. Each is a plausible error in the code behind `X`; replacing `X` by it
makes TLC report the property that `PROJECT.json` names.

### RADatabase

`ra_session`, `ra_prepared_data`, `ra_request`, `ra_reaction` are the tables,
with the columns the queries compare. `session_seq` and `request_seq` are the
AUTO_INCREMENT counters (a rollback does not undo them). Rows written once at
deployment (applications, attestators, startup areas) are constants.
`startup_attestation` is the trigger's decision: the number of areas that should
be attested (`ShouldAttestAreas`) equals the number of successful startup requests
of active sessions (`ValidStartupAreas`). `ra_db_revoke_session` respects the
foreign key of `ra_request`.

### Attestation

A process is a record with a program counter: one listener, one state per manager
thread, one verifier per response. Between two database statements any other process may
run. `Failures` selects whose calls may fail and whether the manager process may crash
(`ManagerCrash` loses lists, callbacks and open transactions and keeps the tables).
`channel[r]` is where request `r` or its response is; a message is lost or delivered,
never duplicated (TCP WebSocket). `slot[m]` is the action and client that the listener
left for thread `m`, and whether the thread has been woken and not yet looked;
`"wakeup"` in `Failures` lets threads return from `pthread_cond_timedwait` although
nothing was signalled. A label for which the queries fail too often is given up, but
`send_ra_request` is called for it all the same (`manager.c:437`), with any prepared
data id, which may be a valid one (`StartupLabelFails`). `startup_run` (history) calls a
session irregular when its startup attestation was begun twice or used such an id;
`issued_by` (history) is the thread that inserted a request. `age[r]` compares the age
of the request with its validity time: fresh, due (a response is late) and over (the
sanitizer expires it). With `Serializable = FALSE` the update that finalizes a request
reads (`FinalizeBegin`) and writes (`FinalizeCommit`) in two steps, as MySQL's default
isolation level permits. `Locked` is the row lock that the uncommitted request holds on
its session through the foreign key.

### Manager

`slot[m]` holds action and passingClient; `pc[m]` is "wait" only inside
`pthread_cond_timedwait`, so `Post` wakes a thread only then. "signalled" and "timedout"
are threads that have left the wait and still need the mutex. A startup attestation is
begun (`attest_client_at_startup`) and may go on for ever under the mutex:
`manager.c:422` asks again without a limit while there is no row for a label.
`HandleClientUp` follows it. `freed` are destroyed client objects; reading one, NULL, or
an uninitialized slot is undefined behaviour: `BadAccess` sets `fault` and the model
stops. `OnMessage` is the branch of the dispatcher for data a client sends by itself: it
creates a client object that nobody destroys. `pending` and `missed` are history
variables.

### Scheduler

Operators with the names of `scheduler_queue.c` act on a sequence of `[client, delta]`
and the counter `items_count` beside it. Floats are integers (ticks), exact in the range
the code uses; `compute_random_sleep` keeps the unsigned width;
`transform_time_to_sleep` drops the carry as the code does. `rem` and `late` are history
variables: how long each client should still wait, and whether a wait ended late or was
computed wrongly.

### Attestator

One attestator in one process: the main thread (`main`) and `ws_polling_thread`
(`polling`). Requests, data and responses are left out; `DataPath` has them.

### Libraries: AttestedMemory, DataTable, GenericList, RAClient, VerifiersList

Each function of a file is an operator that takes the structure and returns the
structure after the call, with the result where callers test it. A list of C items
is a sequence; where the code keeps pointers and counters beside it (head, tail,
`total_blocks`, `items_count`) they are fields of their own, because removals leave
them stale. A call that allocates has a parameter `allocated`. `Failed` is an error
result, `Undefined` what follows a null or freed pointer, `Diverged` a call that
never returns (`RA_VER_parse` on a non-empty file: `fscanf` stops at the first
character it cannot match and never sees the end of the file). Binary formats are
sequences of 16-bit words. In `Libraries` the variable `expected` is what a caller
may count on, kept without the library; `removed` counts the calls (removal of areas
and blocks, `gl_delete`, `gl_destroy`) after which counts and pointers are known to be
stale, and the properties say what still holds then. `Width` is the number of bits of an
`int`, small in the instance so that truncation and wrap-around happen.

### NonceWalk, DoHash, RADirectory, DataPath

A nonce is the three numbers the code reads from it. `decode_nonce_1` to `_4` and the
two preparations keep every error return, also those the callers ignore, and leave the
table in the state the C code does, stale data included. The Goldbach table is the
rule that made its rows (the primes closest to the half). A digest is the function's
name with its input: equal inputs and only those collide.

`DataPath` starts in one of `Deployments`: interpretation, preparation, hash, attestator
number, areas, argument, and how many calls may fail in a behaviour. The extractor runs
statement by statement, each call with a possible failure; then requests are issued from
its rows, bytes of the client's memory change between any two steps, as often as they
like (`Tamper`), and attestator, forwarder and verifier handle one message after
another, each as one step with at most one failing call. `seen` in a request row
(history) is the memory, area and failure the client met; `blamed` is who was charged.
Undefined behaviour stops the program in which it happens.

## 3. Runs

Passing runs:

| Run | Instance | Properties | Shows |
|---|---|---|---|
| `attestation_steady` | 2 attestators of one application, 3 sessions, 2 requests, lost and late messages, wake-ups without a signal | `IntactMeansProved` | status NONE implies that all startup areas are proved in active sessions or one of these is irregular, except between two statements of the listener |
| `attestation_faults` | 1 attestator, 1 area with 2 nonces, 2 sessions, 2 requests, failures of listener and manager, crash | `TypeOK`, `OneActiveSession`, `StartupRequestedOnce`, `ProvedWhenDeclared` | sessions stay unique; the counts the trigger compares are counts of areas unless a session is irregular; NONE is written only from UNKNOWN and only when proved, with that exception |
| `attestation_verdicts` | 2 manager threads, 2 sessions, 1 nonce, 2 requests, extractors, verifier failures, no serializable isolation | `LifecycleInv`, `LifecycleImplemented`, `NonceReuseNeedsTwoManagers`, `AttestedOncePerHandOff` | the server implements `RequestLifecycle`; a nonce is used twice only by two threads; without unsignalled wake-ups the client left in a slot is not attested again |
| `manager_pool` | 2 threads, 2 attestators, 4 client objects, spurious wake-ups | `TypeOK`, `ServedIsScheduled`, `ServedIsConnected` | list, queue and count of a thread agree whatever is lost; without a lost event the threads serve exactly the connected attestators |
| `manager_single` | 1 thread, 5 client objects | `NoBadAccess`, `PassedEventHandled`, `CallbackReturns`, `ShutdownCompletes` | with one thread memory is safe; provided that startup attestations end callbacks return, and unless a signal is missed each event is handled and shutdown completes |
| `scheduler_queue` | 3 clients, 2 ticks per second, sleeps of 1 to 4 ticks | `TypeOK`, `QueueInOrder`, `ExactWhenPunctual`, `ScheduledIsServed` | the delta queue is ordered and exact; nobody starves |
| `libraries` | 2 labels, 3 blocks, 2 removals, ints of 2 bits, 2 verifiers | `TypeOK`, `TableIsDictionary`, `BytesAgree`, `DumpReadsBack`, `SetThenGet`, `ListExact`, `VerifiersExact` | after any sequence of calls and failed allocations each library agrees with what its caller may expect; the exceptions (removals, clients the list takes for one, uninitialized flag) are in the properties |
| `data_path` | 15 deployments, 2 nonces, 2 rows, 2 requests, 2 addresses that change any number of times, up to 2 failing calls | `TypeOK`, `WalkCovers`, `HonestAccepted`, `TamperNoticed`, `AskedAreaWalked`, `BlameIsRight`, `DefinedBehaviour`, `ReportAccounts`, `ExtractorEnds` | extractor, client and verifier agree on the bytes a nonce selects; a verdict tells a change of a byte or, with the Goldbach preparation, of the sum of a pair, and not changes that compensate each other; the exceptions the code has are named in each property |
| `attestator_lifecycle` | 10 retries, the constant of the code | `TypeOK`, `DataAliveWhenRead`, `NoAttestationAfterExit`, `DeinitCompletes` | initialization and exit of the client |

Runs that show a disagreement between the code and what the repository says of
it (each is a finding in `PROJECT.json`):

| Run | Property | What happens |
|---|---|---|
| `attestation_early_response` | `NoResponseReceived` | a response overtakes the commit of its request, is dropped, and the request ends as EXPIRED_NONE |
| `attestation_repeated` | `DeclaredIntactIsProved` | a wake-up without a signal attests a client left in the slot once more; an area answered twice makes up for one never answered, and the application is declared intact |
| `walk_generator` | `WholeBufferConsidered` | with interpretation 2 and an area of prime size only the first byte is attested |

Behaviour of the code that the models contain and that no run singles out: the listener
fills a slot and signals its thread (`manager.c:713-719`), but the thread waits without a
test of the slot (`manager.c:480`), so that a signal sent while it serves a client, or
after its wait has timed out, is lost, and it goes to sleep with the event unhandled until
the next one arrives (`Post`, `missed`, and the condition in `PassedEventHandled`); below
SERIALIZABLE isolation the trigger overwrites a COMPROMISED that was set after it looked
with NONE (`FinalizeBegin`, `FinalizeCommit`); with two threads one of them frees the
client object that the slot of the other points to (`HandleClientDown`, `BadAccess`);
the polling thread may signal between the unlocked test of the status and the wait, and
the constructor waits for ever (`CheckInitFinished`, `WaitInitFinished`); a startup
attestation of an area for which the extractor delivers no row never ends, and keeps the
mutex that the listener waits for (`attest_client_at_startup`); with the Goldbach
preparation, changes of two bytes that are added up may compensate each other and pass
unnoticed, and so may the change of a single byte that an area contains twice
(`DifferenceCovered`); a missed DIE signal makes `pthread_join` wait for ever (hence the
condition in `ShutdownCompletes`); the deadline of a wait may be up to a second early
(`transform_time_to_sleep`); the last permitted connection attempt is treated as a
failure even if it succeeds (`Connect`); an attestator without startup areas that
connects sets the status to UNKNOWN, and nothing sets it back; the forwarder uses one
byte of the attestator number, so that a client with number 257 is verified as number 1
and found wrong if the hash functions differ (`ForwardedNumber`); an extractor that
stops after too many errors reports one record less than it inserted, -1 if it inserted
none (`Report`); `gl_remove` and `gl_delete` on an empty list follow a null pointer, and
`gl_destroy` reads each item after freeing it.

Comments that differ from the code without a run of their own: the label is read at
`nonce_size - 3`, not `- 4` (`ra_nonce_interpretation_1.c:18`, `_2.c:18`);
`calculate_index` is a product, not a power; `ra_do_hash.h` says that the sizes are
hashed, no variant does; `ra_client.h:37-42` says that `RA_CLI_compare` returns 0 for
equal clients and 1 or -1 for others, while the code returns the difference of two 64-bit
numbers cut to an `int` (`ra_client.c:58`), which is 0 for numbers a multiple of 2^32
apart, so that a list takes such clients for one (`RA_CLI_compare` in `RAClient`, the
named exception of `ListExact`); `ra_get_current_key` is to copy the key
(`ra_data_table.c:228`), but its test of the size is the wrong way round (line 231) and
it refuses every key that `ra_set_current_key` has set, of which `ra_print_table_info`
says "Current key is set" (line 332): the getter is in `DataTable` as it is and outside
of `SetThenGet`.

### Bounds

Every bound is a constant that appears in a guard: `MaxSession`, `MaxData`,
`MaxRequest`, `MaxObject`, `MaxOversleep`, `MaxBlocks`, `MaxRemoved`, `MaxRequests`,
and the number of failing calls of a deployment. Two sessions of one attestator are
needed for a reconnection, three for reconnections of one of two attestators;
two requests for two startup areas, for a nonce used twice and for two verifiers
racing, three for an area asked about twice beside another one
(`attestation_repeated`: in the smaller instances of the passing runs the exception that
`ProvedWhenDeclared` and `IntactMeansProved` make for irregular sessions is not needed
yet, and their theorems cover the larger ones); two manager threads for every race between threads, which are
symmetric. `MaxObject` counts callbacks: four allow two connections and two
disconnections. Three clients allow insertion into and removal from the middle
of the queue.

`data_path` has every interpretation with both preparations, every hash, and areas of
one or two blocks whose sizes are prime, even, odd and composite, too small, or missing;
the walks are checked as functions besides, for areas of 5 to 24 bytes and 64 nonces.
Two nonces choose different areas and generators; two rows and a limit of two errors let
each failure come first, last, or twice; two requests let the second one meet what the
first left in the client's table. Two failing calls in one deployment, one in most: a
fault then meets every later step without failure. In `libraries` two labels, three
blocks (one empty) and three blocks in an area reach every position of a list; numbers
beyond the width of an `int` meet the truncation. Two bytes that change lie in one pair
of a Goldbach walk, and their changes compensate each other. The largest instances have
about 4.6 million (`attestation_steady`), 2.6 (`attestation_verdicts`) and 2.4 million
distinct states (`attestation_faults`, `data_path`), `manager_pool` 0.4 million.

Runs that end when a bound is reached do not check deadlock;
`scheduler_queue` has no such end and does. Symmetry is used for invariants
and for the step-wise refinement only, not in runs with liveness.

### Fairness

* `Manager`: weak fairness of each thread (it is scheduled, and a wait ends at
  its deadline at the latest), but not of the end of a startup attestation, which the
  code does not promise: it is the hypothesis `StartupAttestationsEnd` of the liveness
  properties; weak fairness of the main thread; strong fairness of the
  main thread's lock, because a thread gives its mutex up for the whole of each
  wait. None for connections, SIGINT or spurious wake-ups.
* `Scheduler`: the clock ticks, the thread runs, serving ends.
  `ScheduledIsServed` assumes that clients stop coming and going: each
  interruption costs handling time that is added to the wait.
* `DataPath`: the extractor is a process that runs and whose calls return
  (`ExtractorRuns`); none for clients, network or verifiers.
* `Attestator`: both threads run; strong fairness of the exit handler's lock,
  which the polling thread frees between requests. None for the exit itself.

## 4. Proofs

The theorems hold for every value of the constants: any number of applications,
attestators, areas, threads, clients and objects, queues of any length, all bounds, all
`Failures`, both values of `Serializable` and of `SpuriousWakeups`, unless a theorem
assumes otherwise. The assumptions on constants are the named `ASSUME`s of the modules
(`SchemaAssumption`, `BoundsAssumption`, `ManagersAssumption`, `ManagerAssumption`,
`SchedulerAssumption`, `WidthAssumption`, `RetryAssumption`, `GoneAssumption`,
`ValueAssumption`, `NumbersAssumption`, `PowerAssumption`, `AIDAssumption`,
`PointerAssumption`, `AreasAssumption`, `ClientAssumption`, `DecodingAssumption`, and
those of `DataPath`, which are described with its proofs); TLC evaluates each of them.
`WidthAssumption` and `PowerAssumption` say what is true of `2 ^ Width` for every width
above zero: the provers have no law about powers. The inductive invariants about
`Attestation`, `Manager`, `Scheduler`, `Attestator`, the lists and the values of
`Libraries` and the accounts of the extractor were first checked by TLC on the instance
of the run that checks their property. Those about the areas of a table and the other
ones about `DataPath` quantify over unbounded sets; of them TLC checks the properties
they imply.

**`Attestation_proofs`**

* `TypeCorrect`: `Spec => []TypeOK`. One lemma for each group of actions; the types of
  updated rows and process states are small lemmas of their own.
* `OneActiveSessionHolds`. Not inductive: that the inserted session is the only active
  one needs that the first statement of `ra_db_start_session` has closed the others and
  that nothing has reopened one in between, and that the new id is above all others.
  `SessionInv` adds both.
* `LifecycleInvHolds`. The invariant says where each request is: an id a manager holds
  is its own and not in the table; a request whose response has not arrived has no
  verifier; a recorded request whose verifier has not finished is unjudged; a verifier
  with a verdict has a row.
* `LifecycleRefinement`: `Spec => LifecycleImplemented`. Commit is `Issue`, the
  sanitizer is `Expire`, finalization is `Judge`, all other steps leave `RequestStatus`
  unchanged. `LifecycleInv` supplies the guards that the code does not test: the id is
  new when it is committed, the status is unjudged when it is finalized.
* `NonceReuseNeedsTwoManagersHolds`. The selection of a nonce and the commit of its
  request are two steps. `NonceInv` adds what is true in between: the datum that a
  thread holds may since have been committed, but not by that thread. The property is
  about managers whose calls succeed: after a failing one, `send_ra_request` may be
  called with the id of the request before.
* `StartupRequestedOnceHolds`. `StartupInv` follows a session from the listener through
  a slot to its startup requests. What listener and slot hold agrees with the table of
  sessions (`PassedInv`, `SlotInv`). While the startup attestation of a session is
  regular, one thread only goes through its areas (`OneStarter`), and the areas it still
  has to ask about have no request yet (`ThreadInv`, `RegularInv`). Requests belong to
  sessions that exist (`RequestsInv`). A second attestation of the same client, or a
  request with a leftover id, makes the session irregular, and from then on nothing is
  claimed of it.
* `CountsMeanProvedHolds`. The trigger compares two numbers. By `OneActiveSession` and
  `StartupRequestedOnce` the counted requests map one to one into the areas that should
  be attested, so if the numbers agree they map onto them: each area has been proved, or
  one of the sessions is irregular. This is the argument with cardinalities that the SQL
  of the trigger relies on, and the run `attestation_repeated` shows that it fails where
  the exception applies.
* `AttestedOncePerHandOffHolds` says when it does not apply. A client that was already in
  the list stays in the slot. `OnceInv`: a slot whose thread has been woken by a signal
  holds a session that no thread has begun to attest (`SlotOnce`), no other slot holds
  the same session, and neither does one hold the session that the listener is about to
  pass (`ListenerOnce`). Each event overwrites the slot, so only a wake-up without a
  signal meets the same client twice. `DeclaredIntactIsProvedHolds` follows: without
  such wake-ups and failing calls of managers NONE means proved.
* `ProvedWhenDeclaredHolds` assumes `Serializable`: below that level the trigger's reads
  and its update are two steps (`FinalizeBegin`, `FinalizeCommit`), between which the
  state may change.
* `IntactMeansProvedHolds` has the same exception for irregular sessions, and assumes
  besides that neither `"listener"` nor `"crash"` is in `Failures`: when the listener's
  second statement fails, or the process ends before it, a new session exists and the
  status of the old one stays. The manager's, verifiers' and extractors' failures are
  covered.

**`Manager_proofs`**

* `ManagerTypeCorrect`, `ServedIsScheduledHolds`. `PoolInv` adds to the types which
  object is whose: an object is created for an OPEN (and served) or for a CLOSE (and
  destroyed by its handler), never both, so no scheduled object is freed; and each
  client in a list has one scheduled object. Cardinalities of list and queue follow.
* `ServedIsConnectedHolds`. `ServiceInv` says what the threads will serve once they have
  handled what is in their slots (`ToServe`), also in the middle of a callback: while an
  OPEN is being passed, and for the threads that a broadcast has already reached
  (`ToldDown`).
* `NoBadAccessHolds` assumes one thread and no spurious wake-up. Without either
  assumption it is false, and TLC finds the error: two threads share the object of a
  broadcast, and one may destroy it before the other reads it; a spurious wake-up
  executes an event again. `AccessInv` says that a thread wakes up to a pending event
  whose object is alive.

**`Scheduler_proofs`**

* `SchedulerTypeCorrect`, `QueueInOrderHolds`. `SchedInv` adds that the client being
  served is not in the queue, so putting it back keeps clients unique. Insertion in the
  middle and removal are treated by lemmas on sequences (`InsertFacts`, `RemoveFacts`):
  they change one delta behind the place and keep the others.
* `ExactWhenPunctualHolds`. `TimeSum`, the sum of the first deltas, is defined by
  recursion; the lemmas `TimeSumIsSum` and `TimeSumStep` give its recursion equations
  from induction, and `InsertTimes` and `RemoveTimes` show that no other client's time
  changes. `PunctualInv` adds that a thread on time sleeps no longer than to the head,
  which `sq_update_time_unslept` relies on.

**`Attestator_proofs`**: `AttestatorTypeCorrect`, `DataAlive`, `NoLateAttestation`.
`ThreadsInv` relates the two threads: the mutex is held exactly while a request is
answered, the table is destroyed only after the polling thread was joined or before it
was created, and `force_exit` is set by the exit handler only.

**`DataTable_proofs`** has no theorem of a specification. It shows what the folds of the
libraries compute, which the later proofs rest on. `FoldLeft` of the community modules
recurses over subsets of the domain; each fold is replaced by a function on `0 .. n`
that has the values after each item, and induction (`NatFacts`) is applied to that.
Results: `BytesOf` is the sum of the sizes (`BytesOfAppend`); the search for a place
finds the block that holds it; what `ra_mA_dump_info_binary` writes is read back; and
`ParsedBlob`: `ra_parse_binary_ads` makes of the words of an ADS the table with its
areas, or none if a label occurs twice.

**`Libraries_proofs`**: the containers and objects, after any sequence of calls.

* `VerifiersExactHolds`. `Serves` relates the list to the clients each verifier has: the
  records are exactly those of the verifiers with clients, one each, with the pid of the
  verifier and the number of its clients. Arrival of a client either raises a count or
  appends a record, departure lowers it or removes the record, and the other records
  stay. The width of the counter is that of the code; the guard of the action keeps the
  number of clients below it.
* `SetThenGetHolds`. `ValuesInv` adds to the property the types of the table, `ClientInv`
  has the types of a client. The key is not among the values: its getter refuses each
  key that was set (`ra_data_table.c:231`). Two clients compare as equal exactly when
  their AIDs are equal and the low bits of their numbers are (`CompareFacts`), which is
  modular arithmetic: the code cuts the difference of two 64-bit numbers to an `int`. So
  equal clients compare as equal, which the property states, and some that differ do,
  which is the exception in `ListExact`.
* `ListExactHolds`. `Listed` says that no two items are taken for one and that the
  counter is not too small, which holds whatever `gl_delete` has done to it; while it
  has not been called, the counter is the length and the items are the clients inserted
  and not removed.
* `TableIsDictionaryHolds`, `BytesAgreeHolds`, `DumpReadsBackHolds`. `AreasInv` says
  that the labels of a table are distinct, that each area is what the insertion of its
  blocks makes (`Filled`), and, until something is removed, that counts and pointers are
  exact; after a removal only what the properties still promise. That search by index
  and copying agree (`BytesAgree`), and that what is written is read back
  (`DumpReadsBack`), then follows from the lemmas of `DataTable_proofs`.
* `TypeOKHolds`, from all these invariants: a table, list or client stays in its type.
* Assumptions: results of failed calls are told from objects (`GoneAssumption`,
  `ValueAssumption`, `PointerAssumption`), labels and blocks are numbers
  (`AreasAssumption`), the initial client is one of those described
  (`ClientAssumption`), the numbers are natural (`NumbersAssumption`), and
  `PowerAssumption`, which states of `2 ^ Width` two laws of powers that the provers
  lack.

**`DataPath_proofs`**: every invariant that the run `data_path` checks, for any
deployments, binary, nonces, directory, numbers of requests and failures. Each invariant
contains the ones before it that it needs.

* `ReportAccountsHolds`. `Balance` says at each statement of the loop how the rows
  inserted relate to the counters: equal in a pass, one behind after it, since the
  increment of the `for` statement is still to come, and for the same reason one behind
  for ever when the last error breaks the loop.
* `AskedAreaWalkedHolds`. `ExtractionInv`: the extractor holds the table that the ADS
  says (`Kept`; `ParsedBlob`), and each row it inserted has the label its nonce selects,
  or a failed second decoding among its faults. `ServingInv`: the client's table is
  `Kept` as well, or null or undefined; a request names a row of its attestator with the
  label asked for, and a message belongs to the last request. So both sides decode one
  nonce with one table.
* `BlameIsRightHolds`. `BlameInv` relates `ra_reaction` to the requests whose response
  was charged.
* `DefinedBehaviourHolds`. `DecodeIs` says what the four interpretations make of a nonce
  (`InfoOf`), and when they fail; `WalkInside` and `GoldbachInside` that the walks stay
  in the area. `HeldInv`: the rows hold the bytes of `.text` along the walk, unless
  memory failed; `ClientInv`: what the client's table and memory are.
* `TypeOKHolds` (`TypesInv`, which adds the ranges of the counters).
* `WalkCoversHolds`. The walk multiplies a generator and reduces it modulo the window.
  If they have no common divisor, every place is reached (`MultiplesCover` in
  `NatFacts`, from Bezout's identity); they have none because one of them is a prime
  that does not divide the other: the window in interpretations 1 and 4 and for both
  parts of a Goldbach walk, the generator, above the half of the window, in 2 and 3. A
  generator that is a multiple of the window visits one place only, and `Visits` says so
  (the finding of the run `walk_generator`).
* `HonestAcceptedHolds`, `TamperNoticedHolds`. `JudgedInv` adds that a verdict is the
  comparison of the digest of the row's data with the digest of what the client's memory
  gave along the walk of the same nonce, and, while a message is on its way, that it
  carries that digest. Bytes of the memory may have changed any number of times.
  Equal data tell that no covered byte differs after a plain walk (`DataTell`), and that
  no sum of a pair differs after a Goldbach walk (`SumsTell`, `PairsWalked`,
  `SumsPaired`); and conversely (`DifferenceTold`). So a verdict is wrong or right as
  there is such a difference or not, up to the exceptions that the properties name.

Assumptions about the constants of `DataPath`: a deployment is one of the
interpretations with an attestator number and areas whose blocks lie in `.text`, which
consists of bytes (`DeploymentAssumption`); the hash is one of the five
(`HashAssumption`); nonces are three numbers (`NonceAssumption`); a byte that changes
does so by 1 to 255 (`TamperedAssumption`); an AID occurs once among the applications
(`DirectoryAssumption`, the unique key of the schema); the row in the table before the
extraction is a row (`NeighbourRow`) of no deployed attestator (`NeighbourAssumption`;
without it rows could not be counted by attestator); the sizes for which walks are
checked have a partition (`SizesAssumption`); `NumberTheory`, which states of these
sizes what Bertrand and Goldbach say: the first is a theorem the provers lack, the
second is known for all sizes that the table of the code has rows for.

What the theorems about verdicts say rests on one more abstraction of the model, that a
digest tells its input. They hold for areas whose blocks overlap as well; what the
Goldbach preparation then does not see is no difference in the sense of
`DifferenceCovered`: two changes under one sum that compensate each other, or the change
by 128 of a byte that is added to itself.

**`NatFacts`**: that every nonempty set of numbers has a least one, and induction, for a
*set* of numbers instead of an operator. In this form the provers can apply it, and what
recursive functions compute is within reach, one lemma at a time. Then the facts about
remainders for the truncated comparison, and about numbers without a common divisor: the
least positive combination of two numbers divides both (`LeastDivides`), so it is 1 if
they have none (`Bezout`), and then the multiples of one cover all remainders modulo the
other (`MultiplesCover`).

Only model-checked:

* all liveness (`PassedEventHandled`, `CallbackReturns`, `ShutdownCompletes`,
  `ScheduledIsServed`, `DeinitCompletes`, `ExtractorEnds`): fairness is outside of what
  the prover can do;
* the three runs that expect a violation.

All invariants and the action properties of the passing runs are theorems as well, and
`DeclaredIntactIsProved` is one under the conditions that its run does not meet.

## 5. Not modelled

* The hash functions themselves (cryptography), and `ra_print_wrapping.c` (logging).
* The rows of `ra_goldback_partitions.h` one by one: generated data, given by its rule.
* Bytes below the 16-bit word of the binary formats, byte order, file positions, the
  text of SQL queries and its escaping, log messages.
* A failing `BN_mod_mul` in `calculate_index` (`ra_data_preparation.c:35`): it ends as a
  buffer that cannot be allocated, with an error and without data.
* In `DataPath`, requests that overlap: their interleavings are those of
  `Attestation`, which in turn has no bytes.
* Memory failures of the lists inside a manager thread: `gl_insert` and `sq_insert` may
  fail (`GenericList` has the result), and the thread ignores it
  (`manager.c:538`, `:542`), so that a client is listed and never scheduled or the reverse.
* The start of the manager process when a thread cannot be created: the loop that undoes
  the initialization counts an unsigned variable down to `>= 0` and does not end
  (`manager.c:143`).
* The annotation interpreter, build and deployment scripts; the two scripts
  `mark_application_as_compromised.sh` and
  `mark_all_applications_as_untampered.sh` are an operator's manual updates.
* The number of running extractors: several extractors for one
  attestator act like one that inserts more.

## 6. Plan

What is left is outside of the prover's reach (liveness) or of the models (section 5).
Next would be overlapping requests with their bytes, as a composition of `Attestation`
and `DataPath`.
