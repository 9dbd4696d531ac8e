# TLA+ models of librustyaxe

librustyaxe is a C library of the infrastructure shared by RustyRig and other
programs: an event bus, logging, dictionaries, configuration, modules, child
processes, transports and a text terminal interface. This directory holds TLA+
models of its stateful parts, TLC runs on small instances and TLAPS proofs for
all instances. `PROJECT.json` lists components, runs, mutants, the source lines
each definition models, findings, hazards and theorems.

## 1. The system

| Component | State | Operations | What is hard | What makes it correct | Module |
|---|---|---|---|---|---|
| worker log queue, `log-queue.c` | ring, head, tail, length, drop counters, a mutex | push (any thread, try-lock), depth, drain (owner) | producers race the drain; a full ring; counters updated apart | FIFO without loss or duplication; producers never wait; every loss counted | LogQueue |
| logger, `logger.c` | callbacks, filters, rate slots, enabled flag, owner, timer | init, end, Log, callbacks, filters | late producers, callbacks that log or unregister, rates over time | end drains; each subscriber once; nothing held back is forgotten | Logger |
| modules, `module.c` | list of loaded modules | load with init hook, unload with guard and shutdown hook | failed hooks, unloading from a callback | no callback into unmapped code | Modules |
| event bus, messages, `event-bus.c` | listeners, tokens, domains, a mutex, a condition variable | on, off, emit, drain, domains, init, shutdown | deliveries run unlocked, on other loops, nested | after off and drain nothing of a module runs | EventMessages |
| event bus, text and binary, `event-bus.c` | entries with two listener arrays, generations, tokens | on, off, emit, NOMATCH, in a domain | unlocked token test, two-section registration, shared pointers | a token removes its own listener; NOMATCH is a fallback | EventBus |
| child processes, `subproc.c` | pid, pipes, streams | spawn, spawn with mappings, reap, close, stop | partial failure, exit racing stop, overlapping mappings | no descriptor or child left behind; no stranger signalled; stop returns | Subproc |
| transports, `transport.c`, `transport.mongoose.c` | state, socket, send queue | adopt, send, close, release, driver events | callbacks that close or release | order of events; a close completes | Transport |
| SOCKS, `socks.c` | stage, receive buffer, deadline | read, timer, close | bytes in any pieces | the same ending for every cut, unless full buffers, the deadline or a close break it off; nothing early | Socks |
| serial devices, `io.serial.c` | saved and current settings, pseudo-terminal links | open, apply, close, pty open and close | several openers of one path | what was borrowed is returned | Serial |
| daemon, `daemon.c` | pid file, its lock | daemonize | racing starts, a refused one that removes the file | at most one that runs has its pid file still in place | Daemon |
| dictionary, `dict.c` | open-addressing table, `used`, `fill` | add, delete, get, enumerate, resize, typed getters, expansion | tombstones, probing, conversions between types | it is a map; numbers are read exactly or not at all | Dict, DictValues |
| configuration, `config.c`, `cfg.modules.c`, `cfg.serial.c` | live and default dictionaries, section callbacks, reload listeners, files | load with includes, set, reload, save | include cycles, callbacks through the global, crashes during a save | loaded as written, saved comes back, nothing lost, reload clean | Config |
| JSON, `json.c` | reader's frames, path, result | json2dict, dict2json | depth, duplicates, colliding paths, escapes | takes exactly its grammar; written reads back | Json |
| access lists, `acl.c` | rules | parse, check | unknown address or user, mapped IPv4 | a verdict stands when more becomes known | Acl |
| terminal, `tui.c`, `tui.window.c`, `tui.keys.c`, `tui.completion.c`, `tui.theme.c` | windows with message rings, scroll offsets, input line, histories | print, defer, flush, create, destroy, focus, page; keys, history, Enter, Tab | indices at the limits, rings that drop, wrapped rows | the user keeps looking at what he chose; the line is an editor's line | Windows, InputLine |
| EEPROM, ring buffer, lists, scheduler, reactor, `io.c`, `posix.c`, `privileges.c`, utilities | | | | | not modelled, section 6 |

Interactions. `Log()` pushes to the worker log queue; a 10 ms GLib timer drains it
and calls the registered log callbacks. Modules register callbacks with the logger
and the event bus and must unregister and drain before they are unmapped. The event
bus keeps its entries in a dictionary and enumerates that dictionary under
`event_lock`. Configuration, access lists and JSON read and write dictionaries.
The terminal's windows are printed to by log callbacks. Dispatchers (GLib loops)
and the mongoose manager are supplied by the host.

How the models compose: Modules EXTENDS Logger (hooks register in the callback list
that a delivery is walking); Logger uses FifoChannel for the queue, and LogQueue is
shown and proved to implement FifoChannel; Config composes the loader with the two section
callbacks; InputLine EXTENDS Windows, because keys switch windows and windows own
histories, and is shown and proved to implement LineEditor.

## 2. Modules

**FifoChannel** (abstract). `accepted` and `delivered` sequences, the second a prefix
of the first, at most `Bound` records apart.

**LogQueue, MCLogQueue, LogQueueProofs.** `lock`, `head`, `tail`, `length`, `records`
and the counters are the fields of `struct ra_log_queue`. `pc` is where a producer is
in `ra_log_queue_push()`, `dpc` where the owner is in depth or drain. Steps end where
another thread can observe: the try-lock, the critical section, the two relaxed
increments, and the drain loop, in which Log() runs unlocked. Records are numbered
per producer: text, truncation and time stamp are left out.

**Logger, MCLogger, LoggerProofs.** `submitting` is a thread between the routing test of `Log()` and its push;
`stack` holds the deliveries of the owner, one per level of nested calls, each with
the next callback its walk will look at. `EnterCallback`, `SkipCallback` and
`LeaveCallback` are the walk; `Subscribe` and `Unsubscribe` happen between them.
`LoggerInit`, `LoggerEnd`, `EndRelease`, `DrainTick`, `DrainOne`, `SlowDrain` and
`TickDone` are the sessions and the timer, which itself logs a drain that took long and
the losses. Before the first `logger_init()` only the owner logs (`LogDirect`): a program
that starts a thread earlier is not modelled. `RateVerdict` is the slot table of the rate
limits: a message that finds no slot passes unlimited.
`Clock` lets a second pass.

**Modules.** `LoadModule`, `LoadFails` (init hook that fails, with what it had
registered), `UnloadModule` with guard and shutdown hook. `Tidy` says whether hooks
clean up after themselves; the violation run drops it. `modules` is the set of loaded
names: the order of the code's list decides nothing. `opened` counts what `dlopen()`
counts, by file, and `token` is the static variable a module keeps its subscription in.

**EventMessages, MCEventMessages, EventMessagesProofs.** A token is a number; `reg`,
`active`, `executing`, `listeners`, `domains` are the fields of the bus. Each thread
has a bounded stack of calls (`frame`, `depth`), so callbacks call the bus again.
One locked section is one step; the unlocked test at the top of `event_off_token()`
is a step of its own. Dispatched deliveries sit in `pending` until their loop runs
them, in any order. `quiet` remembers tokens for which a drain returned while they
were inactive. MCServices has an instance of it for the liveness of drains.

**EventBus, MCEventBus, EventBusProofs.** `store` is `event_store`. A listener array is
the set of its listeners: they are appended and never reordered, so their numbers
(`id`) give the order of the array, and `First` its first element.
`event_on_domain_token()` is three steps as in the code: look the dispatcher up,
register, mark. Emission is a snapshot, then one step per listener; a dispatched
delivery is a record in `queued`. Registrations carry a number (`id`) and a domain
name that the program does not store, for the properties only. `FreshTriples` says
that callers never reuse event, callback and user pointer of an earlier token.

**Subproc, ServicesProofs.** The parent's open descriptors, the children with their states, and the
handle. `SpawnFails` and `SpawnFdsFails` stop after any of the steps of
`subproc_spawn_pipes()` and `subproc_spawn_fds_impl()`, duplicates of the mapped
descriptors included (`Duplicates`), and close what that path closes (`ClosedByFailure`,
`ClosedDups`). `ChildExits` and `PidReused` may happen at any time, and `HostCollects`
when the program waits for children elsewhere: `waitpid()` then answers ECHILD (`Ended`),
and `taken` remembers the child. `subproc_stop()` is a loop of steps (close, signal,
collect, poll, kill), either of whose signals may be refused. `ChildTable`
computes the child's descriptors from the parent's (`ParentFds`) and the mappings as
`subproc_spawn_fds_impl()` does: duplicate all sources above the targets, then `dup2()`.

**Transport, ServicesProofs.** `state` and the driver's socket; `Emit` is one driver event with the
callback inside it, which may do nothing, send, close or release (`Reactions`).
`MongooseDrain` is mongoose answering a close frame: `is_draining` refuses further sends.

**Socks, ServicesProofs.** The proxy's bytes in `coming`; `SocksRead(n)` lets n of them arrive and
parses as `rr_socks_event(MG_EV_READ)` does, in a loop until nothing more can be taken.
`SocksGreetingFails` and `SocksSendFails` are an `mg_send()` that cannot queue a request;
`cause` says what made a handshake fail: the proxy's bytes, a full buffer, the deadline
or the connection's end.

**Serial, Daemon, ServicesProofs.** Line settings as the flags termios keeps, read back from these
flags; links with their targets, the test of a link and its removal two steps (`PtyClose`,
`PtyUnlink`); instances with the inode each has open, a refused lock and the removal of
the file two steps (`DaemonRefused`, `DaemonUnlink`).

**Dict, MCDict, DictProofs.** `table` maps slot numbers to `Empty`, `Dummy` (tombstone) or an entry.
`Probe` is the sequence of slots a lookup visits, with its perturbation; `Lookup` the
slot it returns, its first tombstone included. A walk of `Horizon` steps has seen every
slot (proved, `ProbesCoverTheTable`), so a longer one never ends: `NoSlot`. `DictAdd` is `dict_store()` with its resize
and second lookup. A workload fixes the keys with their hashes, the values and the
bounds. Failed allocations change nothing and are left out.

**DictValues, DictProofs.** Every typed getter as the cascade of conversions the code
tries. The largest numbers of the types are the constants `CharMax`, `IntMax` and
`LongMax`; floating-point numbers are counted in halves; strings are numerals, letters or
words. `dict_get_long()` casts an unsigned int without a test, which is exact where long is
wider than int: `DictValuesAssumption` says so. `ExpandPass` is one pass of `dict_get_exp()`.

**Config, StoresProofs.** `heap` holds dictionaries by name, `cfg` and `default_cfg` point into it,
`loading` is the stack of files being read. A line is a step, since a callback or an
include may come with it. `CfgSave`, `SaveOpen`, `SaveLine`, `SaveClose` are the
save; `Die` may fall between any two of them. Keys are pairs, values sequences of
characters, so that wrapping, joining, escapes and canonical forms are computed.

**Json.** Token by token with a stack of frames. The reference (`Readings`) is the
grammar as a set of ways to read a range of the text.

**Acl, StoresProofs.** Selectors as tokens, addresses as bit sequences of constant
lengths. `RuleParse` splits a selector at its last `@` (`LastAt`, `PrincipalIn`,
`PlaceIn`) as `acl_rule_parse()` does; `RuleMatch` asks for the address first
(`Elsewhere`), then for the user (`SomeoneElse`), and waits for what is unknown. The
reference (`Says`) reads the selector directly on the whole host and user.

**Windows, InputLine, LineEditor, StoresProofs.** Messages are numbered and have a width; `TopRow` is
the row the painter puts on top. `InputLine` edits a byte array with `MemMove`, a
length and a cursor, and finds words with `SkipBack` and `SkipForth`; `LineEditor` is the abstract line (text left and right of the
cursor, lists of earlier lines) it is shown to implement.

**FoldProofs** holds what the other proof modules need of induction, recursion and sums,
with sets and functions where a library would have operators (section 4).

**MCLogger, MCServices, MCStores** instantiate several components for one run. In
MCServices and MCStores a variable `part`, chosen in the initial state, says which
component moves: states add up and do not multiply, and each invariant speaks of
its own component. In MCLogger `scenario` plays that role for three questions about
the same component, each cutting off what it does not ask (`Focus`).

## 3. Runs

| Run | Instance | Shows |
|---|---|---|
| `log_queue` | 2 producers, ring of 2, 2 pushes each, drains of 1 and 512; deadlock checked | types, ring contents, loss accounting, wait-free push, refinement of the channel, delivery |
| `logger` | a worker and the owner, 2 sessions, queue of 1; 2 subscribers, 1 nested call, 2 loads; 3 rules, 1 rate slot, 2 seconds | `EndDrains`, `EachSubscriberOnce`, `RawCountExact`, `SuppressionAccounted`, `ArmedCodeIsMapped` |
| `logger_late` | as above, sessions only | *violated*: a late record is delivered in the next session |
| `module_untidy` | as above, hooks that do not clean up | *violated*: a callback into an unmapped module |
| `event_messages` | loop and 2 workers, 2 tokens, 3 levels of calls, 2 emits | exact `executing`, list and tokens agree, nothing runs after a drain, domains outlive listeners |
| `event_bus` | 2 threads, 2 events, 2 registrations, 1 emit, fresh pointers | tokens drop their own listener, marks exact, NOMATCH a fallback |
| `event_bus_shared_token` | 1 thread, pointers reused | *violated*: a token drops an earlier listener with its pointers |
| `event_bus_connection` | 2 threads | *violated*: an emit between registration and marking passes the connection |
| `services` | 2 spawns, 4 driver events, 8 proxy scripts, 5 serial calls on 2 ptys, 3 starts; a message bus of a loop and a worker, 2 tokens, 3 levels of calls, 2 emits, drains from outside callbacks; fair | `HandleOwnsAll`, `MappingsHonoured`, `EventOrder`, `HandshakeExact`, `BorrowedIsReturned`, `OneInstance`, `EndingsComplete`, `DrainReturns` |
| `daemon_refused_start` | 3 starts | *violated*: one that was refused the lock removes the pid file, and a third start runs beside the first |
| `stores` | see below | the dictionary is a map and enumerates itself; `LoadedAsWritten`, `SavedComesBack`, `NothingLost`, `ReloadIsClean`; `ReadsAreExact`; `ReadsTheGrammar`, `WrittenReadsBack`; `VerdictsStand`; `ViewIsKept`; `LineIsEdited` (refinement of LineEditor) |
| `dict_lookup` | one key at a time, 15 calls | *violated*: a lookup in a table full of tombstones never ends |

Why the bounds are enough.

- *Log queue*: a ring of two with two producers reaches a full ring, wrap-around of both
  indices and contention of every pair of threads.
- *Logger*: a queue of one with one worker and a tick of one record already separates
  cut, drain and late push, and two sessions let a record cross; two subscribers with
  one nested delivery let a callback add and remove the walk's next and earlier nodes;
  one rate slot with two keys fills the table, so that the second key passes unlimited.
- *Messages*: two tokens and two workers are needed for a drain woken by another token's
  callback; three levels let a callback emit to a second one inline.
- *Bus*: two registrations let two listeners share an entry, of one kind or both. A
  constraint keeps binary listeners and domains out of one behaviour: their code paths
  share only the entry, which the run exercises for each.
- *Services*: two spawns reach a reaped pid given to a stranger while the handle is used
  again; sixteen pairs of mappings over descriptors 0 to 4, in which the sources meet their
  own and each other's targets, are swapped or chained, or share a target and are refused;
  the scripts are both methods, the three forms of a reply, refusals, a reply that is cut
  off and payload behind the reply, cut in every way; three starts are needed for two that
  race and one that comes after. The bus has two tokens, one of which wakes the drain of the other.
- *Dictionary*: tables from 8 slots. The table grows at the sixth occupied slot, so eight
  calls with five colliding keys grow it and reuse tombstones; seven with four keys and
  two values overwrite entries first; seven with three keys delete and add between the
  calls of an enumeration; fifteen are the fewest that fill eight slots with one key live
  at a time.
- *Configuration*: files with every kind of line, an include inside another section, an
  include of itself cut at depth 2, one that cannot be read and one that is missing; four
  calls are load, edit or set, save or reload, and one more; two backup names run out.
- *JSON*: all texts of up to seven tokens of a rich alphabet and ten of a small one, depth 2.
- *Values*: all getters on all types at the bounds of every type.
- *Access lists*: two rules of eighteen selectors, IPv4 addresses of two bits, IPv6 of four.
- *Terminal*: rings of 3 messages of one and two rows on 3 rows of log, four windows, six
  operations; six keys on a line of 4 bytes with histories of 2 fill both and overflow them.

Fairness. `log_queue`: producers inside a call keep running, and the owner's timer keeps
calling the drain, as `G_SOURCE_CONTINUE` makes it. The wait-freedom of a push is stated
without fairness: its next step is always enabled. `services`: a call of stop runs on, and a child that was sent SIGKILL ends
(`SubprocFairness`); the manager's poll drops a connection marked as closing
(`TransportFairness`). The child is not assumed to react to any other signal. On the bus
threads finish the calls they are in, callbacks return and loops run what was dispatched to
them (`BusFairness`); drains inside callbacks are excluded there, since the header of
`event_message_token_drain()` forbids the case that deadlocks, and two callbacks draining
each other would wait for ever.

## 4. Proofs

Every theorem is checked to its last leaf and holds for every value of the constants that
satisfies the named assumptions. The runs check the same properties on small instances.

*FoldProofs*. The library's induction theorems take a property as an operator, which the
provers cannot instantiate. Here a property is the set of what has it and a step of a
recursion a function: `Least` (the well-ordering of the numbers, from `WFMin`),
`Greatest`, `CountsUp` (induction), `Iterates` (a recursion up to a number has a
solution), and the sums of the community modules over a set or a sequence when one member
is added, removed or changed. With these, what a recursive function or a fold computes for
every input can be proved after all.

*LogQueueProofs*, for any producers, capacity and limits (assumption
`LogQueueAssumption`): `TypeCorrect`, `LockAlwaysDisciplined`, `RingIsExact`,
`LossesAlwaysAccounted` and `QueueIsChannel`. The inductive invariant `SafetyInv` joins types, the mutex
discipline, that a call in progress has a numbered record (so that stored slots
hold records), and `RingHoldsUndelivered`. The discipline is what makes a
producer's and the owner's critical sections exclusive; `SuccWraps` removes the
modulo. The refinement maps the history sequences to the channel's. The mutex
discipline is proved only; no run repeats it. `LossesAlwaysAccounted` (the producers are
finitely many) sums the pushes of all producers: stored, dropped or under way, while the
total trails its two parts by the calls between their two increments.

*EventMessagesProofs*, for any threads, tokens, depth and emits
(`EventMessagesAssumption`): `TokenTypes`, `ExecutingExact`, `ListenersActive`,
`DomainOutlives`, `SafeToUnload`. `TokenInv` adds to these: levels above a
thread's depth are empty (`StackShape`), frames name issued tokens (`FrameTokens`),
listeners with a dispatcher name a known loop (`LoopsKnown`), and a quiet token is
inactive with no callback running (`QuietStays`). `SafeToUnload` needs all of it: an
inactive token is never entered again (`MayRun`), and the drain saw `executing` at 0,
which is the exact number of its callbacks.

*EventBusProofs*, for any threads, events, callbacks and pointers
(`EventBusAssumption`). `EventBusTypes` and `NomatchOnlyFallsBack` from `BusInv`: types,
a call that removes has an issued token, and an emission that has looked at the NOMATCH
array found its own empty. `RetiredStaysGone`, `MarksAreExact` and the action property
`TokensDropOwn` have the hypothesis `FreshTriples`, without which
`event_bus_shared_token` refutes them. `OwnInv` says what makes them true: ids are
unique and issued, a token's event, callback and pointer are those of its registration,
an active token's triple names at most the listener it was issued for, and a domain's
unmarked listener has its marking still to come.

*LoggerProofs*, about Modules over Logger, for any subscribers, records, filters,
queue length and module names (`LoggerAssumption`, `ModulesAssumption`):
`LoggerAndModulesTypes`, `RawCountAlwaysExact`, `SubscribersCalledOnce`, `EndAlwaysDrains`,
`SuppressionAlwaysAccounted` and `ArmedStaysMapped`. `LogInv` joins types; the list without repetitions and its raw
count (`ListInv`); of every delivery in progress, that it has called exactly the
subscribers behind its cursor (`WalkInv`), which insertions at the end and removals
anywhere keep; that a token is a listed subscription of its own module (`TokensOwned`);
that `opened` counts loaded names (`OpenedExact`); and where the records of a session can
be while it ends (`DrainInv`). `RatesInv` puts every message a rate held back in one place: announced,
forgotten, in its slot, or with a delivery that will announce it, the last two being sums
over the slots and over the nested deliveries. `ArmedStaysMapped` has two hypotheses: hooks clean up
(`Tidy`; `module_untidy` is the counterexample), and different names are different
files. With two names for one file the second init hook overwrites the token in the
module's static variable, and the first callback outlives both unloads.

*ServicesProofs*, each for any number of processes, calls, instances, pseudo-terminals and
paths.
Child processes (`SubprocAssumption`): `SubprocTypes`, `HandleAlwaysOwnsAll`, and
`MappingsAlwaysHonoured`, for any finite set of parent's descriptors and any mappings with
different targets: one induction over the duplicates, which are new, apart from each other
and above every target, and one over the calls of `dup2()`, which therefore overwrite no
duplicate that is still to be used. `HandleOwnsAll` excepts a signal to the pid of a child
the program collected elsewhere (`taken`), which the handle cannot know of.
Transports: `TransportTypes`, `EventsAlwaysInOrder`; the invariant relates the log of
events to the state of the transport, so that each state allows the events the order
allows.
SOCKS: `HandshakeAlwaysExact`, for any scripts. `SocksAssumption` types the scripts and
says that the payload is what stands behind the reply as the protocol lays it out
(`ReplyLayout`). `SocksInv`: with k bytes arrived, an unfinished client is what the loop
on these bytes in one piece would have left (`AtByte`), and so is one that failed with
`cause` "bytes", while one broken off otherwise has asked for no more than that loop would. It is inductive by
`ResumesGreeting`: a loop that stopped on a beginning and goes on with more bytes ends as
one loop on all of them, shown stage by stage from the last one back.
Daemon and serial devices: `DaemonTypes`, `AtMostOneInstance` (two running instances
whose file is still at the path would hold the lock of the same inode), `SerialTypes`, `BorrowedAlwaysReturned`.

*DictProofs*, for any keys, hashes, values, table sizes that start at a power of two, and
bounds on the calls (`DictAssumption`): `DictTypes`, `AlwaysFindsWhatWasStored`,
`EnumerationAlwaysComplete`, and `ProbesCoverTheTable`. The last is about the arithmetic of
the walk: once the perturbation is used up, i -> 5i + 1 modulo a power of two comes back
to no slot before it has been at all of them. `DictInv`: no key is in the table twice and
every entry is reached by the walk for its key over slots that are not empty
(`TableInv`), which tombstones keep and a rehash re-establishes, entry by entry; `used`
counts the live slots; every key is held with what was stored last or not at all
(`Kept`); a key an enumeration owes was seen or lies ahead of its rank. `ReadsAlwaysExact`
(`DictValuesAssumption`: the three largest numbers are ordered, an unsigned int fits a long,
and stored values are of their types) goes through the conversions of every getter, for integer types of any size.

*StoresProofs*, configuration (`ConfigAssumption`: the main file exists at the start, the
limits are numbers, the mark for completion is no key): `NothingEverLost` from `FilesInv`, by which every
whole file is outside the path a save is writing; `ConfigTypes` and `ReloadAlwaysClean`
from `HeapInv` (every allocated dictionary has exactly one holder among `cfg`, the
defaults, the stack of files being read, and the two a reload compares), `JobInv`,
`KeysInv` and `ToldInv` (the announced keys are those visited whose values differ).

*StoresProofs*, access lists: `VerdictsAlwaysStand`, for any list of rules, width of an
IPv4 address, mapped block, hosts, users and groups. `AclAssumption` says that
addresses have the width of their family and that a selector `acl_rule_parse()` accepts
names its user or group by one word (`Formed`): a user called like a network or `all` is
outside what `Says` defines. `InsideIsCovered` compares a normalised network and a
normalised address with the ones written in IPv6, by the position of the mapped block
and the prefix; `RuleMeant` shows for each form of a selector that the rule means what
the selector says; `EarlyMatch` that a rule which matches or fails on partial knowledge
does so on full knowledge; `AskedVerdict` puts the first rule found and the first
selector meant together.

*StoresProofs*, windows (`WindowsAssumption`): `ViewAlwaysKept`, for any titles, number of
windows and messages, ring length and terminal size. `ScreenInv`: the list of windows is
never empty, as the status window is in it, and the active index lies within; every log is a ring whose messages are
numbered in the order they came; and of every window that is scrolled back, the painter's
top row is the one the user had, as long as the ring holds it (`WindowInv`). A print makes
the rows of a log from a lost beginning and what is kept, then what is kept and the new
ones; the scroll offset, counted in rows from the end, grows by the new rows.

*StoresProofs*, input line: `LineAlwaysEdited`, the refinement of LineEditor by the byte
array of `tui.keys.c`, for any buffer and history lengths, typed code points, format keys
and words to complete (`InputAssumption`: the buffer has room for a byte and its NUL, a history
for a line, typed keys are no control characters, words hold no NUL). `InputInv` joins
`ScreenInv`, since keys switch and destroy windows, with `Typing` (0 <= cursor <= length <
buffer) and `Pasts` (each place's history within its limit, of lines that fit the buffer,
its index in range). Lemmas say what the moves of memory do to the text left and right of
the cursor (`Inserts`, `TakesAway`, `Ends`, `PutsLine`, `PutsWord`), that `SkipBack` and
`SkipForth` stop at the abstract word boundaries, and that a line is handed on up to its
first NUL; with them each key is one of the editor's actions or changes nothing. A Tab whose
completion does not fit the buffer ends the behaviour (`spilled`): nothing is claimed of it.

Only model-checked:

- liveness under fairness (`StoredIsDelivered`, `DrainReturns`, `EndingsComplete`) and
  ENABLED (`PushNeverWaits`), for which there is no prover;
- `LoadedAsWritten` and `SavedComesBack` of Config: the reference reads a file with its
  includes flattened by recursion, the code by a stack of files; no proof was attempted;
- `ReadsTheGrammar` and `WrittenReadsBack` of Json: its grammar is a RECURSIVE operator,
  in whose presence tlapm has no SMT backend.

## 5. Findings

With a run that shows them:

- `event_off_token()` never compares the generation its comment relies on: a token drops an
  earlier listener that shares its callback and user pointer, and leaves its own.
- A domain listener is published before it is marked, so an emit in between
  hands the connection pointer to the domain's thread.
- `dict_resize()` does not clear tombstones when the table need not grow; short-lived
  keys fill it and `dict_lookup()` of an absent key loops for ever. In the event
  bus this would happen under `event_lock`.
- A module whose init hook fails after it registered a callback is unmapped at once,
  where `module.h` promises that a module that fails to clean up stays loaded.
- A producer past the routing test can push after the last drain of `logger_end()`; the
  record is not discarded, as `THREADING.md` says, but delivered in the next session.
- An instance that is refused the lock removes the pid file of the one that holds it
  (`daemon.c:80`), so a third start runs beside it. `OneInstance` therefore speaks of the
  instances whose file is still at the path; `OnlyOneRuns` is what the code's comment says.

Seen while modelling, without a run, because no line of the repository promises
otherwise or because the case is the model's own exception:

- *Event bus*: a domain can be unregistered between the lookup of its dispatcher and the
  registration of the listener; marking marks every listener with the same pointers; two
  threads that unregister one token both act; `event_shutdown()` leaves text and binary
  tokens active.
- *Logger*: `API.md:114` lets raw callbacks see every event, the code withholds `LOG_CRAZY`
  from them (`logger.c:565`); `THREADING.md` gives other drain limits (128 records, 20 ms)
  than the code (512, 10 ms); a second `logger_init()` without a `logger_end()` leaves
  asynchronous logging on whatever `log.async-workers` then says.
- *Subproc*: `subproc.h:41-42` says a refused scheduling profile fails the child; the code
  goes on (`subproc.c:127-132`). A spawn on a handle that was reaped and not closed
  loses the old pipes, and a stop signals the pid of a child that was collected elsewhere,
  whoever has it by then (both excepted in `HandleOwnsAll`).
- *Configuration*: a value with a blank right behind a wrap loses it; keys with a colon are
  saved in a form only registered section callbacks read back (both excepted in
  `Survives`); `cfg_modules_get()` promises the order as written and gives the dictionary's.
- *Values*: numerals with a minus sign are negated modulo the word by `strtoull()`
  (excepted in `Reinterprets`).
- *Windows*: when the last window is active and an earlier one is destroyed, the focus jumps
  (excepted in `ViewIsKept`); PgUp counts messages while the painter counts rows.
- *Input line*: Alt-Right submits the line typed so far in the next window, because its
  handler answers 0 and the symbol has the number of a newline; a completion may push the
  text behind the cursor past the buffer (`spilled` ends the behaviour there); code points
  that are multiples of 256 put a NUL into the line; Down right after Enter clears the line.
- *Removal during a walk*: a log callback or a reload listener that removes the very node
  the walk stands on leaves it on freed memory (`logger.c:652`, `config.c:1676`), and a log
  token kept over `logger_end()` may equal a later node's address. The models let callbacks
  remove and add every other node. The program's Enter callback may likewise destroy the
  window `stdin_ev_cb()` still holds (`tui.keys.c:597`).
- *Waiting*: a callback that drains its own token, or two that drain each other's, wait for
  ever; an emit in flight may hand a delivery to a dispatcher after off, drain and domain
  unregistration (the callback does not run; the dispatcher has to be alive still).
- *Ring buffer*: one of size 1 frees its only node and links the new one behind it.
  *I/O*: `rr_io_open()` keeps a closed descriptor's number.

## 6. Not modelled, and the plan

Left out for good: libtermkey (`termkey.c`, `tui.driver-*.c`; vendored), drawing,
colours, message layout and text formatting, the colour picker and structured views,
wrappers around single system calls (`posix.c`, `privileges.c`, `io.c`, `io.socket.c`,
`scheduler.c`, the modem lines of `io.serial.c`), the GLib adapter (`reactor.c`), string,
time and locator helpers, the profiling counters of the bus. `eeprom.c` is unfinished:
its writers return without writing and there is no protocol to state. `list.c` and
`ringbuffer.c` are pointer lists used from one thread. GLib's loop and mongoose appear as
the threads and events that run dispatched work.

Within modelled components: dictionary import, export, copy and dump; typed
configuration readers and programs' own save callbacks; line reading from a child;
the lists of configured modules and serial devices.

What is left to prove: `LoadedAsWritten` and `SavedComesBack`, with an invariant that
relates the stack of files being read to the flattened rest of the text; for JSON, a
reference grammar as a recursive function over the ranges of the text, so that tlapm can
reason in that module.
