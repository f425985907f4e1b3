# Verification of am_core

am_core is a C library (pjlib, pjsip and pjmedia under it) for SIP telephony
programs: a small runtime with events, timers, work checks, commands and
configuration (`src/core`), a media system into which modules plug audio ports
(`src/core_media`, `module/wav`), and SIP accounts and calls (`src/sip`). This
directory holds TLA+ modules of its core logic, the TLC configurations that
check them, and proofs that TLAPS checks. Paths below are relative to the
repository; `acore_mem.c:121` is a line of `src/core/acore_mem.c`.

    tlc -config MCTimers.cfg Timers          one run; the table below lists all
    tlapm Timers_proofs.tla                  the proofs about Timers; eight modules hold proofs

## 1. Inventory

| part | state | operations | what makes it correct |
|---|---|---|---|
| reference counts, `acore_mem.c` | `mem_tree`: object -> (ref, des, clear) | bind, add_ref, dec_ref, is_available, mask_destroy | an object is cleared once, with its last reference, and never under a client |
| API registry, `acore_runtime.c` | `mtree`: name -> API | register, unregister, get_clone, release_clone | no clone after unregistering; a found API is not cleared |
| lists, `acore_list.c` | ring of nodes, optional order | add, remove, search, clear | a node once, cleared once, order kept |
| events, `acore_event.c` | list of events, each with a lock and handlers | create, destroy, register, unregister, send | a send runs each registered handler once, no cleared one; no deadlock |
| timers and main loop, `acore_timer.c`, `acore_main.c` | heap of entries, delay of the loop, `loop` flag | register, unregister, change, loop, close event | no drift, bounded lateness, what is registered runs, nothing runs after unregistering (not kept), the loop ends |
| work checks, `acore_work.c` | list of works with checks | create, add, remove, test, destroy | a test asks every check that is there, none that was cleared |
| commands, `acore_ui.c` | list of modules with commands | register, unregister, input | a command runs only while registered |
| configuration, `acore_context.c` | contexts, patterns, values | parse, find, get, list | values are those of the text, patterns inherited |
| init and close, `acore_init.c`, `asip_init.c` | `core_init`, `sip_init`, the parts | init, close | nothing is used after it was closed |
| media system, `media_base.c` | factories, map port -> factory, references | init, close, register_factory, create, destroy | no part freed under a user, all freed at the end |
| wav module, `wav_mod.c` | one reference-counted module, port parts | init, close, create callback, API ports | references balance on every path |
| sound control, `core_sound.c` | ports, clock, stream per control | create, start, stop, destroy | a failure gives everything back |
| calls, `asip_call.c`, `asip_inv.c` | call modules, `inv_map`, state of each call | add and remove module, call, invite, session call-backs | call-backs find their call, the module of a call lives, locks are returned |
| user agents and login, `asip_ua.c`, `asip_login.c` | `ua_list`, login state, registration | create, destroy, find, register, answers | an account points at no client but its own, nothing else answers for it; an account is found while it is there; the transport outlives two timeouts |
| ports and tools: `loop_back.c`, `mix_port.c`, `sys_sound.c`, `acore_input.c`, `tree_help.c`, `asip_cfg.c`, stdio and audio_call modules | little or none | I/O, or commented out | not modelled |

How they interact:

* everything that is shared between modules hangs on **reference counts**
  (`acore_mem`): APIs, factories, the media system, ports, call modules. Releasing
  one object runs its clear call-back, which releases the next;
* three **locks** are taken in one another: the core lock (`acore_start`), the
  SIP lock (`asip_start`) and one lock for each event. Handlers run under the
  event's lock and call back into the library;
* the **main loop** runs the timers; the SIP module polls its endpoint from a
  timer, so session call-backs come on the loop's thread, while application
  threads make calls;
* the **events** carry calls and registrations to the application, in the
  context of whatever thread and lock the sender holds.

What is hard, and what the properties are for: unlocked counters and lookups that
stand before a lock; call-backs that re-enter; the order of locks; references
that must balance over failures and over closing in any order; call-backs of a
session that come before the call is recorded, or after it is freed; timers that
overrun, sleeps that a new timer does not shorten. `PROJECT.json` lists these
hazards line by line with the properties that cover them.

## 2. Modules

* **SharedObject**: the contract of `mem.h`, an object that is published, held by
  clients, doomed by its owner and reclaimed with its last client. AcoreRuntime
  and MemThreads implement it.
* **MemControl**: the calls of `acore_mem.c` as operators on the control table,
  one complete call at a time, the erase and the clear call-back included.
  A block is removed below zero, so a stored counter is a natural number.
* **AcoreRuntime** (EXTENDS MemControl): registry and clones. `mtree` is the tree
  of names, `mem` the control table, `held` the clones that clients own.
  Every call is one step.
* **MemThreads**: the same calls statement by statement: lookup, lock, read, write,
  test, erase, clear, unlock, one action each, with a program counter per thread.
  `cmd` is the pointer a thread got from `find_mem`, `reg` the counter it read.
  `MemLock` is `ACORE_MEM_LOCK`; `Quiescent` is the callers' promise that no
  `get_clone` overlaps the unregistering. The compiler may read the counter again
  for the test (`DecTest` takes either value). There is one object, so the walk and the
  erase of the tree, which the code does without the lock, are one step each: what they
  do to the other nodes of the tree is left out.
* **AcoreList**: lists as sequences: sorted and unsorted add (behind the first
  node!), erase, the walk with its erased-node behaviour, search. A node is found and
  erased by its place (`PlaceOf`).
* **EventBus** (EXTENDS AcoreList): one event. Every thread has a stack of calls,
  because a handler may call into the event again; each lock has an owner and a
  depth. `Start*` is what a call does before it waits for the lock, the rest what
  it does under it. A send keeps, besides its cursor, which handlers it has run
  and which were there all the time. `CallingLocks` are the outer sections that the event is
  called in (`asip_ua_call` sends inside the SIP section, `acore_event_destroy` takes the
  core lock), `HandlerLocks` those that handlers enter. With `IdleDestroy` the event is
  destroyed while no call on it is under way. A call that meets a destroyed event
  returns at once (`CallDestroyed`).
* **MediaWav** (EXTENDS MemControl): the references between media system, factory,
  wav module, its API and the parts of each port. Creating a port is checked ->
  (half ->) made -> open, destroying it open -> destroyed -> released -> none, one
  step for each stretch of code between two things another thread can do.
* **SipCalls** (EXTENDS MemControl, AcoreList): call modules, outgoing and incoming
  calls and the call-backs of their sessions. A session has an address, `inv_map` leads
  from addresses to calls, and the address of a freed session may come back. What pjsip
  does is external (`CanCallBack`, `SessionFreed`, `Unused`): a call-back of a session
  comes to the thread that works on it, in the middle of `asip_ua_call`, of
  `on_call_incoming` or of another call-back, or to an idle thread when no other thread
  is in a call-back of the session or has its dialog. `cb` is the call-back a thread is
  in; a media update is two steps (`MediaUpdate`, `MediaUpdated`), between which the
  handlers run and the call may complete. A media update does not come inside another
  call-back.
* **Timers**: timers, the loop thread and time. Every instant is kept relative to
  now, so the state space is finite although time does not end. Time passes while
  the loop sleeps and while a call-back runs. The timer heap is external: poll
  runs what had expired when it read the time, the earliest first.
* **SoundControl**: one control in any of its five modes. A call of the
  application is a list of steps (`todo`): what create makes, one device or port
  at a time and each of them may fail, what the error path or destroy takes down
  again, in the order of the code. The clock thread and the two threads of a
  sound stream (`Driver`) call back between any two steps; `cb` is the moves a
  call-back still has to make and `taken` the frame it holds between taking it
  from the source and giving it on. The life of the ports themselves is MediaWav.
* **UserAgents**: the accounts from `asip_init` to `asip_close`, and again from the next
  `asip_init`. `ua_list` is two functions of pointers, `next` and `prev`, because it is
  searched without a lock while accounts are inserted: `CreateUa`, `LinkBack` and
  `LinkForth` are the stores of `pj_list_insert_before`, and a look-up takes one node a
  step. `doing` is how far the application's call on an account is: creating one,
  dropping the old client of a registration, making the new one, forgetting it. Any
  statement of `reg_cb` and any step of a look-up comes between two of these. With
  `InSections` one such call is under way altogether, as `asip_start` provides; without
  it, one on each account. `reg_cb` is what it writes and then the event it sends, in
  whose handlers the application may call in. Closing destroys all accounts but the
  last, which is `left` as it is. A registration client of pjsip (`client`) is external:
  idle, sent or calling back, `doomed` once it is destroyed while busy. `streak` counts
  the timeouts since a login, and `torn` says that an account was destroyed during the
  look-up.
* **WorkChecks** (EXTENDS AcoreList): one work and its checks. As in EventBus every
  thread has a stack of calls, since a check may call in; `find` stands before the
  core lock, `lock` waits for it, `sip` is the outer lock of `asip_call.c`. A test
  keeps which checks said yes and no and which were there all the time.
* **Commands** (EXTENDS AcoreList): modules in `core_ui`, commands in their
  `func_list`. What `ui_lock` or the lock of a module encloses is one step, and every
  unlocked search, the unlocked test for emptiness, the handler that runs after the
  lock is released and each line that help prints is a step of its own. Input is two
  words; the first one may be a command of the first module.
* **Config**: the parser as a machine that reads a file of any lines, one
  iteration of its loop per step, and the look-ups. `text` is the file as far as
  it was read; a key alone on its line, with `=` or without, takes the next line as its
  value, a header too; the reference definition (`Written`, `Inherits`, `Expected`) reads
  the values off `text` without the parser's state.
* **AcoreRuntime_proofs**, **MemThreads_proofs**, **EventBus_proofs**,
  **MediaWav_proofs**, **SipCalls_proofs**, **Timers_proofs**, **UserAgents_proofs**,
  **Config_proofs**: the theorems of each component and their proofs. EventBus_proofs
  has those of WorkChecks as well, as an instance `W`: both walk a list under a counted
  lock in stacks of nested calls, and the lemmas about these serve both. MediaWav_proofs
  has those of SoundControl, as an instance `S`: the ports it makes are MediaWav's.
  SipCalls_proofs has those of Commands, as an instance `C`: call modules and modules of
  commands are lists that are searched while they change, and share the lemmas about lists.
  **MCEventBus**, **MCSipCalls**, **MCUserAgents**, **MCCommands**: constants and
  symmetry for TLC.

The faulty variants that stand at the head of a section of a module are used by
nothing: each is a slip that a property of the module finds when it takes the
place of the definition that `PROJECT.json` ("mutants") names.

## 3. Runs

| run | module, cfg | bounds | shows |
|---|---|---|---|
| runtime | AcoreRuntime, MCAcoreRuntime | 2 APIs, 3 clones | counters exact, no clear under a clone, cleared in the end (UnregisteredIsCleared), implements SharedObject (and with it: no clone after unregistering) |
| mem_locked | MemThreads, MemLocked | 3 clients, 1 owner, locked, quiescent | no lost update, no stale block, cleared once, unregistering completes, implements SharedObject |
| events | MCEventBus, MCEventBus | 2 threads, 3 handlers, 3 calls per thread, 3 deep | each handler run once (SendRunsEachOnce) and cleared once, nobody left at the lock when it goes, every call returns (while handlers keep to the core lock) |
| media | MediaWav, MCMediaWav | 2 ports, 3 API ports | counters exact and ports whole on every path, nothing freed under a user, what is closed is freed (ClosedIsFreed) |
| sip_calls | MCSipCalls, MCSipCalls | 2 threads, modules, sessions, addresses | calls keep their module, list and control table agree, new calls get a live module |
| sound | SoundControl, MCSoundControl | 5 modes, 3 driving threads | nothing leaks on any failure, nothing destroyed is called into, mute holds, both directions flow (FramesFlow) |
| config | Config, MCConfig | files of 4 lines, 2 contexts beside core, 1 key, 2 values | lists and look-ups say what the lines say; look-ups end |
| accounts | MCUserAgents, MCUserAgents | 2 accounts, 2 clients, one timeout below zero | no second client answers for an account and none points at a freed one (ClientsMatchAccounts), accounts found while others are inserted, the transport given up at the third timeout in a row at the earliest (TransportOutlivesTimeouts) |
| work_checks | WorkChecks, MCWorkChecks | 2 threads, 3 checks, 3 calls per thread, 2 deep | a verdict is true of every check that was there, no check lost or cleared twice, every call returns |
| commands | MCCommands, MCCommands | 2 threads, 1 module beside core, 3 commands, 5 calls, 2 deep | nothing freed or cleared is touched, every registered command is reached |
| timers | Timers, MCTimers | 2 timers, trigger times 1 and 2, 2 ticks of work per poll | phase kept, lateness bounded, timers fire, the close event ends the loop |

One more run finds a disagreement of the code with what its headers say:

| run | property | what TLC finds |
|---|---|---|
| sip_lock_leak | LockIsReturned | `asip_call.c:158,169,192` return inside the section that `sip_base.h:36` says must be left |

More that the code does not keep stands at the end of its modules. No run checks these
properties; each, put in place of those of the cfg, is violated:

| property | cfg | what TLC finds |
|---|---|---|
| NoLockCycle | MCEventBus with `HandlerLocks = {"sip"}` | a handler enters `asip_start`, as `sip_base.h:34` asks, and waits for the SIP lock with the event's lock in hand, while `asip_ua_call` sends the event inside the SIP section (`asip_call.c:156,167,188`; `asip_inv.c:149` does too): the two wait for each other, and CallsReturn fails |
| UnregisteredIsQuiet | MCTimers | a timer that is unregistered while its call-back runs is in no heap then, and `timer_callback` schedules it again (`acore_timer.c:54`, against `timer.h:62`) |
| MainUnregisteredIsQuiet | MCTimers | `acore_main_timer_unregister` registers its timer (`acore_main.c:37`); `asip_close` then releases the pool the SIP timer is in (`asip_init.c:78,81`) |
| CallBackFindsCall | MCSipCalls | a session at the address of a freed one: `acore_mmap_set` keeps the old value (`acore_mem.c:41`, against `mem.h:74`), and the call-back finds the call of the earlier session |
| LookUpStaysInRing | MCUserAgents | an account is destroyed inside a section while the polling thread, which takes none, stands on its node (`asip_ua.c:74,91`): the look-up goes on to NULL |
| UnregisteredIsLoggedOut | MCUserAgents | an account is unregistered inside a section after pjsip has begun to call back for a 2xx: `reg_cb`, which takes no lock, logs it in (`asip_login.c:46`) |

The runs give some parameters the value that a property needs. What TLC
shows with the other value, without a run of its own:

| parameter | other value | what TLC finds |
|---|---|---|
| `MemLock` (MemThreads) | FALSE, the library as it is built: nothing defines `ACORE_MEM_LOCK` | NoStaleBlock and NoLostUpdate fail: updates are lost and an object is cleared under a client |
| `Quiescent` (MemThreads) | FALSE: a `get_clone` overlaps the unregistering | NoStaleBlock fails even with the lock: the lookup before it yields a freed block |
| `SelfRemoval` (EventBus) | TRUE: a handler that runs is removed | NoCallAfterClear fails: the walk stays on the erased node |
| `IdleDestroy` (EventBus) | FALSE: the event is destroyed while a call is on its way to the lock | NoCallAfterClear fails: the call locks a dead lock (`acore_event.c:118-123`) |
| `MediaLast` (MediaWav) | FALSE: the media system is closed before the modules | NothingFreedInUse fails: a factory outlives the media system |
| `SelfRemoval` (SipCalls) | TRUE: `on_call_incoming` removes its module | ModuleOfCallLives fails |
| `LateRemoval` (SipCalls) | TRUE: a module is removed after closing | ListHoldsModules fails: the user is cleared twice |
| `KeepAlive` (Timers) | {} | RegisteredFires and CloseEndsLoop fail: the loop sleeps for `PJ_MAXINT32` seconds |
| `InSections` (UserAgents) | FALSE: calls on different accounts overlap | AccountsAreFound fails: two insertions at once lose an account (`asip_ua.c:70`); the other two properties hold |
| `Quiescent` (WorkChecks) | FALSE: the work is destroyed while others look it up | NoCheckIsLost fails: a check is added to a work that is gone |
| `SelfRemoval` (WorkChecks) | TRUE: a check removes itself while it is asked | TestIsExact fails: the walk stays on it and asks it again |
| `CheckControls` (WorkChecks) | TRUE: a check adds or removes a control | CallsReturn fails: core and SIP lock taken in both orders |
| `OneWriter` (Commands) | FALSE: two threads register at once | CommandsAreFound fails: a module is made twice |
| `Quiescent` (Commands) | FALSE: a command is unregistered while it is dispatched | OnlyLiveIsUsed fails: a cleared command is run, a freed module is locked |
| `ThreadMulti` (SoundControl) | TRUE | nothing: every property holds as well |

Two slips narrow a property. `MainUnregister` of Timers registers, as the code does,
and `dismissed` keeps such timers out of KeepsPhase. `wav_mod.c:32,45` count failed
ports in where `clear_port` counts made ones out: NothingFreedInUse has the condition
`api.cleared <= api.failed`, and without it TLC finds the module freed while its
factory is registered.

### Bounds, and why they are enough

* *runtime*: three clones on two APIs: both can be doomed with several clones
  out. The proofs lift the bound.
* *mem_locked*: an update involves two threads; the third client may be at any
  statement meanwhile. Counters need no bound: they are bounded by the clients.
  `Clear` is guarded by `cleared < 2`: a second clear is already a step that
  SharedObject does not have.
* *events*: `MaxCalls = 3`, `MaxDepth = 3`: a send, a nested section or send in
  its handler and a registration or removal in the nested one, from both threads.
  Two handlers are there at the start and a third comes and may go, so the list
  has a first, a middle and a last node.
* *media*: two ports of any direction are all that is needed for one to be the
  last; `MaxApi = 3` is one more than the two references of the module.
* *sip_calls*: two modules give the list an order; two sessions on two threads
  give every pair of call-backs. `MaxLeaks = 1` bounds how often a thread leaves
  `asip_ua_call` with the lock: after the first time the other thread is stuck
  whenever it enters a section.
* *timers*: lateness saturates at `Late + 1` = 6, the first value `NeverLate` forbids
  (the longest sleep, 2, and the work of two polls, 2 * `MaxWork` = 4), so saturation
  hides nothing; `MaxWork = 2` lets a call-back overrun both periods. With the two
  timers of the run the longest sleep and the work of one poll would do; with three and
  `MaxWork = 3` TLC finds a timer later than that, so the bound that is proved for any
  timers has the work of two.
* *sound*: the mode depends only on which of the two names is the sound system and
  whether they are equal, so two factories beside it reach all five modes, and one
  control has all its threads. `late` saturates at 2, one above what MuteBites
  admits.
* *accounts*: two accounts, of which one stands and is looked for while the other is
  inserted, registered or destroyed; two clients are a new registration of one account while
  the old client is busy, a client that goes from one account to the other, or two accounts
  at once. `MaxMisses = 1` lets the count pass zero and stop one below, where the transport
  is shut down. A longer ring is beyond TLC with two clients (9 million states for three
  accounts, and not done); the proofs have any number of accounts.
* *work_checks*: three checks give the walk a first, a middle and a last node; two deep
  is a call from a check, and three calls per thread a test with an add and a removal
  in it, against the same on the other thread.
* *commands*: five calls in all, for instance two registrations and an input whose command
  unregisters while the other thread prints help; one module beside core that comes,
  goes and comes again on two elements.
* *config*: three lines suffice for a pattern, a context that inherits and a value;
  the fourth lets a section be reopened or a key swallow a line. Two contexts beside
  core give every order of a pattern and its heir; the values of different keys
  do not touch each other.

### What the runs assume, and who owes it

* *mem_locked*: the lock of a POSIX mutex promises no turn, hence only weak
  fairness per thread, and `UnregisterCompletes` starts when the owner waits for
  the lock (new clones are then shut out, and the releases are finitely many).
  Quiescence is owed by the callers, the lock by whoever builds the library.
* *runtime, media*: clients release what they hold (WF of `ReleaseClone`,
  `DestroyStep`); a creation that was started ends. A name is free when it is
  registered. The application closes the modules before the media system
  (`MediaLast`) and neither while a port is being made (`Quiet`).
* *events*: handlers and sections end (WF of `Step`). A handler has one owner that
  removes it once, never while it runs in the same thread (`SelfRemoval`), and the event is
  destroyed when it is idle (`IdleDestroy`); nothing in the code provides either. The
  run sends inside the SIP section and from outside, and its handlers enter only the core
  section: NoLockCycle above says what happens otherwise.
* *sip_calls*: no fairness, safety only. No module is removed from its own
  `on_call_incoming` or after `asip_close`. The dialog lock of pjsip, which it takes
  around its call-backs, keeps threads apart on one session.
* *accounts*: no fairness, safety only. The application has one call under way at a
  time, from its own threads or from a handler of the event that `reg_cb` sends; that
  `asip_start` can provide. `reg_cb` and `sip_time_loop` take no lock, so nothing is
  assumed to keep the application apart from them, or a look-up from a destruction.
  `asip_close` comes when the loop and all calls have ended, and nobody calls in on the
  account it leaves. pjsip_regc: the call-back never comes from within sending, a client
  destroyed while its request is out is silent, one that got a 2xx refreshes by itself;
  what becomes of requests that are out when the endpoint is destroyed is not modelled.
  Making and sending a registration may fail, initialising the client does not.
* *work_checks*: checks end (WF of `Step`), and each thread calls finitely often, so that no
  lock is kept from it for ever. A check is removed once, by who added it. The ids of
  works are distinct.
* *commands*: no fairness, safety only. Commands have distinct names, none that of a
  module, and a handle; the application unregisters only what it registered.
* *timers*: the loop thread runs (it is one thread without locks to wait for) and
  time passes. One timer is kept alive, as the SIP timer is (`asip_init.c:58-65`):
  when a poll empties the heap the loop sleeps for `PJ_MAXINT32` seconds and
  neither timers nor the close event are served.
* *sound*: one thread owns the control and finishes the calls it starts; stopping a
  clock or stream waits for its call-back, as pjmedia does; a device that is
  started calls back again and again (WF per driver: its thread takes no lock of
  the library). The control is not destroyed from its own fail call-back.
* *config*: no fairness, safety only. A file has no line that the parser stays on
  for ever: one that begins with a sign that is neither a name, a comment nor a
  bracket, or a bracket that is not closed.
* `CHECK_DEADLOCK FALSE` stands where the system may really stop: all calls used
  up, all clients done, the loop ended, a lock leaked.

## 4. Proofs

| module | theorems | for every |
|---|---|---|
| AcoreRuntime_proofs | `TypeCorrect`, `CounterCorrect`, `HeldIsNotCleared`, `NoZombieLeft`, `RegistryIsSound`, `DoomIsFinal`, `Refinement` of SharedObject | set of APIs, finite set of clones |
| MemThreads_proofs | `BlockIsNotStale`, `UpdatesAreKept`, `ClearedOnce`, `Refinement` of SharedObject | finite set of clients |
| EventBus_proofs | `NoHandlerAfterClear`, `SendIsExact` | threads, handlers, depth and number of calls |
| EventBus_proofs, on WorkChecks | `TestsAreExact`, `ChecksAreKept` | threads, checks, depth and number of calls |
| MediaWav_proofs | `AccountsAreExact`, `NothingIsFreedInUse` | finite set of ports, number of API calls |
| MediaWav_proofs, on SoundControl | `SoundHeldIsExact`, `OnlyLiveIsCalled`, `MuteHolds` | factories, both values of `ThreadMulti` |
| SipCalls_proofs | `ModuleLives`, `ListIsSound` | finite sets of modules and sessions, threads, addresses |
| SipCalls_proofs, on Commands | `CommandsAreLive`, `InputFindsCommands` | modules, elements, threads, finite set of commands, depth and number of calls |
| Timers_proofs | `PhaseDoesNotDrift`, `LatenessIsBounded` | finite sets of timers and trigger times, work per poll |
| UserAgents_proofs | `ClientsAreKnown`, `TransportOutlivesTwoTimeouts`, `LookUpsFind` | set of accounts, set of clients |
| Config_proofs | `FilesReadAsWritten`, `FlatPatterns` | contexts, keys, values, length of the file |

Each module has a theorem `InductiveInvariant` besides, for the
invariant `IInv` that the others follow from (for WorkChecks
`ChecksInvariant` and `WIInv`, for SoundControl `SoundInvariant` and `SIInv`, for Commands
`CommandsInvariant` and `CIInv`; in UserAgents it is for `LInv`, about the registrations, and
`RingInvariant` for `RInv`, about the ring). None of the safety properties is
inductive alone; what `IInv` adds is said below. Its parts are named, each action has
a lemma, and what an operator does to a block, a list or a ring is a lemma of its own.

What the theorems assume is the named assumption of each module on its constants
(finiteness where something is counted; `None` is no entry, account or number; the
initial handlers are a list without repetitions) and, as hypotheses, the values of the
parameters that the runs use; for each, the table in section 3 shows what TLC finds with
the other value. What callers are held to besides is in the guards of the actions, and
the theorems have it from there: a name is free when an API is registered
(AcoreRuntime), no port is being made when the modules or the media system close
(`Quiet` of MediaWav), a handler or check is removed once, by one owner (EventBus,
WorkChecks), a call module is added once (SipCalls), an account has one call of the
application at a time and closing comes after all of them (UserAgents), a sound control
has one calling thread (SoundControl).

| module | hypotheses |
|---|---|
| MemThreads | `MemLock`, `Quiescent` |
| EventBus | `~SelfRemoval`, `IdleDestroy`; any `CallingLocks` and `HandlerLocks` |
| WorkChecks | `~SelfRemoval`; `ChecksAreKept` also `Quiescent` |
| MediaWav | none; `NothingIsFreedInUse` has `MediaLast` |
| SipCalls | `~SelfRemoval`, `~LateRemoval` |
| Commands | `OneWriter`, `Quiescent` |
| UserAgents | none; `RingInvariant` and `LookUpsFind` have `InSections` |
| AcoreRuntime, Timers, Config, SoundControl | none |

*AcoreRuntime.* Whether a release clears the API is
decided by the counter; that this happens with the last clone needs the counter
to be exact (RefCountsHandles); exactness needs the block of a held clone to be
bound, because a call on an unbound block changes nothing (NoClearWhileHeld);
that a doomed API still has a clone (NoZombie) keeps its counter from being -1,
so that binding never meets a doomed block nobody holds; and a
registration finds its name free only if the registry and the control table agree
(RegistryMatchesTree). `IInv` is their conjunction. `OneApiSuffices` reduces a step
to the API it is about.

*MemThreads.* `Mutex` says that whoever stands between `_mbegin` and `_mend` holds the
lock. Hence what a thread has read is still what is in memory when it writes
(`RegIsRef`), hence the counter is exact after every single statement (`Counter`): the
holders, less the owner's own reference once that is given up. `BlockLives` is what
the lookup before the lock needs: a block that a thread has found stays until the
counter is below zero, and then only one thread stands on it. `QuietEnd` is where
quiescence comes in. The refinement maps each statement to a step of
SharedObject or to a stutter.

*EventBus.* `Cursors` splits the list at the cursor of each send: the handlers it has
run and that are still there stand before it, those it must still run behind it. This
survives registrations and removals by nested calls because a handler that is on its way
in or out is one call's business (`Updates`), and no send of the same thread stands on
one that goes out. `Locks` says that a lock counts exactly the calls of its owner that
hold it, `Stages` that nobody is inside an event that is destroyed, where `IdleDestroy`
comes in.

*WorkChecks.* A test may end before the last check, so what it has seen is said from its
answers (`WCursor`): every check that is before the cursor and was there all the time has
given the answer on which the walk goes on, and a test that ends early has the answer
that ends it. A walk holds the core lock (`WLocks`), so only a nested call of the same
thread changes the list under a cursor; that it does not take out the check the walk
stands on is `WApart`, where `~SelfRemoval` comes in. `WClears` relates list, `added` and
`cleared`; without `Quiescent` it keeps only that what is in the list is not cleared yet,
which is all that a test needs.

*MediaWav.* `Whole` gives each port exactly the parts of its phase, each with its
owner's reference only, so that marking a part releases it. `Exact` has the account of
each counter; that of the module has one reference for the factory, there or refused,
never both (`Refused`). A release can then be compared with what is counted: the
module goes early only when more API ports were cleared than failed (`FreedEarly`),
and a marked factory still has a port, which holds the media system as well. `MadeInTime`
and `Closing` carry what the guards found when a creation started over to its end.

*SoundControl.* OnlyLiveUsed is about the order in which a control is taken down, so
the invariant speaks of the tasks that are left (`TakesDown`): what is held is what is
still to be freed, each once; what calls back is still to be stopped (`TakenDown`); and
a stop comes before the device and all ports of the mode are freed. That the list of
each mode is such a list is a lemma (`FreesTakeDown`), that it stays one when its first
task is done is another (`TailTakesDown`). `BeingMade` is why a failure gives back
exactly what is there: the first parts of the mode are made, except that mod_mix may
lack its input. For MuteBites, `Framing` says that the moves of a call-back
fit its driver (`Fits`): in each mode one driver alone takes from the source
(`Source`), and it takes one frame at a time, with the value of `mute` at that time.

*SipCalls.* `References` equates the references on a module with the calls that are
counted for it, `Listed` the sorted list with the control table except for a module that
is still being added. A call in `on_call_incoming` is not counted yet; the SIP lock
keeps its module from being removed, and `Locks` says that the lock stays with the
thread also when a media update in between takes it and gives it back. `Threads` and
`Progress` say what each thread is in the middle of, and that it is no other thread's
business. Which call a call-back finds plays no part: after an address has come back it
may be another one.

*Commands.* OnlyLiveIsUsed speaks of every call on every stack; `Nested` reduces it to the
innermost one of each thread, since those around it wait in a handler and touch nothing
before they return. What such a call relies on is `Standing`: the module it has found is in
`core_ui` and not freed, the command it will run is in the module's list, what is still to
be taken out is registered, and help has as many commands left to walk as it counted
(`Left`), which a registration behind the first node only adds to. `Alone` is
where the hypotheses come in: a call that registers finds only input beside it,
for which the tables grow, and one that unregisters finds nothing beside it but its own
thread's handlers. `Tables` lets `parrent`, the lists and `core_ui` agree, `Tended` gives each
module without commands a call that is about to fill or remove it. `Known` carries what was
registered when input came in to the look-up. That the commands of an array are added one
after the other is the lemma `AddedInTurn`, about the fold that models it.

*Timers.* The phase needs every entry to expire one period after its `last_triger`
(`Phase`), except where the model no longer tells lateness apart. Lateness is harder:
`Credit` bounds how far `pre`, from which the loop computes its sleep, runs ahead of
the poll, and `Lateness` counts how late a timer can be at the end of the present
sleep; both need a timer that never leaves the heap for good (`Kept`), as the
first of the heap bounds the sleep. That a finite set of timers has a first one is a
lemma, by induction on its size. The attempt with the bound that was stated first, the
work of one poll, failed, and for a reason: see the bounds of *timers*.

*UserAgents.* While a registration is dropped and made anew the account points at a
client that is destroyed, or at nothing of its own; `Clients` says that at every other
time (`Knows`) the account and its client know one another, and that any other client of
an account that is there is doomed. `reg_cb` asks the account for the client, not its
parameter, so a client that the account got meanwhile could lose its transport for the
timeout of the old one; `Transports` says that it has none yet. `Counts` relates
`false_cont` to the timeouts since the login, over refreshes and new registrations. For
look-ups the ring is closed under `next` except for the account that is half inserted
(`RingIsClosed`), and its nodes can be numbered along `next` so that a walk has what it
looks for ahead of it (`RingIsOrdered`); the numbering is an existential of the
invariant, not a variable. `Inserting` is where `InSections` comes in: the pointers that
an insertion has read are still those of the ring when it writes.

*Config.* What a file says is defined on its lines alone (`Headers`, `Saying`, `Written`,
`Expected`), without a parser; `IInv` says that the parser's state is what the lines
read so far say. A step appends a line, or a key and the line it takes, and the
lemmas about such a file with more lines carry `IInv` over it: the lines before keep what they
said (`Taken`, `Around`, `Says` look back only), and a setting adds one value at the
end of one list. `Standing` is what makes this go through: between steps no key
waits for a value, and `current` is the context of the last line. A look-up is a
recursion in the code; that a context inherits only from a pattern, and a pattern
from nothing (PatternsAreFlat, inductive by itself), ends it after one level, where its
value can be compared with the file's.

Only model-checked is every liveness property: leads-to under fairness and ENABLED are out
of the prover's reach. Every invariant and action property of a passing run is a theorem.

## 5. What is not modelled

* init and close beyond what each part does then: `core_init` set before anything can
  fail (`acore_init.c:19`), and `asip_close`, which releases the pool that the SIP timer and
  the call check live in while both are still linked (`asip_init.c:70,78,81`);
* of the accounts: the printing of URIs and contacts (`asip_ua.c:112-195`), the contact
  that `update_contact` renews, the time of the last login, searching by name (the
  same walk as by URI);
* several works and their random ids; of the commands: parsing of options, the log level,
  a line of help that a registration meanwhile pushes out of the count;
* of the configuration: reading the file, numbers and booleans made of a value,
  `acore_context_next` (which stops an element early, `acore_context.c:357`), and
  the lines on which the parser never ends;
* of the sound control: the frames themselves, sampling rates, and a fail call-back
  that destroys its own control;
* the comparison of pointers in `mem_cmp`, truncated to an int: tables are functions;
* registering under a name that a doomed API still has (`acore_runtime.c:44`);
* several events at once and the list they are in; ids of list elements;
* the list of factories beyond one, codecs, resampling, a second
  `wav_module_init`; reading and writing of frames;
* the content of SIP messages and SDP, dialogs and transactions of pjsip beyond
  which call-back comes when; the uninitialised `on_call_incoming` of a module
  that `asip_call_add_media_support` makes;
* I/O, printing, logging, and the files that hold no live code.

## 6. Plan

Done, in this order: MemControl, SharedObject, AcoreRuntime and its proofs,
MemThreads, AcoreList, EventBus, MediaWav, SipCalls, Timers, SoundControl, Config,
UserAgents, WorkChecks, Commands; the proofs of MemThreads, Timers, UserAgents, SipCalls,
EventBus, MediaWav, Config, WorkChecks, SoundControl and Commands. Left to do:

1. *Lifecycle*: init and close of the core and SIP parts, failures in between, the
   sip timer against `asip_close`, composed with Timers' view of the loop.
2. *AcoreRuntime*: registering under the name of a doomed API, with the node that the
   tree refuses.

There is one run for each question the project asks of the code.
