# A TLA+ verification of Uinx

Uinx is a small systems language: a compiler in C++ (`src/src`, `src/include`),
a C runtime (`src/runtime`), a standard library written in Uinx itself
(`src/stdlib`), a package tool, a language server and an editor client.  This
directory models the parts of it whose correctness depends on order, aliasing,
concurrency, failure or overflow, checks them with TLC on small instances, and
proves, with TLAPS, the safety of `core::sync`, the runtime's collections and
decoder, the futures, the SMP analysis and the package walk for every instance.

    tlc -workers 2 -config Borrow.cfg MCBorrow      # one run; PROJECT.json lists all
    tlapm LockProofs.tla                            # one of the eight *Proofs modules

## 1. Inventory

| Component | State | Operations | What is hard | What makes it correct |
|---|---|---|---|---|
| Borrow checker (`borrow*.cpp`) | moved places, loans, origins of every reference, scopes, loop frames, live places | one walk of a function body: `check_stmt`, `inspect_expr`, `access_place`, `begin_borrow`, two-phase reservations, `merge_states`, loop fixed points | the order of kills, binds and checks; stale origins; joins; loans that outlive an await | what it accepts never uses a moved place or a stale reference; loops converge |
| `core::sync` (`stdlib/core/sync.ux`) | one or two atomic words per primitive | spin lock, ticket lock, reader-writer lock, sequence lock, once, barrier | every interleaving of atomic accesses; memory order; unlocks of two steps | exclusion, order, release of waiters, no torn copies |
| Runtime collections (`runtime/collections.c`) | vector, reference count, open-addressing table | reserve, push, pop; clone, release; put, get, remove, resize | failing allocations, tombstones, sizes near `SIZE_MAX`, concurrent release | memory safety, no leak, the table is a map |
| Runtime text (`unicode.c`, part of `runtime.c`) | none; four static string slots | decode, encode, validate, `*_to_string` | boundary bytes, strings cut short | decoder inverts encoder |
| Runtime allocator (`runtime.c`) | the installed allocator | alloc, realloc, dealloc | over-aligned reallocation that fails | blocks freed with their size |
| Async lowering and executor (`codegen_async.cpp`, `uinx_block_on`) | a state word, saved locals and a child per await in every frame | construct, poll, drop, block_on | polling again, dropping while suspended, failing children | each frame is freed once and not before its last use, a body runs once, `block_on` returns |
| SMP context analysis (`sema_smp.cpp`) | `is_concurrent` per function, a worklist | propagation over the call graph, checks of globals and of parameters | cycles, unordered containers, checks that depend on the propagation | exactly what can be reached is concurrent, accepted programs have no plain race |
| Send and Sync (`sema_resolve.cpp`, `sema_expr.cpp`, `types.cpp`) | substitutions, the goals being proved | struct literals, generic calls, `auto_trait`, `solve` | recursive structures, bounds by name, markers | only Send values cross to concurrent functions |
| Rest of semantic analysis (`sema*.cpp`) | symbol tables | resolution, typing | - | its results are given to the other modules |
| Lexer and parser | position, indentation stack, bracket depth | lines to tokens, items, suites, recovery | several dedents at once, comments and brackets, malformed lines | parsed without an error exactly when laid out, each line where it is indented; parsing ends, for every source but those that reach one of two loops which do not move on (2.4) |
| MIR lowering and optimizer (`mir*.cpp`) | blocks, slots, temporaries, scopes, loop targets | lowering of every statement and expression, four passes | widths and casts, order of rewrites, aliases, early exits | meaning, form and types are kept |
| Code generation (`codegen*.cpp`) | text | emission | - | what it prints for an instruction is the meaning of MIR |
| Package tool (`tools/uinx.cpp`) | manifests, visited packages, `uinx.lock` | build, fetch, fmt | cycles, two names for one package, two walks that must agree | each package once, the lock names the build, formatting changes no program |
| OS runtime (`runtime.c`, `sync.c`, `process.c`) | handles of the C library | files, threads, sockets, processes | left to libc | - |
| Driver (`compiler.cpp`, `uinxc.cpp`) | options | the pipeline | - | - |
| Language server, editor client (`uinx_lsp.cpp`, `extension.ts`) | open texts, the client, diagnostics | start, stop, restart, publish | overlapping starts, late answers | one client; diagnostics of the newest text |

How they interact.  The parser's tree goes through semantic analysis, the
borrow checker, MIR, the optimizer and the code generator in that order and on
one thread; the first error list that is not empty ends the pipeline.
Generated programs call the C runtime and are linked with the standard library,
whose `alloc::*` types are wrappers of `collections.c` and whose `core::sync`
runs on any number of CPUs at once.  The package tool and the language server
call the compiler as a library or a process; the editor client talks to the
language server in messages and, without one, runs the compiler itself.
The concurrency of the system is in `core::sync`, in the reference count, in the
programs the SMP analysis accepts and in the editor client; everything else is
sequential, and hard because of aliasing, failure, order or arithmetic.

`PROJECT.json` lists the hazards, each at its line.

## 2. Modules

| Module | Models | State and actions |
|---|---|---|
| `SyncThreads` | the threads that share a primitive | a constant |
| `Mutex`, `RwLock` | what a lock promises | the set of holders; Acquire, Release |
| `SpinLock` | `sync.ux` 8-30 | the word and, per thread, the place in `lock`; one action per atomic access |
| `TicketSpinLock` | `sync.ux` 33-65 | `next`, `serving`, each thread's ticket and the copies `try_lock` and `unlock` hold |
| `RwSpinLock` | `sync.ux` 67-105 | the word, modulo its width, the copy `read_unlock` holds between load and store, and the history variable `lost`: whether such a store ever overwrote an update |
| `SeqLock` | `sync.ux` 107-134 | the sequence word, the data and, on a weak target, the accesses that have not surfaced |
| `Once`, `Barrier` | `sync.ux` 136-177 | the words, an epoch or round per use; `leads` remembers which calls of `wait` returned TRUE |
| `Arc` | `collections.c` 87-129 | the counter, what is allocated, handles per thread |
| `KeyValueMap` | what a map promises | a function from keys to values |
| `HashMap` | `collections.c` 131-275 | slots, `len`, `tombs`; put, get, remove, failing allocations; `map_resize` is a recursive function over the old slots, as its loop |
| `Vec` | `collections.c` 12-85 | `len`, `cap`, the block and its size, on a `size_t` of few bits |
| `Utf8` | `unicode.c` | operators: encode, decode; validation one character per step, which keeps each code point with the offset it ends at |
| `BorrowState` | `borrow_loans.cpp`, `borrow_places.cpp`, `merge_states` | the checker's `State` record and the operations on it; places and when two overlap |
| `BorrowChecker` | the walk: `borrow.cpp`, `borrow_flow.cpp`, `borrow_liveness.cpp` | `check_function` as an operator on function bodies |
| `SafeRefs` | the meaning of references: the machine the checker is judged by | memory cells, reference values, a continuation; one action per statement or operand |
| `SmpContexts` | `sema_smp.cpp` | the worklist, one key per step; the two checks; then CPUs that enter and call the accepted functions |
| `Types`, `SendSync` | `types.cpp`, the trait solver of `sema_resolve.cpp`, literals and calls of `sema_expr.cpp` | a program goes through its literals, its call and the boundary check |
| `Futures` | `codegen_async.cpp`, `uinx_block_on`, `uinx_yield_once` | frames, the stacks of poll and drop activations, the owner; one action per block of the generated functions |
| `Mir` | `mir.hpp`, what `codegen_function.cpp` emits per instruction | operators: the behaviour of a function on an input |
| `MirLowering`, `MirOptimizer` | `mir.cpp`, `mir_stmt.cpp`, `mir_expr.cpp`; `mir_optimizer.cpp` | operators with the source's names, from trees to blocks and from blocks to blocks |
| `SourceMeaning` | the language as `docs/LANGUAGE_SPEC.md` has it: the reference | an interpreter of the trees |
| `Lexer`, `Parser` | layout in `lexer.cpp`; items, suites, statements, fields, recovery in `parser.cpp` | the tokens and the position; one action per turn of a parser loop |
| `Formatter` | `format_file` of `uinx.cpp` | operators on lines: the stack of widths (`Kept`, `Opened`), one line, the loop as a recursive function; what formatting promises (`Settles`, `KeepsSteps`) |
| `Packages` | build, fetch, edits of manifests in `uinx.cpp` | the recursion of the walk, one dependency per step; a frame keeps the directory and the names it has still to come to |
| `MCSync`, `MCRuntime`, `MCBorrow`, `MCMir`, `MCSend`, `MCParser`, `MCToolchain`, `SendPrograms`, `Layouts` | the instances TLC checks | - |
| `LockProofs`, `SeqLockProofs`, `SyncProofs`, `RuntimeProofs`, `CollectionProofs`, `FutureProofs`, `SmpProofs`, `PackageProofs` | theorems about `TicketSpinLock`, `SpinLock` and `RwSpinLock`; `SeqLock`; `Once` and `Barrier`; `Arc` and `Utf8`; `Vec` and `HashMap`; `Futures`; `SmpContexts`; `Packages` and `Formatter` | section 4 |

The MC modules `MCSync`, `MCRuntime` and `MCToolchain` extend several components
at once, and the definitions the runs check are the ones the proofs are about.  So
that they can be extended together, the components name their variables and
specifications apart (`SpinInit`, `rwState`, `MapSpec`, `futureVars`), and the
primitives that share the set `Threads` take it from `SyncThreads`.  Only the
parts of the toolchain with recursive operators come into `MCToolchain` as
instances.

### 2.1 The borrow checker

The checker is a pure function of a typed function body, so `BorrowChecker`
gives it as an operator with the names of the source; recursion over the tree is
the source's.  What it is for is stated by a different model: `SafeRefs` picks a
function body, runs the checker on it, and executes it whatever the verdict.  A
reference value is a tag: the place it refers to, whether it is mutable, the tags
it was reborrowed from, and whether it is still good.  A write to or a move of a
place spoils every other tag of a place that overlaps it, a read spoils the
mutable ones, and leaving a scope or awaiting spoils the tags that may not cross
it.  `NoStaleReference` says that no execution of an accepted function uses a
spoiled tag, `NoUseAfterMove` that none reads a moved place, `Converges` that no
loop needs more than `MaxIterations` passes (the code gives up with `E0408`
after its own, larger bound).  Branch and loop conditions are nondeterministic;
`Fuel` bounds the iterations of a run.

`MCBorrow` builds the functions: shapes (straight line, branch, early return,
`while`, `for` with `continue`, `loop` with `break`, loops within loops, inner
scope, await, return)
whose holes are filled with every well-typed statement over two owners with
fields, two shared or mutable references and, in one family, structures of
references.  That is 155,894 functions, two free statements and one use each:
enough for every pair of kill, bind, move, reborrow and write to meet under
every shape.  The operators were also compared with the compiler itself: each
function was printed as Uinx source, compiled, and the error code compared with
the model's; there was no difference.

### 2.2 `core::sync` and the runtime

Every action is one atomic access, in sequentially consistent order, except in
`SeqLock`, whose memory orders are the point: there `ordered` (chosen once per
behaviour) says whether the target keeps plain accesses in order, and when it
does not, a store surfaces, and a load is made, anywhere the fences of the code
allow.  `MCSync` and `MCRuntime` put several components in one run: a behaviour
picks the component it uses, and the others keep their initial state.

`Futures` models what is generated for an async function that awaits a sequence
of futures, some of them async functions themselves, one the leaf of
`uinx_yield_once`, one of other code whose poll may fail.  A poll is a stack of
activations, each at a block of the generated function; the owner may block on
the root, poll it by hand any number of times up to a bound, and drop it whenever
it is not being polled.  Two words of state disagree for a moment in the
generated code (the await an activation is at, and the state word of its frame),
and the properties are about what a failure or a drop at such a moment does.  The
history variables `waited` (which futures ever answered pending) and `orphans` (which
children failed when first polled) only say what is claimed of leaks.

### 2.3 The compiler's middle: SMP, Send, MIR

`SmpContexts` takes a program as a call graph, the declared functions and what
each body touches; the worklist is a sequence popped at its end and refilled in
any order, since the containers of the source are unordered.  After acceptance
the program runs: each CPU is in a function or in none.

`SendSync` follows one value: it is made by struct literals, handed to a generic
function, and that function is declared concurrent.  The verdict is compared
with the traits as the greatest fixed point of their rules, in both directions:
nothing that is not Send crosses (`OnlySendCrosses`), nothing that is Send by its
fields is refused (`SendIsStructural`).

For MIR the reference is `SourceMeaning`, an interpreter of the tree, and the
observable behaviour is the sequence of calls, atomic accesses with their
ordering, fences and destructions, and the returned value, with every read of an
undefined temporary visible.  `MCMir` takes a function through lowering and the
passes of its optimization level, and compares after each (`SameBehaviour`);
`ValidCode` is what LLVM asks of the text: one terminator per block, at its end,
targets that exist, operands of the type that is printed for them.  Widths of 2,
4 and 6 bits stand for 8, 32 and 64, so that every overflow and every cast
happens within the literals.

### 2.4 Text and packages

A line is its indentation and the kinds of its tokens.  What a source should be
is read off the indentation alone, in the second part of `Parser`: it is laid out
when a header, and nothing else, is followed by deeper lines, the lines of a block
start at one width and are what the block may hold, and an `else` follows an `if`
of its own width.  `ParsingEnds` says that such a source is parsed to its end
without an error, and that the parser comes to the end of every other one too,
through its error recovery, unless it is `Stuck`: at a Dedent between items, where
`synchronize_item` stops without consuming it (`parser.cpp` 127), or in a struct at
a token that is no part of a field (433-451), where neither `expect` nor
`finish_line` moves.  At these two places the code does not end, and the property
says that there is no third.  Most of the sources checked are not laid out.
`ParsedAsLaidOut` says that no source that is not laid out is parsed without an
error, and that each line ends up in the construct it is indented under.
`FormatPreserves` says that formatting is idempotent (`Settles`), that it changes
widths only and that a line is deeper than the line of text before it, by one level,
exactly when it was (`KeepsSteps`), and that an accepted source becomes the same
tokens unless one of its comments or continuation lines is indented less than the
code before and after it
(`FormatKeepsTree`, in `MCParser`, which has the lexer next to the formatter).

`Packages` walks manifests as `collect_dependency_sources` and `fetch` do.  A
manifest's dependencies are a `std::unordered_map` (`uinx.cpp` 37), so the walk takes
those that are left in any order.  The header of the entry source, a missing entry
source, a lock file that cannot be opened, unreadable manifests and edits between
commands are in.

## 3. Runs and bounds

| Run | Expect | Shows |
|---|---|---|
| `Sync` | pass | `MCSync`: three threads (two readers and two writers for the reader-writer lock), five tickets, three epochs, three rounds of the barrier. Exclusion and order need three parties at most (a holder, a waiter, a passer-by); a third round is the first in which a late thread of round one could meet a fast one. |
| `RwSpinLockReaders` | violation | two readers and a writer: an update is lost between the load and the store of `read_unlock` |
| `SeqLock` | pass | one writer of two critical sections, two words of data, two readers that retry, both kinds of target |
| `SeqLockWeak` | violation | a torn copy is accepted when only a compiler fence orders the data accesses |
| `Runtime` | pass | seven handles; five keys in a table of four slots that grows to eight, with runs of colliding keys and tombstones; a `size_t` of five bits; all boundary code points and all strings of up to four boundary bytes |
| `Borrow` | pass | section 2.1 |
| `BorrowSelves` | violation | `r = r` and `r = keep(r)` lose the loans of `r` |
| `Toolchain` | pass | `MCToolchain`, one part per behaviour, as below |
| `MirForward` | violation | `for i in 0..n` after `let n = 5`: the load of `n` is forwarded and removed in its block, its use in the next one is left undefined |
| `MirDrops` | violation | no destruction is emitted for a local whose type implements `Drop` |
| `SendCapture` | violation | the bound of a structure's parameter is taken for that of the function's parameter of the same name |
| `BlockComments` | violation | `LaidOutIsParsed`, the part of `ParsingEnds` about laid-out sources: a line with only a block comment closes blocks, and at the top level the parser's recovery does not end |

`Toolchain` has
- five functions, one an extern and two that take what is not Send, in 128 call
  graphs with self-calls, cycles and joins, three sets of declared functions,
  eight kinds of access and two CPUs: two suffice for a race;
- an outer future that awaits an inner one and a foreign one, the inner one two
  leaves with a foreign one between; a foreign future is pending once at most,
  an owner polls by hand three times at most: every await is suspended at and
  resumed, fails, and is dropped, at both depths;
- fifteen functions, each with four values of a literal, five inputs, three
  optimization levels and two SMP modes, cut after eight events: between them
  they have every statement and every operator, on constants and on values, at
  each width and on atomic places, every kind of place, and the built-ins
  `println` and `int`; the literal makes conditions constant, loops empty, sums
  overflow and shifts negative or too far (such a shift has no value, and the
  functions do not use it).  Left out are `bool(x)`, values with a destructor
  (run `MirDrops`) and the other inputs of section 5;
- the programs of `SendPrograms`: plain, generic, recursive and mutually
  recursive structures, references and raw pointers, with and without an
  `unsafe send` marker, and functions generic in any of them;
- all sources of three lines of items and fields at widths 0 to 2, and of three
  lines of `if`, `else`, statements, brackets, comments and blanks inside an `if`
  of a function: three lines close two blocks at once and open one again;
- package trees of three directories with shared, cyclic, renamed, unresolvable
  and broken dependencies, taken in every order, three headers, a missing entry
  source or lock file, with builds, fetches and edits in any order.

Deadlock is not checked in runs whose behaviours end: tickets, epochs and rounds
are bounded, functions return, sources and strings are read to their end,
commands finish.  In the lock modules the waiting loops are steps that wait for
the word to change, so that a lost wake-up would show as a liveness violation
and not as a deadlock.

Fairness.  `lock`, `wait` and the other loops of `sync.ux` poll for ever, and a
CPU keeps executing: weak fairness of every step of an operation that was
begun, none of beginning one, none of the client leaving `try_lock` alone.
Holders are assumed to unlock (weak fairness of unlock), without which no lock
is live.  The ticket lock is free of starvation under this; the plain spin lock
and the reader-writer lock are not, and only `NeverWedged` (some thread that
asks gets in) and `WritersNotWedged` (a waiting writer finds the lock in use
again, unless a `read_unlock` lost an update) are claimed of them.  The analysis, the
parser, a command and the executor are one thread each that nothing stops, so
weak fairness of their next step is what running them means; a foreign future is
pending a bounded number of times, without which `uinx_block_on` promises
nothing.

The functions, programs and sources of the findings, and those of the
divergences of section 5, are left out of the passing runs: no statement of
`Borrow` assigns a reference to itself, takes a reference to a structure of
references, awaits inside an argument list, or passes a reborrow beside a
reserved argument; no function of `Toolchain` has a `Drop` value or a range whose
bound is a local known to be constant; no structure there bounds a parameter
that shares its name with an unbounded one; no source has a block comment on a
line of its own.  Everything else about the same constructs is in.

## 4. Proofs

`LockProofs` proves of `TicketSpinLock`, for every set of threads and every
bound on tickets:

- `TicketInvariant`: `TicketInv` always holds;
- `TicketMutualExclusion`: at most one thread is between admission and the
  store that ends `unlock`;
- `TicketFifo`: no step admits a thread past one with an earlier ticket;
- `TicketImplementsMutex`: the ticket lock refines `Mutex`.

Exclusion alone is not inductive: nothing in it says that two waiters hold
different tickets, or that the copy `unlock` loaded is still current.
`TicketInv` adds what the code relies on: the tickets in use are pairwise
different and lie between `serving` and `next`; whoever is inside holds the
ticket being served; the copy of `serving` an `unlock` made equals `serving`,
because only the holder stores it; the copies of `try_lock` are never ahead.

The same module proves that `SpinLock` refines `Mutex`
(`SpinLockImplementsMutex`), for every set of threads and every period of the
spin counter; the invariant is that the word is 0 exactly when nobody is inside
and that never two are.

And it proves that `RwSpinLock` refines `RwLock` (`RwLockImplemented`), for every
finite set of readers and every set of writers (`RwAssumption`), **up to the first
lost update**: a `read_unlock` that stores its copy minus one over a word that
another reader changed after the load.  `RwSpinLockReaders` shows that this happens
with two readers and lets a writer in beside one.  The invariant `RwInv` says that
until then the word is the number of readers inside, or the flag and one writer.
So a compare-exchange that succeeds from a copy below the flag meets no writer, one
from 0 meets nobody, a store over an unchanged word takes exactly one reader away,
even if others came and went in between, and no bound on the readers is needed:
the flag itself refuses the reader that would be one too many.

`SeqLockProofs` proves of `SeqLock`, for every set of readers, every set of
words and every number of critical sections:

- `SeqLockInvariant`: `SeqInv` always holds;
- `SeqLockNoTornRead`: on an ordered target `read_retry()` accepts only a copy
  of one critical section;
- `SeqLockNeverStale`: on every target an accepted copy is no older than the
  stamp of its `read_begin()`.

A torn copy is ruled out by history, which the invariant has to carry: the
parity of the sequence word says whether a section is open and which value each
word holds (`WriterInv`); stamps are even and lie in the past, so what is loaded
after one is at least as new (`ReaderInv`); and on an ordered target the words
loaded so far are the stamp's section as long as the sequence word, or the copy
`read_retry()` made of it, equals the stamp (`OrderedInv`).  The last part fails
on the weak targets, which is the finding of `SeqLockWeak`.

`SyncProofs` proves `OnceOneTime`, for every set of threads: the value is of this
epoch from the initializer's write on, and a fresh flag means that nobody is
inside; and `BarrierRoundByRound`, for every finite set of threads and any number
of rounds.  `BarrierInv` says where every thread is: in the round of the present
generation, except for pollers of the round before that have not yet seen it end;
and `arrived` is the number of those counted into this round, until the leader
resets it.  That the counter reaches `total` only when everybody is parked is then
a fact about cardinalities, and a leader's reset cannot lose a fast thread of the
next round because such a thread is let in by `generation` only.

`RuntimeProofs` proves of `Arc`, for every finite set of handles:

- `ArcInvariant`: `ArcInv` always holds;
- `ArcNoUseAfterFree`: while a handle is held both blocks are live, and no block
  is freed twice;
- `ArcNoLeak`: with no handle left and no call in progress both blocks have been
  given back.

What has to be added to them is the count, `refs` being the number of handles
held, and that a creation or destruction in progress is the only thing going on:
only so is the thread that took the counter from 1 the one that may free.

The same module proves `TextDecodesExactly` of `Utf8`, for strings of every length
over all bytes and for every code point: what `uinx_utf8_next` reads is byte for
byte what `uinx_utf8_encode` writes for the value (`NextReads`), every well-formed
sequence of the standard's table is read (`WellFormedIsRead`), and what was encoded
is read as one code point, the same (`RoundTrip`).  The three rest on arithmetic
in base 64, one lemma per length (`OneByte` to `FourBytes`).  The invariant
`TextInv` carries them along the loop of `uinx_utf8_validate`: the code points read
so far encode to the bytes before the offset, and a string that was encoded is
either unread or read to its end.

`CollectionProofs` proves of `Vec`, for every width of `size_t`, element size and
initial capacity, **where blocks are not over-aligned** (`VecAssumption`):

- `VecElementsInBlock`: the elements lie in the block, and a block is freed with
  the size it has;

and of `HashMap`, for every set of keys, hash function, initial capacity and bound
(`HashAssumption`):

- `HashTableSound`: there always is an empty slot, so that every probe ends, and
  `len`, `tombs` and the key copies are what they count;
- `HashImplementsMap`: every call, with resizing and failed allocations, is a step
  of `KeyValueMap`.

For the vector the invariant is that the product of capacity and element size is
the block's size and does not exceed `SizeMax`; the doubling loop of
`uinx_vec_reserve` is a recursive function in `NewCap`, shown to end in a capacity
that is enough and that `size_t` holds.  With over-aligned blocks the
theorem is false (section 5).  For the table, `HashInv` says of the slots what a
probe needs: between the slot a key hashes to and the slot that holds it, in
cyclic order, no slot is empty (`Probed`); a key is in one slot (`OneSlot`); and
`len + tombs < cap`.  The first is why `remove` leaves a tombstone and why `put`
may reuse one only after it has searched on for the key; the third is why growth
counts tombstones.  A resize keeps this along the loop over the old slots: after
`i` slots the new table is sound and holds exactly the entries of the first `i`.

`FutureProofs` proves of `Futures`, for all bodies of async functions over one
another and over foreign futures, recursive ones included, and any bounds on polls
(`FutureAssumption`: what is awaited is a function that is given):

- `FuturesFramesHeld`: no poll or drop is active on a frame that was given back,
  and at rest a suspended frame holds a child that is there and is not finished;
- `FuturesRunOnce`: resumption neither repeats nor skips a call of a body;
- `FuturesNoFrameLeaks`: after the root was dropped, the only frames left are
  children whose very first poll failed (section 5): a child that ever answered
  pending is given back wherever it or a later one fails.

The state word of a frame is behind its activation while it runs, so none of them
is inductive.  `FutureInv` says: the children made form a tree (`TreeInv`); the
stack of polls is a path in it, each activation at the await its frame has reached
(`StackInv`); what the last poll returned fits the state of the child that returned
it (`AnswerInv`); the stack of drops is a path of suspended frames, from the root or
from the child that has just answered, whose lower end is gone before its parent is
freed (`DropsInv`); of a frame that is not running, a state word that names an await
means a child that is there and not finished, and a state word of 0, unless a poll
has just failed, a body that was not begun (`RestInv`); and every live frame is owned by the client, by a frame
that awaits it or by the drop under way, or is a child whose first poll failed
(`OwnedInv`).  Which of the failed children those are is read off the past:
`WaitInv` says that a frame which never answered pending has no await in its state
word, and that a frame whose awaited child has answered pending does, although the
word is 0 again after every finished await.

`SmpProofs` proves of `SmpContexts`, for every finite set of functions, every
call graph, every set of globals and any number of CPUs:

- `SmpPropagatesToAll`: when the worklist is empty, exactly the functions
  reachable from the declared ones are concurrent;
- `SmpNoPlainRace`: in an accepted program no two CPUs are at uses of the same
  storage one of which is plain;
- `SmpOnlySendIsTaken`: in an accepted program no CPU is in a function with a
  body that takes what is not Send, however it got there.

Reachable is the least set that holds the declared functions and is closed under
calls.  That what is marked is reachable holds at every step; that what is
reachable is marked needs what the worklist stands for: every callee of a visited
function was visited or is still queued, and so is every declared one.  With the
worklist empty the visited set is closed, hence contains the least one.  The other
two theorems add what the checks leave behind, and that a CPU which calls on stays
among the concurrent functions because they are closed under calls: the race
theorem would fail if the checks looked at declared functions only.

`PackageProofs` proves of `Packages`, for every set of manifests over any
directories and names, in whatever order they are taken (`PackageAssumption`), edits between commands included:

- `PackagesBuildEachOnce`: a build that succeeds collects exactly the packages that
  can be reached through the dependencies it takes, each once;
- `PackagesLockNamesBuild`: a lock of the same manifests names all of them.

`PackageInv` says of a walk in progress: what was collected is what was noted, and
every dependency of it was taken or is still to come in some frame of the recursion
(`Collecting`, `Writing`).  When the recursion has unwound nothing is to come, so the
collected set is closed, and contains the least closed one; that fetch takes more
dependencies than a build (it does not look at the entry source's header) and skips
paths that do not resolve makes the lock's set closed under a larger relation.

It also proves of `Formatter`, for files of any number of lines, widths and kinds:

- `FormatterSettles`: formatting a formatted file changes nothing, so
  `uinx fmt --check` accepts what `uinx fmt` wrote;
- `FormatterKeepsSteps`: only widths change, and a line opens a level, stays at the
  level of the line of text before it, or opens none, as it did before.

Both rest on what the stack of widths is after a line of text: the entries that were
not deeper than the line, and the line's width at its end (`OpenedIs`).  For the first,
a second run of the loop beside the first one has, after every line, the stack
0, 4, 8, ... of the same length (`EvenOpened`: such a stack opened at a multiple of
four that is at most one level deeper is such a stack again).

The assumptions are the named ones of the modules, and the runs evaluate them on
their instances: `HandlesAssumption` (the handles are finitely many, so they can be
counted), `SeqLockAssumption` (the number of sections is a natural number),
`RwAssumption` (finitely many readers, none of whom writes), `SmpAssumption` (finitely many functions, call graphs are over them, externs have
no body), `FieldAssumption` (only structures have fields), `Utf8Assumption` (code
points are natural numbers, bytes are bytes), and `VecAssumption`, `HashAssumption`,
`FutureAssumption` and `PackageAssumption` as above; `LockProofs` and `SyncProofs`
state theirs in the theorems.  In each module every action is shown to preserve the
invariant, one lemma per action where the module is large; the other theorems follow
from it, and the temporal step is propositional.

Loops.  What `NewCap` and `map_resize` compute, and that a probe meets the first
slot it stops at, needs induction over natural numbers, and a property cannot be
handed to the library's induction theorems here.  `CollectionProofs` does it with
sets instead: a set of naturals that holds 0 and with each number the next one holds
them all (`SetInduction`), and a nonempty one has a least element (`Least`); both
follow from the well-foundedness of the order.  The walks of `SmpProofs` and
`PackageProofs` over graphs need none, since reachable is the least closed set;
`PackageProofs` uses both facts for the loop of `format_file`, whose recursive
function is first shown to exist (`Loops`).

The inductive invariants were checked with TLC on the instances of the runs before
they were proved; among the runs' properties are only those that follow from them.

Only model-checked: liveness and `ENABLED`, out of reach of the prover;
what the lexer and the parser make of a layout, `FormatKeepsTree` included, since the
parser's operators are recursive over expressions and blocks; and everything about the borrow checker, MIR and the trait solver, whose operators are
recursive over trees.  The abstraction of an unbounded ticket stands for 64-bit
counters that do not wrap in a run of any realistic length.

## 5. Known divergences outside the runs

Seven disagreements between the code and its documents have a run of their own
(section 3; `PROJECT.json`, findings).  The following were met while modelling;
the models follow the code, and the inputs that reach them are not among the
instances.

Borrow checker:
- a reference to a structure of references does not keep the structure's loans
  alive (`borrow_places.cpp` 54; `docs/MEMORY_MODEL.md` 57);
- a borrowed argument is held across the await of a later argument
  (`borrow_flow.cpp` 241), and a reborrowed argument beside a reserved one is not
  looked at (213-215);
- a loan in one field lives as long as its sibling, so a safe function is rejected
  (`borrow_liveness.cpp` 286).

Send and MIR:
- `unsafe send Box[T] where T: Send` never applies, and the markers of fields are
  not consulted (`docs/LANGUAGE_SPEC.md` 246-248, `docs/MEMORY_MODEL.md` 96); a
  generic function that calls another with the same parameter name confuses the
  two;
- a function that is not concurrent may touch plainly what concurrent ones touch
  atomically;
- arguments of methods are not coerced, `bool(i64)` compares in `i1`, the slot of a
  shadowed name is not restored, an inclusive `for` to the largest value of its
  type does not end; constants are folded in 64 bits (`mir_optimizer.cpp` 141), so a
  result that does not fit its type is compared, divided or shifted right as if it
  did (`!0 >> 1` of a `u8` is not 127 above level 0).

Front end and tools:
- the parser also does not end when a struct field or trait method starts with an
  unexpected token (`parser.cpp` 433; the second place of `Stuck`, 2.4); `x as T + 1` does not parse;
- `uinx fmt` re-indents the code after a comment or a bracket's continuation that
  is indented less than its surroundings (`docs/TOOLING.md` 82; the condition
  `InPlace` of `FormatKeepsTree`);
- fetch names the root twice in a cycle, truncates `uinx.lock` before it resolves,
  so that a failure leaves half of one, and skips unresolvable paths that a build
  refuses.

Runtime:
- `uinx_string_from_char` clears its buffer when the encoding succeeded
  (`runtime.c` 256), and the fifth conversion overwrites the buffer of the first
  (231); no document states how long such a string lives;
- `default_realloc` frees an over-aligned block although it could not allocate the
  new one, and `uinx_vec_reserve` keeps the old pointer (`runtime.c` 56; `Vec` with
  `OverAligned = TRUE`);
- `put` and `remove` of one key in turn leave tombstones that double a nearly empty
  table (`collections.c` 190); it stays correct;
- an awaited child whose very first poll fails is not given back when the parent is
  dropped, at whichever await that is, and however often the parent was suspended at
  earlier ones: its number was never stored in the state word (`codegen_async.cpp`
  457), which is 0 after every finished await (471), and `.error` (465) does not drop
  it.  These are the `orphans` that `NoFrameLeaks` leaves out; `docs/ARCHITECTURE.md`
  58 promises only that pending children are kept;
- an update that `read_unlock` loses (`sync.ux` 88) also leaves a count behind that
  nobody takes back, or takes one too many: then `write_lock` spins on an empty lock.

## 6. Not modelled

- Memory order outside `SeqLock`: the acquire and release orders the other
  primitives use are taken to give sequential consistency of the words they
  order.
- In the borrow checker: globals, raw pointers, inline assembly, casts, generics;
  indexed places are in `BorrowState` but no function of the runs uses one.
- In semantic analysis: name resolution and the types of expressions, a sequential
  walk that computes what the other modules take as given.  In MIR: generic
  specialization, floats, characters and strings, inline assembly.  In the parser:
  the grammar below statements, braces, and the items other than functions and
  structures.
- The editor client: what overlapping starts of the language server or late
  fallback diagnostics do (`extension.ts` 132, 281) depends on the editor's
  scheduling, which is not in the repository, and no document says what they may
  show.  The language server itself answers one message at a time.
- The OS layer of the runtime, the driver, manifests as text, documentation and
  kernel images: single library calls, text and processes.

## 7. Plan

A theorem to come: `FormatKeepsTree`, from `FormatterKeepsSteps` and lemmas about
`lex`, stated over the lexer without the parser.  Then larger functions in `Borrow`
(indexed places and globals) and the atomic intrinsics of `codegen_function.cpp`.
