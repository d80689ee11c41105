# A verification project for Cython

TLA+ models of the parts of Cython whose correctness depends on interleavings,
on the order of calls or on fixed points, the TLC runs that check them, and
theorems about them whose proofs TLAPS checks. Every definition that stands for
code is translated from the source; `PROJECT.json` ("map") names the lines. The models are of the parts with a
protocol or a fixed point; they stand for a small share of the code, most of which
translates trees and text in sequence (section 7 says what is left out and why).

To check one run: `tlc -config msl.cfg MCModuleStateLookup.tla`. To check the
proofs: `tlapm ModuleStateLookupProofs.tla`, and likewise for every `*Proofs`
module and `BasicTheorems`.

Contents: 1 inventory; 2 the models; 3 the runs; 4 the theorems; 5 assumptions
and limits; 6 disagreements with the documentation; 7 not modelled; 8 plan.

## 1. Inventory

Cython is a compiler (Python and Cython source to C), a build front end, and a
library of C and Cython fragments that is copied into every generated module
and runs in the user's process. Almost all state that outlives a call, and all
concurrency, is in the last two; in the compiler it is two analyses and the state
of the function that is being generated that have a protocol of their own.

| component | state | operations | what is hard | what makes it correct |
|---|---|---|---|---|
| Module-state lookup, `Utility/ModuleSetupCode.c` 2636-3075 | one table (interpreter id to module), its pointer, a reader counter, a mutex | FindModule (lock-free), AddModule, RemoveModule | readers run while the table is converted, moved, shifted and freed | a lookup finds its interpreter's module or none; no reader sees a block that changes or is gone; writers finish |
| Typed memoryviews, `Utility/MemoryView_C.c`, `MemoryView.pyx` | per object: acquisition count, reference count, lock; a pool of locks | slices acquire, copy, clear, with and without the GIL | count and reference are changed in two steps | object alive while a slice is used, freed after the last; no lock shared or lost |
| Traceback code object cache, `Utility/ModuleSetupCode.c` 1650-1905 | sorted table, signed accessor counter | find, insert, clear | nobody may wait; an insertion shifts what others read | no torn read; references exact; a thread always gets its traceback |
| Generators and coroutines, `Utility/Coroutine.c` | resume label, `is_running`, delegate, exception stack | send, next, throw, close; `yield from`, `await` | user code calls anything from anywhere, delegates are driven behind the outer generator's back | one body at a time, stable delegate, PEP 380 and 479 |
| cythonize() dependency tree, `Build/Dependencies.py` | two caches, stack and loop of the recursion | all_dependencies, distutils_info | cyclic cimports, failures in the middle, cached objects that are changed | results exact whatever was asked before |
| Control flow analysis, `Compiler/FlowControl.py` | a flow graph, bit sets per block | the visitor, normalize, initialize, sweeps, check_definitions | exceptions and jumps through finally clauses; sweeps in set order | every binding a read can find is foreseen; the sweeps end |
| noexcept inference, `Compiler/NoexceptInference.py`, `Main.py` compile_multiple | memo of the bodies, marks on types, facts of the modules of a batch | body_cannot_raise, the two tiers, export and use of facts | recursion that must not trust itself; overrides; facts collected by an earlier run | no function that can raise is called without its check |
| Compiler cache, `Build/Cache.py` and cythonize() driver, `Build/Dependencies.py`, `Main.py` run_pipeline | a directory of results and temporary files; C files and their times | plan, lookup, load, compile, store, cleanup | several processes share it; failures, kills, eviction; times versus contents | a build that succeeds leaves C files of the files as they are |
| Asynchronous generators, `Utility/AsyncGen.c` | state of asend and athrow objects, `ag_running_async`, `ag_closed` | anext, asend, athrow, aclose and their send, throw, close | objects awaited in part, cancelled, dropped, awaited again | one task at a time; the flag comes back; aclose() ends the body |
| Temporaries and function state of the code generator, `Compiler/Code.py` FunctionState, and the statements of `Compiler/Nodes.py` that use it | temporaries and their free lists, the current label for each way out, the labels used, the exception's variables | allocate and release, new and old labels, interceptors, the code of for, try, finally, return, break, continue, raise | clean-up code is written for what may come: every statement assumes what all ways into a label have left in the temporaries | what generated code takes for a reference is one; nothing is released twice or left; every jump meets its interceptor |
| Parallel loops, `Compiler/Nodes.py` ParallelStatNode | `__pyx_parallel_why`, the exception that is kept, the GIL | break, continue, return, raise in prange and parallel blocks | several threads leave at once | no exception is lost or doubled; the caller raises if a thread did; who has left begins no body; the region ends |
| The rest of the compiler: scanner, parser, symbol tables, types, transforms, code generation | trees | a fixed sequence of passes | size | sequential translation of trees and text; not modelled |
| The rest of the run-time library: calls, arguments, numbers, strings, exceptions, C++ | none of its own | thin layers over the C API | | sequential, judged by comparison with CPython; not modelled |
| Tools: pyximport, inline, IPython magic, debugger, coverage, refnanny, Shadow, CodeWriter | files, processes | | I/O | not modelled |

`PROJECT.json` lists every part with its files, its status and the reason when
it is left out, and under "hazards" what in this code is hard to test, at its line.

How the components interact. The compiler's control flow analysis decides which
tests for unbound variables the generated code contains; the generated code
calls the run-time components: module creation and clean-up call AddModule and
RemoveModule, every function of a module in a multi-interpreter build calls
FindModule, functions with memoryview arguments and locals count slices,
generator bodies return into `Coroutine.c`, and every propagated exception
passes through `__Pyx_AddTraceback` and the code object cache. The dependency
tree feeds cythonize(), which decides what to compile and with which settings, and
the fingerprints of the compiler cache. The facts of the noexcept inference pass from one
module of a batch to another. Asynchronous generators drive the generators of
`Coroutine.c`. All generated code keeps its references in the temporaries and leaves its
statements by the labels of FunctionState; the generator saves its own across a yield. The code generated for a prange keeps exceptions that pass through
`__Pyx_AddTraceback`.
At run time the components share no state with each other, with one exception:
a memoryview object takes its lock from the pool when it is created and returns
it when its last reference goes, which the module `Memview` composes.

## 2. The models

### Module-state lookup
`LookupTable` has the table algorithms as operators on a table value: an array
indexed by interpreter id while ids are small, a sorted array found by
bisection after that, conversion from one to the other, realloc with cells of
unknown content. `ModuleStateLookup` has the protocol, one action per shared
access, with the pc named after the step of the C function: `FindLoad`,
`FindIncr`, `FindCheck` (the lock-free path), `FindUndo` ... `FindUnlock` (the
path through the mutex), `WriterLock`, `WriterSwap`, `WaitUntilNoReaders`,
`AddMutate`/`RemoveMutate`, `WriterPublish`, `WriterReturn`. `heap` maps
addresses to blocks, so that a moved or freed block is visible as such.
`ModuleStateMap` is the abstract specification: a map, every call atomic between
its invocation and its response. The refinement mapping ends `ModuleStateLookup`:
`RegisteredMap` reads the map off the table, `Phases` the progress of calls off
the pcs. An interpreter registers once and removes what it registered, which is
what the generated module code does.

### Typed memoryviews
`MemviewAcquisition` follows one memoryview object: `Slice` variables count
themselves in `acquisitionCount`, `Holder`s own Python references. Acquisition
and release are two actions each (the atomic count, then the reference), because
other threads run in between. `MemviewLockPool` is the array of preallocated
locks with its swap on return. `Memview` composes the two: creation takes a
lock, deallocation returns it, other objects use the pool at the same time. Every step of
`Memview` is a step of `MemviewAcquisition` or leaves its variables alone, and
likewise for the pool.

### Code object cache
`CodeObjectCache` has the steps of `__Pyx_AddTraceback`: announce, read, retire,
create, try to insert, write, release. `entries` is the sorted table, `Bisect`
and `Halve` the search of the C code, `refs` the references of every code object,
`accessorCount` counts readers up from 0 and, while a writer is in, from `MIN`.

### Generators
`Generator` has, per thread, a stack of activations: calls of send, throw and
close in their stages, and bodies. A body is user code: it may call any method of
any generator, start `yield from`, yield, return or raise at any time.
`UseAmSend`, `GeneratorStop` (the directive `generator_stop`) and `Gil` choose the
build. `GeneratorProperties` has what is promised.

### Dependency tree
`DependencyTree` has the recursion of `transitive_merge_helper` as a stack of
nodes: one action per iteration of the loop over a file's cimports, `Leave` for
the return with its decision to cache, `VisitFails` for a file that cannot be
read. Merged data is represented by the set of files and Extensions it came
from. `Deps` merges by building new sets, `Info` by changing the first object.
`AnswerInfo` is what `create_extension_list` does with the answer: it merges the Extension's
own settings and puts the headers that can be found in place of those declared, in the
dict the caches share. One such header is followed (`ExternHeader`): a file declares it
(`declarer`), and the include_dirs of a file or of one Extension find it (`finder`).

### Control flow analysis
`ReachingDefinitions` has the equations and the sweeps over an arbitrary flow
graph, and a program that walks through it with one definition. `Statements` is
the reference: what Python does with a body of nested statements, as the ways it
can end and the bindings its reads find, every expression being able to raise. It also
marks what an execution carries along one of four ways that the visitor is known to have
no edge for (`Marked`), until the variable is bound again.
`FlowControl` is the visitor: statements to graph, `normalize()`,
`initialize()`, and the states read off afterwards; it extends the other two and
compares them.

### noexcept inference
`NoexceptInference` has the recursive visitor as a stack of bodies with its memo
("busy" is the sentinel for cycles), the passes over a module that mark function
types (`Consider`, `Mark`) and single calls (`PatchSite`), and the two phases of
`compile_multiple` in which the facts of a module are collected (`FinishModule`) and
used (`Load`). A body is the sequence of constructs the visitor meets, in three
classes: those that need no check, those with an error exit, and calls, each with the
way it is dispatched. `CanRaise` is what an execution can do.

### Compiler cache and driver
`Build` has processes that run cythonize() on trees of their own and may share a
cache: `Plan` compares times, the tasks go through `Lookup`, `Load`, `Compile`,
`OpenTmp` (which truncates), `WriteTmp`, `Rename` in any order, then `Finish` and
`Unlink`/`EndCleanup`. Between builds files are edited, back to an earlier text too.
`Kill` may come at any step. A C file is described by what was compiled into it, an
entry by its fingerprint, its content and who is still writing it.

### Asynchronous generators
`AsyncGen` has the generator's three flags and, for every awaitable object, its kind,
its state (INIT, ITER, CLOSED) and what the task that awaits it was told. One action per
method: `ASendSend`, `ASendThrow`, `AThrowSend` with its first and later calls,
`AThrowThrow`, `Close`, `New` with the hooks, `Free`. `Outcomes` is what the generator
below may answer: awaits again, yields, returns, ends with GeneratorExit, raises.
`leaked` is a history variable: some call gave up without clearing the flag.

### Parallel loops
`ParallelLoop` has the threads of one OpenMP team in the code around the body of a
prange, of a "with parallel()" block or of a prange in such a block, whose variables
each thread has for itself (`Scope`). `BlockStart` and `Block` are the statements of a
block around its prange. Raising, taking the GIL or the mutex (`Lock`),
looking for another exception, moving one's own there and noting the way out are steps of
their own. `view` is what a thread saw last of the shared `__pyx_parallel_why`, which it
tests without a lock and flushes after each body.

### Temporaries and function state
`FunctionState` generates the code of any function from nested statements, one action
for each part of a statement (`ForBegin`, `ForElse`, `ForEnd`, `TryElse`, `ClauseBegin`,
`FinallyExcept`, ...), with `kind` and `free` for the temporaries, `labels` and `used` for the
labels, and `frames` for what the methods of the statement nodes keep in local variables. With
it goes one execution (`run`): it is at the place where code is being generated or on its
way to a label that is put further down, and what an action generates is done to it
there (`Take`, `Clear`, `XClear`, `JumpTo`, `Intercept`). Expressions may raise wherever they are
evaluated, loops may have no iteration, clauses may match or not. All ways of every
function are covered, except that the code behind the place of generation is not run
again: a later iteration of a loop finds at its head what the first has found, which is what
`HoldsWhatIsExpected` says of both. `gone` are the references that a return or a bare raise
has released on its way; `overridden` says that a finally clause, or an except clause in it,
has ended that way by another, or that a bare raise found its exception released (section 6
tells what the code does then).

### Shared
`Counting` is the cardinality of the places with a given state; `BasicTheorems`
has its laws, which the proofs about counters cite, and the existence and induction
principle of tail-recursive functions, for the proofs about searches.

## 3. The runs

Passing runs:

- **msl** (430 192 states): two threads, three interpreters with ids on both sides of
  `SMALL_SIZE`, so that the table is converted and every position of insertion and
  removal occurs; two addresses, so that realloc can move; allocation fails at will.
  Readers and writers exclude one another, the table stays well formed, registered
  interpreters are found, every call is atomic on `ModuleStateMap`, `MutexReleased`.
  The proof removes the bound on the threads.
- **memview** (346 308): four slices, three references, three more objects, two
  pooled locks and one allocated. Two slices at the count's edge and two that
  come and go meanwhile; more objects than pooled locks, so that the pool is
  exhausted.
- **coc** (926 146): two threads, three lines of both signs, a table that grows one
  entry at a time so that every insertion position and every growth occurs;
  four code objects.
- **gen** (992 625): two coroutines and a generator, two free threads, a build with
  am_send, the default of CPython: delegation chains up to the number of objects, re-entrant calls at every
  depth (a generator that runs cannot be entered twice, which bounds the stack), and
  threads that meet in one generator.
- **agen** (21 044): three awaitable objects, the least number for a task that waits, one
  that comes too early and one that has answered. Objects of anext(), asend() and aclose()
  are awaited again after they have answered; athrow() objects are not, see section 6.
- **deps** (2 917 920): every cimport graph over three files, an Extension with any
  source, every sequence of questions, a header declared and found anywhere. Three files
  hold nested, overlapping and shared cycles; a file cimports itself only where it both
  declares and finds the header (the constraint `FewSelfCimports`). The proofs of
  `DependenciesExact` and `InfoOfDependencies` remove both bounds.
- **flow** (1 306 186): 34942 bodies of up to four nested levels (an optional
  assignment, a compound statement, a reference): combinations of if, while, for,
  try-except and try-finally with assignments, references, other expressions, del,
  return, raise, break and continue, in finally clauses too; returns through three finally
  clauses, breaks and continues through two. `AnyOrder = 4`: graphs of at most four blocks
  are swept in every order, larger ones in one (the proof covers all orders). Each of the
  four exceptions that `CfStateSound` makes is needed: without its mark TLC finds
  one of these bodies (section 6).
- **noexcept** (1 704 274): 59328 programs of three functions. All graphs of calls
  among functions and methods of one module, all uses of a second module, and all pairs
  of eleven kinds of declaration with every way of calling. Three functions hold a cycle
  with a caller outside and two overlapping cycles. `NothingLost` is about programs
  without cycles: the order of the definitions costs no inference.
- **build** (1 229 971): module a cimports module b. Without a cache both are built, with
  one a alone; one process with any texts (two contents, or one that does not
  compile), or two processes that share the cache, with two contents. One more
  process or content repeats these: an entry has one fingerprint, and only entries
  with the same one meet.
- **parallel** (1 593 858): three threads, up to two iterations each and three in all, so
  that one thread leaves, one raises at the same time and one comes later; all three
  forms, any way out of a block in front of and behind its prange, builds with and without a
  GIL, callers with and without it.
- **codegen** (286 083): all functions of two temporaries, managed or not, with for,
  try-except (its clause counts as a level) and try-finally nested two deep, one
  temporary per expression, and every execution of them. Two temporaries are enough for one
  that is free and one that a statement around holds; two levels for every statement in
  every part of another. Executions are followed until they are overridden (the constraint
  `NotOverridden`). The proofs remove all bounds.

Run that ends in a violation, a disagreement described in section 6: **msl_stale**.

Every property of a passing run has a mutant: a definition of the model changed
as a plausible bug would change the code (an off-by-one in the bisection, a
counter not undone, a flag not reset, a guard dropped, an exception edge
forgotten), under which TLC finds the property violated. The mutant operators
stand before the definitions they replace and are marked as such.

Fairness. `MutexReleased` assumes that every thread keeps running (weak fairness
of each thread's next step), as the operating system's scheduler provides; nothing
is assumed about who wins the mutex. `WaitFreeT1` assumes it of one thread only:
the others may stop for ever anywhere. `AnalysisEnds` assumes that the compiler
keeps running, `RegionEnds` that the operating system runs every thread of the team and
that the bodies of a loop end; it excuses one outcome, named in it: a thread that has left
a parallel block never comes to the barrier of its prange (`Stranded`). Deadlock is checked in all runs but those whose system
ends: **flow**, **noexcept**, **parallel** and **codegen**.

## 4. The theorems

All are for any number of threads, slices, files, functions, generators, blocks or nested
statements. What
each stands on is an inductive invariant: the property says too little of the states
before the bad one to be kept by a step on its own. Four ideas recur:

- a counter is the cardinality of the places counted by it (`Counting`, with its laws
  in `BasicTheorems`), so that a step that moves one element changes both alike;
- a recursion of the code is a stack in the model, and the invariant is about every
  element of the stack and its neighbour;
- what is least or transitive (reachability, what can raise, what is proven) is defined
  by the sets closed under it, so that a proof exhibits a closed set and needs no induction;
- a search is a recursive function in the model. That it exists and that its loop
  invariant holds at the result follow from a least counterexample (`TailRecursion`,
  `LeastMeasure` in `BasicTheorems`), by the well-foundedness of the natural numbers.

Every run's invariants and action properties are stated by a theorem, except
`CfStateSound`; what is left to TLC is listed in section 5.

**ModuleStateLookupProofs.** Three layers.
The table alone: `LowerBoundSplits`, in a sorted table the bisection and scan return the
number of smaller ids, for every `SMALL_SIZE`; `FindFinds`, a lookup of what the table maps
to a module returns it, whatever the cells behind the entries hold; and lemmas which say
of every change (`IndexStoreUpdates`, `ConvertKeeps`, `OverwriteUpdates`,
`InsertUpdates`, `RemoveAtUpdates`, `IndexClearUpdates`) that the result is a table again
with one id changed. `ConvertKeeps` needs that the k-th used cell exists and is unique,
a bijection between a set of numbers and its ranks.
The protocol alone: `ProtocolInv`. The counter equals the number of announced threads; the
mutex is held exactly by the thread at an owner's pc; while a writer has taken the
table the shared pointer is NULL; once it has waited, no reader is at `f_read`; a
reader's pointer is the current block. From it `ReadersAndWritersExclude`,
`ReadersReadLiveBlocks`, `ReaderCounterExact`. The step that needs all of it is the
reader that sees a pointer again after a writer took it away and put it back: its
announcement is what the next writer waits for.
Both together: `LookupInv`. Every allocated block is a table (`Blocks`); a block
allocated by a call is still empty when this call gets to it, since a failing realloc then
publishes NULL and loses the block (`Fresh`); what is being removed is still registered,
so that the removal's lower bound, which is not tested against `count`, is an entry
(`Removing`); a reader that found no table has nothing to find (`NothingToFind`). From it
`TablesStayWellFormed`, `RegisteredAlwaysFound`, and `LookupImplementsMap`: reading a
block, the failing calloc and the mutation are the instants at which the calls take
effect on `ModuleStateMap`, and all other steps change nothing there.

**SharedObjectsProofs.** Code object cache: `AccessInv`, given that there are fewer threads than `-MIN`:
`CacheNeverTorn`. `BisectSplits`: the search of the C code, which narrows from both ends
and corrects its last position, finds the place of a line. `CacheInv`: every reference of a code
object is an entry or a thread that uses it, a thread holds a code object only at the places where
it should, and entries were made for their line. From it `TableAlwaysSorted`, `ReferencesExact`,
`CodeMadeForLine`.
Memoryviews: `AcquisitionInv`: the count is the number of counted slices, the
reference count is the holders plus one for the slices plus the releases under way minus
the acquisition under way, at most one slice is acquiring and the reference it was
given is held. From it `CountNeverFatal`, `SliceKeepsObjectAlive`, `ObjectNotLeaked`.
`PoolInv`: the array is a permutation of the preallocated locks and its used part holds exactly
the pool locks of the objects alive, with the swap on return as the step to look at:
`LocksOfTheirOwn` (no two objects share a lock), `PoolLosesNoLock`. `ImplementsAcquisition`: the composition
implements the single component, so that the three properties of the counts hold in it.

**CoroutineProofs.** Generators: `IInv` says that stacks are chains of calls
(`Linked`), that `is_running` is set exactly while one method is inside, on whatever thread
(`Running`), that a delegate in use is the one that is stored (`Delegates`), and that every
exception item is linked to the last body below it on its stack (`Items`). From it
`OneActivationRuns`, `DelegatesDoNotChange`, `ExceptionStackFollowsBodies`,
`StopIterationOfExhausted` (an action property: a bare StopIteration comes out of exhausted
generators only) and `DelegatesEndWithValue`, for all builds and whatever callers throw: a
body is resumed with a StopIteration only by a caller that throws it or, with am_send, when
its delegate was ended behind its back. The step that needs all parts is a body that is resumed behind the back of
the generator which delegates to it.
Asynchronous generators: `AGInvariant` ties the task that waits to the place of the body, the flag and
the states of its object and of the others. From it `WaitOneAtATime`, `FlagIsReleased`,
`AcloseEndsBody` and the action property `AnswersOnce`, given that objects of athrow() are
not awaited again (`OnceOnly`). The step that needs all of it is the throw into a waiting
aclose(), which leaves flag and state as they are.

**BuildProofs.** Dependency tree: `IInv` describes the recursion: the nodes on the stack
are a chain of cimports, what has been merged is reachable, a node's loop marker
is on the stack, a cached result is exact, and a partial result together with
what is reachable through unfinished nodes is everything. From it `DependencyTreeExact`.
For settings the dict of a file is one object that every walk merges into, so that nothing
like "partial" describes it: `InfoInv` says instead that a part of it has been walked over
by the call in progress, that only the header is ever taken out, and by whom; from it
`SettingsComplete`, which says what an Extension gets, at least and at most.
Compiler cache: `BuildInv` says of every module of every tree what its C file is by the stage
and the task of its process, and of the cache that a complete entry holds the code of its
fingerprint (in `Entries`, the type of the cache): `CacheHoldsCurrentCode`, `BuildsAreCurrent`,
`FailuresAloneAreDropped`, given that facts come only from files that are compared (`FactsInDeps`).
`SoleOK` is what the last one needs: a process that has the cache to itself finds what it stored.

**AnalysisProofs.** Flow analysis: `FlowInv` (while no change has been seen, the
equations hold at every block the sweep has left behind) gives `ReachingDefinitionsSound`.
`AnalysisGrows`: no visit takes a definition away. `AnalysisLeast`: what is below every
solution stays below, and at the end it is a solution, so that the result does not
depend on the order of a Python set.
noexcept inference, sound: `IInv` says that a body whose memo is "safe" makes only
calls that cannot raise, and that marks, facts and patched calls are on functions with
such bodies. When the items of a body are all known not to raise, what can raise is still
closed without that function. From it `SafeBodies` and `UncheckedCalls`, given `Lookup = FALSE`.
noexcept inference, complete: the two phases, which analyse different sets of bodies, must not disagree.
`CompleteInv` names the functions that have to be found, `Proven` (least set justified by
local calls) and `Acyclic`: the visitor could miss one only at a call of a body it is in
the middle of, and the bodies on the stack, each waiting for the next, would be a cycle
through it. From it `InferenceComplete`, `TwoPhasesAgree`, `NoCandidateLost`.

**FunctionStateProofs.** Temporaries and labels, for programs of any size and depth, in
four layers that each use the ones before, of which this module has three. `TempsInv`: one owner each, those of for
statements and except clauses are managed and the others are not, and what a handler clears for an
exception is owned by no statement around it; from it `TempsAreOwnedOnce`. `LabelsInv`: the label for
each way is one that a statement around has made, by its node and part (`JumpOf`), and what a jump to it
leaves behind owns nothing that the jump does not account for (`Crossed`). `PlaceInv`: the
execution is here, or waits for a label that has still to be put, which some jump or interceptor has
marked (`WaitsAt`, `UsedLabel`); from it `NeverLost`.

**GeneratedCodeProofs.** The last layer, `HoldsInv`, says what the execution holds: here
exactly the temporaries of the expression and of the statements around, without what is gone
(`HeldHere`); at a label those of the statements down to the one that puts it
(`HeldAt`), on an exception perhaps more, of which a handler clears all that may be there. What is gone is
under a copy of a finally clause that was made for it, except at labels for return and
error; on the way of a return every managed temporary is gone. One lemma for each action; under it the
cases are where the execution is: here, at one of the labels the action puts or intercepts, or at a label
further out (`WaitBelow`, `LeaveTop`, `EndHere`, `GoHere` state these once). From it
`HoldsExpected` and `NoLeaks`. The step that needs all four layers is the end of the copies of a finally
clause, where an exception, a return and a loop's exit cross with different references gone.
Parallel loops, `IInv`: who has an exception has it alone (`OwnedAlone`), an exception that
was raised is kept or on its way by the place of its thread (`ExceptionPlaces`), the way
out noted last is one of those taken (`Noted`), a thread that is gone has seen it where it
reads how it left (`GoneSeen`), and a late body is begun before its thread has seen the way
out (`LateUnseen`). From it `ExceptionsOwnedOnce`, `CallerLeavesAsThreadsDid`,
`OneBodyTooMany`.

## 5. Assumptions and limits

- Atomic accesses are sequentially consistent. The lookup table is coded with
  acquire and release; its reader stores the counter and then loads the pointer,
  its writer the reverse, which weaker orders could tell apart (a listed hazard).
- Changes of Python reference counts are one step.
- `MIN` stands for INT_MIN; the assumption `MIN + Cardinality(Thread) < 0` is
  what the proof needs of it.
- `BuildProofs` assumes `FactsInDeps` (facts about functions come from files whose times are
  compared, the default) and, as constants, that the states of a file other than "compiled"
  are told apart from compiled code (`SpecialAssumption`). `OnceOnly` and
  `Lookup = FALSE` are hypotheses because without them the properties are false (section 6). Other assumptions on constants are
  that null values (`NULL`, `NoGen`, `Nobody`, `NoLock`) are no threads, generators or blocks, and that
  threads are finitely many where they are counted. TLC evaluates them all.
- Only TLC covers: liveness (`MutexReleased`, `WaitFreeT1`, `AnalysisEnds`, `RegionEnds`), since
  fairness and ENABLED are beyond the prover, and `CfStateSound`, because the visitor of the
  control flow analysis and the semantics it is compared with are recursive operators, which
  the prover does not take.
- The theorems of `ReachingDefinitions` are about its own `Spec`; every step of
  `FlowControl` is one of its steps, by construction of `FlowNext`.
- In generator runs, delegates are Cython objects, and finalisation by the
  garbage collector is left out. That a coroutine is awaited by one other is promised
  under the GIL only (`AwaitedOnce`, not part of the run): in a free-threaded instance the
  test "being awaited already" and the entry into the coroutine can be separated by another
  thread.
- In the flow runs one variable is followed. Matching statements, comprehensions,
  boolean operators, with, parallel loops and closures are not in the statements.
- No file of a tree is edited while a build of that tree runs, and every build is a
  process of its own (time stamps and parsed files are cached for the life of one).
- Methods of the objects of an asynchronous generator run under the GIL, a step each; a
  free-threaded build has no atomic access to `ag_running_async`.
- OpenMP gives threads any share of the iterations. Accesses are sequentially consistent
  except the test of `__pyx_parallel_why`, which may see the value of the thread's last
  flush. Nested pranges are sequential in the C code and not modelled.
- `Lookup = FALSE`: the option `lookup_module_cpdef` is off, its default.
- `FunctionState` has `for` over an iterator, `try` with one kind of except clause (any number of
  them, each with an exception) and `finally` with copies for all ways out; not while
  loops, with, yield, parallel blocks, comprehension loops, a try whose body cannot raise, clauses that
  need no exception, or the finally of `with` and `nogil` (`handle_error_case`, terminator clauses). The
  copies of one finally clause may differ and come in any order, which allows
  more than the code does. The return value is not followed (section 6), nor temporaries that are never
  released.

## 6. Disagreements with the documentation

Shown by a run (quotation in `PROJECT.json`, "findings"):

- **msl_stale**: after the entry with the greatest id is removed from the sorted
  table, a lookup for that interpreter still returns the removed module: removal
  only shortens the table, and the lookup tests the cell behind it.

Refuted by TLC in instances that are no run of the project; each is said with the
definitions to change:

- Build, a mode with a cache and a text that does not compile: a failed compilation is
  cached as an entry without files, and the next build succeeds without a C file
  (`Main.py` 525). `SuccessIsCurrent` without its last disjunct is violated.
- DependencyTree, `ConfiguredSeparately`: two Extensions that share a source: the second
  is built with the settings of the first, which were merged into the cached object
  (`Dependencies.py` 660).
- FlowControl, `CfStateSound` without `MarkOf(r[2]) # Unforeseen`. A read is then compiled
  without its NULL test, or a valid program is rejected, in four cases: in a handler or finally
  clause after `del x` in the try block (`FlowControl.py` 914); in the third finally clause
  that a return runs (1436), the second that a break or continue runs (1452) and behind
  that; and in a handler around a try statement whose finally clause can end in return, break
  or continue, when an exception is raised in the clause or after such a jump (1374: the copy
  for exceptions is then not linked to the handler, and the other copy never is).
- Generator, with am_send (the default): if a delegate is
  exhausted or closed by a direct call, the next send to the outer generator resumes its
  body with StopIteration instead of ending `yield from` with a value
  (`SendToDelegate`, `Coroutine.c` 1018). `DelegationEndsWithValue` without its second
  disjunct is violated.
- DependencyTree, `InfoOfDependencies` without the condition of `HeaderKept` on `finder`: of
  two Extensions with one source, the second does not get in "depends" a header that
  only its own include_dirs find, because the first call took it out of the cached dict
  (`Dependencies.py` 714).
- ParallelLoop, `OneLateBody` without `form = "prange"`, and `RegionEnds` without `Stranded`: see the
  items on a prange inside a block below.
- AsyncGen, `AnsweredOnce` and `OneAtATime` with "athrow" in `Reused`: an athrow() object
  that ends after an await is not closed (`AsyncGen.c` 859), although
  the message that `tests/run/test_asyncgen.py` 1318 expects of a second await speaks of
  both aclose() and athrow().
- NoexceptInference, `SafeBodiesDoNotRaise` with `Lookup = TRUE`: a call to a module
  function that is looked up at run time is trusted (`NoexceptInference.py` 587).

- FunctionState, `HoldsWhatIsExpected` and `NothingLeaks` without `run.overridden`: see the first
  items below.

Observed while modelling:

- ways out that are overridden. A break or continue in a finally clause that overrides
  a return from a for loop in it uses the iterator that the return has released, and a second return
  releases it again (`Nodes.py` 8771; compiled code crashes; `tests/run/test_grammar.py`
  1187 has such a function and is skipped at 1160). A bare raise in a finally clause after a return in
  an except clause finds the exception's variables released (8934, 8771): SystemError, or a
  crash when the clause catches it. A bare raise in an except clause that a nested try
  catches, followed by break, releases the variables twice (10266);
- the value of a return is lost, with its reference, when the copy of the finally clause
  made for it raises or returns again (10448-10459);
- a break in an except clause that is in no loop is given a label that is not there
  (`new_loop_labels` at 10246 makes one, so the test at 8635 passes; the C code does not
  compile, `JumpNowhere`) instead of an error message;
- a return in a prange does not return (`OutcomeMatches` says so): the switch behind the loop has no case for it,
  because `ParallelRangeNode` does not hand on `return_` (`Nodes.py` 12263), unlike
  `parallelism.rst` 214;
- ways to leave `ag_running_async` set, after which the generator refuses every task: an
  aclose() that is cancelled and whose body then ends or raises, a waiting task that is
  closed, an athrow() without arguments (`AsyncGen.c` 908, 592, 840). They are the
  disjunct `leaked` of `FlagReleased`. Throwing into an object that was not begun does
  not test the flag at all (571, 908); tasks do not do that;
- `__Pyx_async_gen_athrow_throw` asks for the current exception when the body of an
  aclose() has awaited something and there is none; with fast type checks a NULL pointer is
  read (`AsyncGen.c` 930, `ModuleSetupCode.c` 1534). The model answers no;
- a value sent to an asynchronous generator that has not begun ends it;
- in a prange inside "with parallel()" the variables that note the way out are those of a
  thread: a break, return or error of one thread does not keep the others from their
  iterations, unlike `parallelism.rst` 218; a continue of one thread may hide the break or
  return that another noted in a parallel block;
- an exception, a break or a return in a parallel block before its prange: the thread skips
  the loop while the others wait at the loop's barrier (undefined in OpenMP, modelled as
  waiting for ever: `Stranded`);
- the analysis of noexcept reads the directive `cdivision_warnings` of the module only
  (`NoexceptInference.py` 423): with the decorator on one function a division whose warning
  becomes an exception is taken not to raise;
- with `cimport_from_pyx` the facts about bodies reach further than the cimports whose
  times and contents are compared (`Dependencies.py` 1136);
- `force=True` compiles again, but still loads from the cache (`Main.py` 641);
- two processes that store one fingerprint share the name of the temporary file: one may
  rename what the other has just truncated (an empty C file is loaded), and the second
  rename fails (`Cache.py` 164, 173). A torn C file passes for a current one;
- `cleanup_cache()` can unlink an entry between another process's lookup and its load, which
  then fails instead of compiling; with `exclude_failures` a module that compiles is
  dropped (`Cache.py` 147). It evicts the most recently used entries first (175-199);
- a generator whose body catches GeneratorExit and returns a value is said to have
  ignored it (`Coroutine.c` 1231);
- the key of the code object cache is the line number alone, so that functions of different
  included files can be shown with one another's name (`Exceptions.c` 983);
- `__Pyx__Coroutine_get_frame` returns from inside a critical section (`Coroutine.c` 1562);
- a realloc that fails after the conversion leaves a table without the cell that the
  bisection may read (`ModuleSetupCode.c` 2993);
- the error path of module execution calls `PyState_RemoveModule` and not the
  lookup's own removal (`ModuleNode.py` 4252).

## 7. Not modelled

- The scanner, the parser, symbol tables and types, the tree transforms and the code
  generator but for its temporaries and labels: some 90 000 lines that translate trees and text in a fixed sequence of passes,
  without a protocol or state that outlives a node. What they should compute is the
  semantics of Python and C; a model would be a second compiler. The analyses with a
  fixed point of their own (flow control, noexcept) are modelled; type inference is not,
  because its lattice is the whole type system.
- The layers over the C API (calls, arguments, numbers, strings, exceptions, import): each
  function is sequential and judged by comparison with CPython.
- Free lists and deallocation of extension types, module initialisation and its error
  paths: generated text, under the GIL.
- Weak memory orders of the lookup table; finalisation of generators by the garbage
  collector; files edited while a build runs; reductions and lastprivate variables.
- Tools, libraries and declarations: `PROJECT.json` lists them with the reason.

## 8. Plan

Models: done, in the order of section 2. What is left and could still be modelled:
1. A store-buffer variant of `ModuleStateLookup`.
2. `with` and several except clauses in `Statements` and `FlowControl`.
3. `AsyncGen` composed with `Generator` in place of `Outcomes`.
4. `with` statements and yields in `FunctionState`; the return value.

Proofs: done for every invariant and action property of a run but `CfStateSound`, and
for both refinements. What is left and could still be proved:
1. The store-buffer variant of the lookup table, once it is modelled.
2. For `Statements` without nested finally clauses, written with recursive functions over the
   depth of nesting, that the reads of one statement are foreseen: a part of `CfStateSound`.
