--------------------------- MODULE DependencyTree ---------------------------
(***************************************************************************)
(* The dependency tree of cythonize(), src/Cython/Build/Dependencies.py.    *)
(*                                                                         *)
(* Both questions cythonize() asks of the tree, all_dependencies() and      *)
(* distutils_info(), are answered by one recursion, transitive_merge(): it  *)
(* walks the cimports of a file depth first, merges what extract() says of  *)
(* every file it meets, cuts cimport cycles at the files it is already in   *)
(* the middle of, and caches the result of a file when that result cannot   *)
(* depend on where the walk began.  One step here is one iteration of the   *)
(* loop over outgoing(node), or the return from it.                         *)
(*                                                                         *)
(* A file stands for itself and the files it textually includes.  The       *)
(* merged data is represented by where it came from: the set of the files,  *)
(* and of the Extension templates, whose contribution has been merged in.   *)
(* The two questions differ in what their merge does: set.union builds a    *)
(* new set, DistutilsInfo.merge changes the cached object it is called on.  *)
(***************************************************************************)
EXTENDS Naturals

CONSTANTS Files,     \* .pyx, .py and .pxd files
          Exts,      \* the Extension objects passed to cythonize()
          NoFile,    \* None where a file could be
          NoExt,     \* a file found by a glob pattern: no Extension, base None
          ExternHeader \* an entry of the "depends" lists

ASSUME NoneAssumption ==
    /\ NoFile \notin Files
    /\ NoExt \notin Exts
    /\ Files \cap (Exts \union {NoExt}) = {}
    /\ ExternHeader \notin Files \union Exts \union {NoExt}

Deps == "deps"    \* extract = immediate_dependencies, merge = set.union
Info == "info"    \* extract = distutils_info0, merge = DistutilsInfo.merge
Kinds == {Deps, Info}

VARIABLES
    cimports,   \* cimported_files(f): what is on disk, fixed while cythonize() runs
    sourceOf,   \* the Cython source of each Extension, likewise
    declarer,   \* the file whose "cdef extern from" or depends names ExternHeader
    finder,     \* the file or Extension whose include_dirs have ExternHeader
    request,    \* the question being answered
    cur,        \* the node of the innermost running transitive_merge_helper()
    caller,     \* the node whose loop made that call
    depth,      \* the dict "stack", 0 for a node that is not in it
    todo,       \* the outgoing nodes a running call has still to visit
    loop,       \* the local "loop" of a running call
    seen,       \* _transitive_cache: the nodes cached for each question
    value,      \* "deps", local and cached: the contributors merged into it
    own,        \* the Extension whose non-transitive settings an info dict holds
    pythran,    \* the files whose np_pythran an info dict has merged
    given,      \* the files whose info dict has been handed out
    answer      \* the last answer given

project == <<cimports, sourceOf, declarer, finder>>
locals == <<cur, caller, depth, todo, loop>>
kept == <<seen, value, own, pythran, given>>
vars == <<cimports, sourceOf, declarer, finder, request, cur, caller, depth, todo,
          loop, seen, value, own, pythran, given, answer>>

Sources == Exts \union {NoExt}

\* Whose settings can be merged into a result, and the header.
Settings == Files \union Exts \union {ExternHeader}

NoRequest == [kind |-> Deps, file |-> NoFile, ext |-> NoExt]
NoAnswer == [request |-> NoRequest, from |-> {}, own |-> NoExt, pythran |-> {},
             before |-> {}]

\* The settings a file declares itself.  distutils_info0() puts the headers of
\* "cdef extern from" into the dict at each extract(); as the dict of a file is
\* not extracted again after it was handed out, they can be there from the start.
Declared(f) == {f} \union (IF f = declarer THEN {ExternHeader} ELSE {})

Init ==
    /\ cimports \in [Files -> SUBSET Files]
    /\ sourceOf \in [Exts -> Files]
    /\ declarer \in Files
    /\ finder \in Files \union Exts
    /\ request = NoRequest
    /\ cur = NoFile
    /\ caller = [f \in Files |-> NoFile]
    /\ depth = [f \in Files |-> 0]
    /\ todo = [f \in Files |-> {}]
    /\ loop = [f \in Files |-> NoFile]
    /\ seen = [k \in Kinds |-> {}]
    /\ value = [k \in Kinds |-> [f \in Files |-> IF k = Info THEN Declared(f) ELSE {}]]
    /\ own = [f \in Files |-> NoExt]
    /\ pythran = [f \in Files |-> {f}]
    /\ given = {}
    /\ answer = NoAnswer

Kind == request.kind

\* What extract(n) returns: immediate_dependencies gives a set of its own,
\* distutils_info0 the object parse_dependencies caches, as merged so far.
Extract(n) == IF Kind = Info THEN value[Info][n] ELSE {n}

\* Mutant: the cycle that was entered last wins.
DeeperLoop(a, b) ==
    IF a # NoFile /\ (b = NoFile \/ depth[a] > depth[b]) THEN a ELSE b

\* Of two nodes on the stack, the one that was entered first.
Shallower(a, b) ==
    IF a # NoFile /\ (b = NoFile \/ depth[a] < depth[b]) THEN a ELSE b

\* deps = merge(deps, what) in the call for node n.
Merge(n, what, flags) ==
    /\ value' = [value EXCEPT ![Kind][n] = @ \union what]
    /\ pythran' = IF Kind = Info THEN [pythran EXCEPT ![n] = @ \union flags] ELSE pythran
    /\ UNCHANGED <<own, given>>

\* The call for n gets past its two early returns: a new stack entry, a fresh
\* deps, every outgoing node still to visit.
Enter(n) ==
    /\ depth' = [depth EXCEPT ![n] = IF cur = NoFile THEN 1 ELSE depth[cur] + 1]
    /\ caller' = [caller EXCEPT ![n] = cur]
    /\ loop' = [loop EXCEPT ![n] = NoFile]
    /\ cur' = n
    /\ UNCHANGED <<seen, own, pythran, given>>

NothingAsked == request = NoRequest

\* all_dependencies(f), or distutils_info() for a file that Extension e, or a
\* glob pattern, names.
Ask(kind, f, e) ==
    /\ NothingAsked
    /\ kind = Deps => e = NoExt
    /\ e # NoExt => f = sourceOf[e]
    /\ request' = [kind |-> kind, file |-> f, ext |-> e]
    /\ answer' = NoAnswer
    /\ UNCHANGED project

\* The file is in the cache: there is nothing to walk.
AskCached(kind, f, e) ==
    /\ Ask(kind, f, e)
    /\ f \in seen[kind]
    /\ UNCHANGED <<locals, kept>>

AskNew(kind, f, e) ==
    /\ Ask(kind, f, e)
    /\ f \notin seen[kind]
    /\ Enter(f)
    /\ todo' = [todo EXCEPT ![f] = cimports[f]]
    /\ value' = IF kind = Deps THEN [value EXCEPT ![Deps][f] = {f}] ELSE value

\* The next outgoing node is one transitive_merge() has a final result for.
VisitCached(n) ==
    /\ n \in seen[Kind]
    /\ Merge(cur, value[Kind][n], pythran[n])
    /\ todo' = [todo EXCEPT ![cur] = @ \ {n}]
    /\ UNCHANGED <<project, request, cur, caller, depth, loop, seen, answer>>

\* It is on the stack: a cimport cycle.  Only what extract() says of it is
\* merged, and the running call remembers how far up the cycle reaches.
VisitOnStack(n) ==
    /\ n \notin seen[Kind]
    /\ depth[n] > 0
    /\ Merge(cur, Extract(n), pythran[n])
    /\ loop' = [loop EXCEPT ![cur] = Shallower(@, n)]
    /\ todo' = [todo EXCEPT ![cur] = @ \ {n}]
    /\ UNCHANGED <<project, request, cur, caller, depth, seen, answer>>

\* It is new: the recursive call.
VisitNew(n) ==
    /\ n \notin seen[Kind]
    /\ depth[n] = 0
    /\ Enter(n)
    /\ todo' = [todo EXCEPT ![cur] = @ \ {n}, ![n] = cimports[n]]
    /\ value' = IF Kind = Deps THEN [value EXCEPT ![Deps][n] = {n}] ELSE value
    /\ UNCHANGED <<project, request, answer>>

\* extract(n) raises, the file cannot be read or parsed: every call on the
\* stack unwinds through its "finally", and create_extension_list() goes on with
\* the next module (exclude_failures).
VisitFails(n) ==
    /\ n \notin seen[Kind]
    /\ depth[n] = 0
    /\ request' = NoRequest
    /\ cur' = NoFile
    /\ caller' = [f \in Files |-> NoFile]
    /\ depth' = [f \in Files |-> 0]
    /\ todo' = [f \in Files |-> {}]
    /\ loop' = [f \in Files |-> NoFile]
    /\ value' = [value EXCEPT ![Deps] =
                    [f \in Files |-> IF f \in seen[Deps] THEN @[f] ELSE {}]]
    /\ UNCHANGED <<project, seen, own, pythran, given, answer>>

Visit ==
    /\ cur # NoFile
    /\ \E n \in todo[cur] :
          VisitCached(n) \/ VisitOnStack(n) \/ VisitNew(n) \/ VisitFails(n)

\* Mutant: every result is cached, also inside a cycle.
ForgottenLoop(n) == NoFile

\* The loop a call reports to its caller: a cycle that closes at the node itself
\* ends there.
OpenLoop(n) == IF loop[n] = n THEN NoFile ELSE loop[n]

Leave(n) ==
    /\ seen' = IF OpenLoop(n) = NoFile THEN [seen EXCEPT ![Kind] = @ \union {n}] ELSE seen
    /\ depth' = [depth EXCEPT ![n] = 0]
    /\ caller' = [caller EXCEPT ![n] = NoFile]
    /\ cur' = caller[n]

\* The result of a call, seen by the caller's loop.  A result that was not
\* cached is gone after the merge, except for the info object that holds it.
ReturnToCaller ==
    /\ cur # NoFile
    /\ todo[cur] = {}
    /\ caller[cur] # NoFile
    /\ Leave(cur)
    /\ LET c == caller[cur]
           dropped == Kind = Deps /\ OpenLoop(cur) # NoFile
       IN  /\ value' = [value EXCEPT ![Kind][c] = @ \union value[Kind][cur],
                                     ![Kind][cur] = IF dropped THEN {} ELSE @]
           /\ pythran' = IF Kind = Info
                         THEN [pythran EXCEPT ![c] = @ \union pythran[cur]]
                         ELSE pythran
           /\ loop' = [loop EXCEPT ![c] = IF OpenLoop(cur) = NoFile
                                          THEN @ ELSE Shallower(@, OpenLoop(cur)),
                                   ![cur] = NoFile]
    /\ UNCHANGED <<project, request, todo, own, given, answer>>

ReturnToUser ==
    /\ cur # NoFile
    /\ todo[cur] = {}
    /\ caller[cur] = NoFile
    /\ Leave(cur)
    /\ loop' = [loop EXCEPT ![cur] = NoFile]
    /\ UNCHANGED <<project, request, todo, value, own, pythran, given, answer>>

AnswerDeps ==
    /\ ~NothingAsked
    /\ cur = NoFile
    /\ Kind = Deps
    /\ answer' = [request |-> request, from |-> value[Deps][request.file],
                  own |-> NoExt, pythran |-> {}, before |-> {}]
    /\ request' = NoRequest
    /\ UNCHANGED <<project, locals, kept>>

\* Mutant: the entries are resolved with the settings of the Extension's template.
ResolvedHere(settings) ==
    IF finder \in settings \cap Exts THEN settings ELSE settings \ {ExternHeader}

\* The "depends" that default_create_extension() writes back keep the entries that
\* exist in one of the include_dirs merged so far.
Resolved(settings) ==
    IF finder \in settings THEN settings ELSE settings \ {ExternHeader}

\* distutils_info() merges the template into the object transitive_merge()
\* returned, which is the cached one; create_extension_list() fills the settings
\* it lacks from the template and takes np_pythran out of it, and
\* default_create_extension() resolves its "depends".
AnswerInfo ==
    /\ ~NothingAsked
    /\ cur = NoFile
    /\ Kind = Info
    /\ LET f == request.file
           e == request.ext
           template == IF e = NoExt THEN {} ELSE {e}
           holder == IF own[f] = NoExt THEN e ELSE own[f]
           merged == Resolved(value[Info][f] \union template)
       IN  /\ value' = [value EXCEPT ![Info][f] = merged]
           /\ own' = [own EXCEPT ![f] = holder]
           /\ pythran' = [pythran EXCEPT ![f] = {}]
           /\ given' = given \union {f}
           /\ answer' = [request |-> request, from |-> merged, own |-> holder,
                         pythran |-> pythran[f], before |-> given]
    /\ request' = NoRequest
    /\ UNCHANGED <<project, locals, seen>>

Next ==
    \/ \E kind \in Kinds, f \in Files, e \in Sources :
          AskCached(kind, f, e) \/ AskNew(kind, f, e)
    \/ Visit
    \/ ReturnToCaller
    \/ ReturnToUser
    \/ AnswerDeps
    \/ AnswerInfo

Spec == Init /\ [][Next]_vars

-----------------------------------------------------------------------------
\* The reference: the files a file depends on, through any chain of cimports.
Closed(S) == \A f \in S : cimports[f] \subseteq S
Reach(f) == {g \in Files : \A S \in SUBSET Files : (f \in S /\ Closed(S)) => g \in S}

\* The variables hold values of the expected kinds, and only running calls have
\* local state.
TypeOK ==
    /\ cimports \in [Files -> SUBSET Files]
    /\ sourceOf \in [Exts -> Files]
    /\ declarer \in Files
    /\ finder \in Files \union Exts
    /\ request \in [kind : Kinds, file : Files \union {NoFile}, ext : Sources]
    /\ cur \in Files \union {NoFile}
    /\ caller \in [Files -> Files \union {NoFile}]
    /\ depth \in [Files -> Nat]
    /\ todo \in [Files -> SUBSET Files]
    /\ loop \in [Files -> Files \union {NoFile}]
    /\ seen \in [Kinds -> SUBSET Files]
    /\ value \in [Kinds -> [Files -> SUBSET Settings]]
    /\ own \in [Files -> Sources]
    /\ pythran \in [Files -> SUBSET Files]
    /\ given \in SUBSET Files
    /\ answer \in [request : [kind : Kinds, file : Files \union {NoFile}, ext : Sources],
                   from : SUBSET Settings, own : Sources,
                   pythran : SUBSET Files, before : SUBSET Files]

\* all_dependencies() answers, and the cache keeps, exactly the files reachable
\* through cimports: on every graph, whatever cycles it has, in every order of
\* questions, also after a walk that an unreadable file cut short.  A file too
\* few leaves an outdated C file in place; the caching of files inside cycles
\* ("loop") is where one could be lost.
DependenciesExact ==
    /\ \A f \in seen[Deps] : value[Deps][f] = Reach(f)
    /\ (answer.request.kind = Deps /\ answer.request.file # NoFile)
          => answer.from = Reach(answer.request.file)

\* The Extensions that are built from one of the files.
Built(S) == {e \in Exts : sourceOf[e] \in S}

\* A header that the settings of an answer can find is in it, if the declarer's
\* own dependencies tell where to find it, or none of the files had been handed
\* out before.
HeaderKept ==
    LET files == Reach(answer.request.file)
    IN  /\ declarer \in files
        /\ finder \in answer.from
        /\ finder \in Reach(declarer) \/ files \cap answer.before = {}
        => ExternHeader \in answer.from

\* distutils_info() loses no setting, although the walk shares and modifies the
\* cached objects of all the files, stops short at cycles, and what is handed out
\* is changed by its caller: the Extension gets the transitive lists (libraries,
\* include_dirs, ...) of every file it depends on and of its own template, and
\* the headers that can be found, in the cases that HeaderKept names.  What it
\* gets beyond that is from other Extensions, and from those only that are built
\* from a file it depends on.  HeaderKept has to leave out a header that only the
\* include_dirs of an Extension find, where another Extension with the same
\* source came first: its entry is gone from the shared dict (Dependencies.py:714).
InfoOfDependencies ==
    answer.request.kind = Info
        => LET files == Reach(answer.request.file)
           IN  /\ files \union ({answer.request.ext} \ {NoExt}) \subseteq answer.from
               /\ HeaderKept
               /\ answer.from \subseteq files \union Built(files) \union {ExternHeader}

\* "... a list of Extension objects.  The latter allows you to configure the
\* extensions separately through the normal distutils options" (the docstring of
\* cythonize(), Dependencies.py:884-886): an Extension is built from the settings
\* of the files it depends on and its own, no other Extension's, and all of them.
ConfiguredSeparately ==
    answer.request.kind = Info
        => /\ answer.from \subseteq Reach(answer.request.file)
                                        \union {answer.request.ext, ExternHeader}
           /\ answer.own = answer.request.ext
           /\ answer.pythran = Reach(answer.request.file)
=============================================================================
