------------------------------- MODULE Build -------------------------------
(***************************************************************************)
(* cythonize() over source trees that share a compiler cache                *)
(* (Cython/Build/Dependencies.py, Cython/Build/Cache.py and the cached        *)
(* pipeline of Cython/Compiler/Main.py).                                     *)
(*                                                                         *)
(* Every tree belongs to one process that builds it again and again; its      *)
(* files change between two builds.  A text stands for the content of a       *)
(* file.  A C file is described by what was compiled into it: a function from *)
(* the files to their texts; a fingerprint by what it hashes.  Only the order *)
(* of modification times matters: stale[p][s] are the dependencies of s that  *)
(* were changed after its C file was written.                                *)
(***************************************************************************)
EXTENDS Naturals, FiniteSets

CONSTANTS Proc,       \* the build processes, each with a tree of its own
          Source,     \* the Cython modules, by their .pyx file
          Header,     \* .pxd and include files
          DepsOf,       \* Source -> the files all_dependencies() answers
          FactsFrom,  \* Source -> modules whose noexcept facts its C code relies on
          Mode,       \* who calls cythonize() and how, [builders, modules, cache, exclude],
                      \* and which files change to what in between, [edited, texts]
          Bad,        \* texts that do not compile
          Missing, Dead, Empty, Torn, \* a C file: absent, castrated, without a
                      \* text, with an incomplete one
          Nothing     \* what a cached result without any file unpacks to

File == Source \cup Header

ASSUME BuildAssumption ==
    /\ DepsOf \in [Source -> SUBSET File] /\ \A s \in Source : s \in DepsOf[s]
    /\ FactsFrom \in [Source -> SUBSET Source]

VARIABLES mode,    \* the arguments of the calls
          content, \* per tree, the text of every file
          stale,   \* per tree and module, the dependencies newer than its C file
          cfile,   \* per tree and module: what was compiled into it, or one of these four
          stage,   \* per process: "idle", "run", "cleanup", "ok", "raised"
          task,    \* per process and module, where its compilation is
          cache,   \* the cached results under their final names
          tmp      \* those under their ".tmp" names

tree == <<content, stale, cfile>>
store == <<cache, tmp>>
buildVars == <<mode, tree, stage, task, store>>

Working == {"waiting", "lookup", "load", "compile", "open", "write", "rename"}

(* What a compilation reads, and what identifies it in the cache.               *)
Inputs(s) == DepsOf[s] \cup FactsFrom[s]
Code(p, s) == [f \in Inputs(s) |-> content[p][f]]

(* How a call may be made, and that none of the special results is a C file.         *)
Text == UNION {m.texts : m \in Mode}
ASSUME ModeAssumption ==
    Mode \subseteq [builders : SUBSET Proc, modules : SUBSET Source, cache : BOOLEAN, exclude : BOOLEAN,
                   edited : SUBSET File, texts : SUBSET Text]
ASSUME SpecialAssumption ==
    /\ \A s \in Source : {Missing, Dead, Empty, Torn, Nothing} \cap [Inputs(s) -> Text] = {}
    /\ {Missing, Dead} \cap {Empty, Torn} = {}
    /\ {"none", "dead"} \cap Proc = {}

(* Mutant: only the source itself is hashed.                                   *)
SourceFingerprint(p, s) == [f \in {s} |-> content[p][f]]

Fingerprint(p, s) == [f \in DepsOf[s] |-> content[p][f]]

Compiles(p, s) == \A f \in DepsOf[s] : content[p][f] \notin Bad

(* An entry of the cache; writer is the process that truncated the file last and   *)
(* has not written all of it yet.                                             *)
Entry(s, key, code, writer) == [source |-> s, key |-> key, code |-> code, writer |-> writer]
Named(S, p, s) == {e \in S : e.source = s /\ e.key = Fingerprint(p, s)}

BuildInit ==
    /\ mode \in Mode
    /\ content \in [Proc -> [File -> mode.texts \ Bad]]
    /\ \A p, q \in Proc, f \in File \ mode.edited : content[p][f] = content[q][f]
    /\ stale = [p \in Proc |-> [s \in Source |-> {}]]
    /\ cfile = [p \in Proc |-> [s \in Source |-> Missing]]
    /\ stage = [p \in Proc |-> "idle"]
    /\ task = [p \in Proc |-> [s \in Source |-> "none"]]
    /\ cache = {} /\ tmp = {}

-----------------------------------------------------------------------------
(* Between two builds a file of the tree gets another text and a new time.        *)
Idle(p) == stage[p] \in {"idle", "ok", "raised"}

Edit(p, f, x) ==
    /\ p \in mode.builders /\ Idle(p) /\ f \in mode.edited /\ x # content[p][f]
    /\ content' = [content EXCEPT ![p][f] = x]
    /\ stale' = [stale EXCEPT ![p] =
                   [s \in Source |-> IF f \in DepsOf[s] THEN @[s] \cup {f} ELSE @[s]]]
    /\ stage' = [stage EXCEPT ![p] = "idle"]
    /\ UNCHANGED <<mode, cfile, task, store>>

(* Mutants: only the time of the source counts; an absent C file has no time.    *)
OutOfDateByTime(p, s) == cfile[p][s] \in {Dead, Empty} \/ stale[p][s] # {}
OutOfDateSource(p, s) == cfile[p][s] \in {Missing, Dead, Empty} \/ s \in stale[p][s]

(* "Missing files and those generated by other Cython versions should always be  *)
(* recreated"; a castrated or empty file is not taken for a generated one, a torn    *)
(* one is.                                                                    *)
OutOfDate(p, s) == cfile[p][s] \in {Missing, Dead, Empty} \/ stale[p][s] # {}

(* cythonize(): the modules to compile are determined before any is compiled.     *)
Plan(p, force) ==
    /\ p \in mode.builders /\ Idle(p)
    /\ stage' = [stage EXCEPT ![p] = "run"]
    /\ task' = [task EXCEPT ![p] =
                  [s \in Source |-> IF s \in mode.modules /\ (force \/ OutOfDate(p, s)) THEN "waiting" ELSE "none"]]
    /\ UNCHANGED <<mode, tree, store>>

Goto(p, s, from, to) ==
    /\ stage[p] = "run" /\ task[p][s] = from
    /\ task' = [task EXCEPT ![p][s] = to]
    /\ UNCHANGED <<mode, stage>>

WriteC(p, s, code) ==
    /\ cfile' = [cfile EXCEPT ![p][s] = code]
    /\ stale' = [stale EXCEPT ![p][s] = {}]
    /\ UNCHANGED content

(* cythonize_one() after a failure: with exclude_failures the C file is removed.   *)
Fail(p, s, from, before) ==
    /\ Goto(p, s, from, "failed")
    /\ cfile' = [cfile EXCEPT ![p][s] = IF mode.exclude THEN Missing ELSE before]
    /\ UNCHANGED <<content, stale>>

(* Workers take their tasks in any order.                                     *)
Begin(p, s) ==
    /\ Goto(p, s, "waiting", IF mode.cache THEN "lookup" ELSE "compile")
    /\ UNCHANGED <<tree, store>>

(* compile_single() computes the fingerprint whether or not the build is forced.   *)
Lookup(p, s) ==
    /\ Goto(p, s, "lookup", IF Named(cache, p, s) # {} THEN "load" ELSE "compile")
    /\ UNCHANGED <<tree, store>>

(* load_from_cache(): the entry may be gone, or not be complete.  An incomplete      *)
(* archive fails to open; an incomplete single file is found to end too early when  *)
(* the new C file has been truncated or written in part, or has no text yet, which is *)
(* no error.  An entry without artifacts changes nothing.                        *)
LoadIncomplete(p, s) ==
    \/ Fail(p, s, "load", cfile[p][s])
    \/ \E part \in {Empty, Torn} :
          /\ Goto(p, s, "load", "failed")
          /\ WriteC(p, s, IF mode.exclude THEN Missing ELSE part)
    \/ Goto(p, s, "load", "ok") /\ WriteC(p, s, Empty)

Load(p, s) ==
    /\ task[p][s] = "load"
    /\ \/ Named(cache, p, s) = {} /\ Fail(p, s, "load", cfile[p][s])
       \/ \E e \in Named(cache, p, s) : e.writer # "none" /\ LoadIncomplete(p, s)
       \/ \E e \in Named(cache, p, s) :
             /\ e.writer = "none"
             /\ Goto(p, s, "load", "ok")
             /\ IF e.code = Nothing THEN UNCHANGED tree ELSE WriteC(p, s, e.code)
    /\ UNCHANGED store

(* run_pipeline() writes the C file, or castrates the one that is there.         *)
Castrated(p, s) == IF cfile[p][s] = Missing THEN Missing ELSE Dead

Compile(p, s) ==
    /\ task[p][s] = "compile"
    /\ \/ /\ Compiles(p, s)
          /\ Goto(p, s, "compile", IF mode.cache THEN "open" ELSE "ok")
          /\ WriteC(p, s, Code(p, s))
       \/ /\ ~Compiles(p, s)
          /\ IF mode.cache
             THEN /\ Goto(p, s, "compile", "open")
                  /\ cfile' = [cfile EXCEPT ![p][s] = Castrated(p, s)]
                  /\ UNCHANGED <<content, stale>>
             ELSE Fail(p, s, "compile", Castrated(p, s))
    /\ UNCHANGED store

(* store_to_cache(): the temporary file has one name per fingerprint, and opening   *)
(* it truncates it.                                                          *)
OpenTmp(p, s) ==
    /\ Goto(p, s, "open", "write")
    /\ LET code == IF Compiles(p, s) THEN Code(p, s) ELSE Nothing
       IN tmp' = (tmp \ Named(tmp, p, s)) \cup {Entry(s, Fingerprint(p, s), code, p)}
    /\ UNCHANGED <<tree, cache>>

Written(S, p, s) ==
    {IF e.writer = p /\ e \in Named(S, p, s) THEN [e EXCEPT !.writer = "none"] ELSE e : e \in S}

WriteTmp(p, s) ==
    /\ Goto(p, s, "write", "rename")
    /\ tmp' = Written(tmp, p, s) /\ cache' = Written(cache, p, s)
    /\ UNCHANGED tree

(* The outcome of the compilation, stored or not, is known after the rename.       *)
Rename(p, s) ==
    /\ task[p][s] = "rename"
    /\ \/ /\ Named(tmp, p, s) # {}
          /\ cache' = (cache \ Named(cache, p, s)) \cup Named(tmp, p, s)
          /\ tmp' = tmp \ Named(tmp, p, s)
          /\ IF Compiles(p, s) THEN Goto(p, s, "rename", "ok") /\ UNCHANGED tree
                               ELSE Fail(p, s, "rename", cfile[p][s])
       \/ /\ Named(tmp, p, s) = {}
          /\ Fail(p, s, "rename", cfile[p][s])
          /\ UNCHANGED store

-----------------------------------------------------------------------------
(* The end: unless failures are excluded, one is raised and nothing more is begun;   *)
(* the cache is cleaned up, and modules without a C file are dropped from the answer. *)
Failed(p) == \E s \in Source : task[p][s] = "failed"

Finish(p) ==
    /\ stage[p] = "run"
    /\ \A s \in Source : task[p][s] \in Working =>
          task[p][s] = "waiting" /\ Failed(p) /\ ~mode.exclude
    /\ stage' = [stage EXCEPT ![p] =
                   IF Failed(p) /\ ~mode.exclude THEN "raised"
                   ELSE IF mode.cache THEN "cleanup" ELSE "ok"]
    /\ task' = [task EXCEPT ![p] = [s \in Source |-> "none"]]
    /\ UNCHANGED <<mode, tree, store>>

(* cleanup_cache() unlinks any files of the directory, and fails when another     *)
(* process has unlinked or renamed one of those it listed.                      *)
Unlink(p) ==
    /\ stage[p] = "cleanup"
    /\ \E e \in cache \cup tmp : cache' = cache \ {e} /\ tmp' = tmp \ {e}
    /\ UNCHANGED <<mode, tree, stage, task>>

EndCleanup(p) ==
    /\ stage[p] = "cleanup"
    /\ \/ stage' = [stage EXCEPT ![p] = "ok"]
       \/ \E q \in Proc \ {p} : ~Idle(q) /\ stage' = [stage EXCEPT ![p] = "raised"]
    /\ UNCHANGED <<mode, tree, task, store>>

(* The process is killed: what it was writing stays as it is.                    *)
Abandoned(S, p) == {IF e.writer = p THEN [e EXCEPT !.writer = "dead"] ELSE e : e \in S}

Kill(p) ==
    /\ ~Idle(p)
    /\ stage' = [stage EXCEPT ![p] = "raised"]
    /\ \E torn \in SUBSET {s \in Source : task[p][s] \in {"compile", "load"}} :
          /\ cfile' = [cfile EXCEPT ![p] = [s \in Source |-> IF s \in torn THEN Torn ELSE @[s]]]
          /\ stale' = [stale EXCEPT ![p] = [s \in Source |-> IF s \in torn THEN {} ELSE @[s]]]
    /\ task' = [task EXCEPT ![p] = [s \in Source |-> "none"]]
    /\ cache' = Abandoned(cache, p) /\ tmp' = Abandoned(tmp, p)
    /\ UNCHANGED <<mode, content>>

BuildNext ==
    \E p \in Proc :
       \/ \E f \in File, x \in mode.texts : Edit(p, f, x)
       \/ \E force \in BOOLEAN : Plan(p, force)
       \/ \E s \in Source :
             \/ Begin(p, s) \/ Lookup(p, s) \/ Load(p, s) \/ Compile(p, s)
             \/ OpenTmp(p, s) \/ WriteTmp(p, s) \/ Rename(p, s)
       \/ Finish(p) \/ Unlink(p) \/ EndCleanup(p) \/ Kill(p)

BuildSpec == BuildInit /\ [][BuildNext]_buildVars

-----------------------------------------------------------------------------
(* The modules cythonize() answers.                                            *)
Answered(p) == {s \in mode.modules : ~mode.exclude \/ cfile[p][s] \notin {Missing, Dead}}

(* A build that returns normally leaves, for every module it answers, the code of   *)
(* the files as they are: whatever was edited, restored, cached, evicted, killed or *)
(* built at the same time before.  There are two exceptions: files that were not      *)
(* written to their end, because of a kill or of an entry that was still being        *)
(* written, which nothing tells from current ones; and, with a cache, modules that do  *)
(* not compile, whose failure is cached as a success.                            *)
SuccessIsCurrent ==
    \A p \in Proc : stage[p] = "ok" =>
       \A s \in Answered(p) :
          \/ cfile[p][s] \in {Empty, Torn}
          \/ Compiles(p, s) /\ cfile[p][s] = Code(p, s)
          \/ mode.cache /\ ~Compiles(p, s)

(* What is stored completely under the name that a tree computes for a module is     *)
(* what compiling that module there would write, nothing if it does not compile.     *)
CacheFaithful ==
    \A p \in Proc, s \in Source : \A e \in Named(cache, p, s) :
       e.writer = "none" => e.code = IF Compiles(p, s) THEN Code(p, s) ELSE Nothing

(* With exclude_failures only what does not compile is dropped from the answer of a   *)
(* process that has the cache to itself, whatever failed or was killed before.       *)
OnlyFailuresDropped ==
    \A p \in Proc : stage[p] = "ok" /\ (mode.cache => mode.builders = {p}) =>
       \A s \in mode.modules : Compiles(p, s) => s \in Answered(p)
=============================================================================
