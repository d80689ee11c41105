-------------------------- MODULE NoexceptInference --------------------------
(***************************************************************************)
(* Inference of "noexcept" (Cython/Compiler/NoexceptInference.py) over the   *)
(* modules of one compilation batch: a first phase analyses every module for *)
(* its facts, a second one compiles every module with the facts of all       *)
(* (compile_multiple in Main.py).                                            *)
(*                                                                         *)
(* A function body is the sequence of the constructs the visitor meets:      *)
(* those whose handler asks nothing of the operands ("plain"), those whose    *)
(* generated code has an error exit ("check"), and calls.  The visitor is a   *)
(* stack of bodies under analysis; the memo is its cache.                     *)
(***************************************************************************)
EXTENDS Naturals, Sequences

CONSTANTS Fun,      \* the C functions, numbered in the order they are defined
          Module,   \* the modules of the batch, in the order they are compiled
          Program,  \* the programs: functions from Fun to definitions
          Lookup    \* Options.lookup_module_cpdef

Scopes == {"module", "final", "method"}
Specs == {"default", "object", "explicit", "noexcept", "cpp"}
Calls == [kind : {"call"}, to : Fun, via : {"dispatch", "direct", "copy"}]
Items == [kind : {"plain", "check"}] \cup Calls
Definition == [mod : 1..Len(Module), scope : Scopes, overridable : BOOLEAN, spec : Specs,
               infer : BOOLEAN, profile : BOOLEAN, skipped : BOOLEAN, body : Seq(Items)]

ASSUME FunAssumption == Fun \subseteq Nat
ASSUME ModuleAssumption == Module \in Seq(STRING)
ASSUME ProgramAssumption == \A p \in Program : p \in [Fun -> Definition]
ASSUME LookupAssumption == Lookup \in BOOLEAN

VARIABLES prog,      \* the program that is compiled
          phase,     \* "facts", "compile", "done"
          current,   \* the module under analysis
          remaining, \* functions of the module that may still become candidates
          sites,     \* calls of the module that tier 2 has not visited
          stack,     \* the bodies under analysis, the innermost last
          memo,      \* what is known of a body: "safe", "unsafe", "busy", "new"
          marked,    \* functions whose type has never_raises in this compilation
          facts,     \* the facts collected: "entry", "direct" or "none"
          patched,   \* calls given a type of their own in this compilation
          unchecked  \* calls the generated C code does not check

inferenceVars == <<prog, phase, current, remaining, sites, stack, memo, marked, facts, patched, unchecked>>
visitor == <<stack, memo>>
outcome == <<marked, facts, patched>>

Own(m) == {f \in Fun : prog[f].mod = m}
Body(f) == prog[f].body
SitesOf(F) == UNION {{f} \X {i \in DOMAIN Body(f) : Body(f)[i].kind = "call"} : f \in F}
Item(s) == Body(s[1])[s[2]]

IsFirst(f, F) == f \in F /\ \A g \in F : f <= g
IsFirstSite(s, S) == s \in S /\ \A r \in S : s[1] < r[1] \/ (s[1] = r[1] /\ s[2] <= r[2])

-----------------------------------------------------------------------------
(* Phase 2 of the code, tier 1: which functions are considered, and which of   *)
(* them can be marked for every caller.                                       *)
UserSpec(f) == prog[f].spec \in {"explicit", "noexcept", "cpp"}

Eligible(f) ==
    /\ prog[f].infer /\ ~prog[f].profile /\ ~prog[f].skipped /\ ~UserSpec(f)
    /\ ~(prog[f].scope = "module" /\ prog[f].overridable /\ Lookup)

Candidate(f) == Eligible(f) /\ f \notin marked

EntrySafe(f) == prog[f].scope \in {"module", "final"}

(* What a cimporting module may assume: an "entry" fact marks the entry, a       *)
(* "direct" fact only vouches for calls that skip dispatch.                     *)
ExternalFact(f, kinds) == phase = "compile" /\ facts[f] \in kinds

(* A call may hold a copy of the type, made before its own module was analysed.   *)
TypeMarked(c) == c.to \in marked /\ (c.via # "copy" \/ prog[c.to].mod # current)

(* _visit_call_node: calls safe whatever the body, calls safe when the body is.  *)
SafeByType(c) ==
    \/ TypeMarked(c)
    \/ prog[c.to].spec = "noexcept"
    \/ /\ prog[c.to].mod # current /\ c.via = "direct"
       /\ prog[c.to].spec # "cpp" /\ ExternalFact(c.to, {"entry", "direct"})

DispatchSafe(c) ==
    /\ prog[c.to].mod = current /\ prog[c.to].spec # "cpp"
    /\ prog[c.to].scope \in {"final", "module"} \/ c.via = "direct"

(* Mutant: a body that is being analysed is taken to be safe.                   *)
OptimisticItemSafe(x) ==
    \/ x.kind = "plain"
    \/ x.kind = "call" /\ (SafeByType(x) \/ (DispatchSafe(x) /\ memo[x.to] \in {"safe", "busy"}))

ItemSafe(x) ==
    \/ x.kind = "plain"
    \/ x.kind = "call" /\ (SafeByType(x) \/ (DispatchSafe(x) /\ memo[x.to] = "safe"))

(* Mutant: a call is only safe when its body was analysed before.              *)
NeedsNoBody(x) == FALSE

NeedsBody(x) == x.kind = "call" /\ ~SafeByType(x) /\ DispatchSafe(x) /\ memo[x.to] = "new"

-----------------------------------------------------------------------------
(* body_cannot_raise: one construct of the innermost body at a time.           *)
Top == stack[Len(stack)]
Below == SubSeq(stack, 1, Len(stack) - 1)
Busy == stack # <<>>

Analyse(f) ==
    /\ memo[f] = "new"
    /\ stack' = Append(stack, [fun |-> f, at |-> 1])
    /\ memo' = [memo EXCEPT ![f] = "busy"]

Conclude(answer) ==
    /\ stack' = Below
    /\ memo' = [memo EXCEPT ![Top.fun] = answer]

Visit ==
    /\ Busy
    /\ LET f == Top.fun
           over == Top.at > Len(Body(f))
       IN \/ prog[f].profile /\ Conclude("unsafe")
          \/ ~prog[f].profile /\ over /\ Conclude("safe")
          \/ /\ ~prog[f].profile /\ ~over
             /\ LET x == Body(f)[Top.at] IN
                \/ /\ ItemSafe(x)
                   /\ stack' = [stack EXCEPT ![Len(stack)].at = @ + 1]
                   /\ UNCHANGED memo
                \/ NeedsBody(x) /\ Analyse(x.to)
                \/ ~ItemSafe(x) /\ ~NeedsBody(x) /\ Conclude("unsafe")
    /\ UNCHANGED <<prog, phase, current, remaining, sites, outcome, unchecked>>

-----------------------------------------------------------------------------
(* The start of a module: its candidates, nothing known, and, when compiling,    *)
(* the entries marked by ApplyCrossModuleNoexceptFacts.                         *)
Load(m, ph) ==
    /\ phase' = ph /\ current' = m
    /\ remaining' = Own(m) /\ sites' = SitesOf(Own(m))
    /\ memo' = [f \in Fun |-> "new"]
    /\ stack' = <<>>
    /\ marked' = IF ph = "compile"
                 THEN {f \in Fun \ Own(m) : facts[f] = "entry"} ELSE {}
    /\ patched' = {}

InferenceInit ==
    /\ prog \in Program
    /\ phase = "facts" /\ current = 1
    /\ remaining = Own(1) /\ sites = SitesOf(Own(1))
    /\ memo = [f \in Fun |-> "new"]
    /\ stack = <<>>
    /\ marked = {} /\ patched = {} /\ unchecked = {}
    /\ facts = [f \in Fun |-> "none"]

Mark(f) ==
    /\ marked' = IF EntrySafe(f) THEN marked \cup {f} ELSE marked
    /\ facts' = IF phase = "facts"
                THEN [facts EXCEPT ![f] = IF EntrySafe(f) THEN "entry" ELSE "direct"]
                ELSE facts

Consider(f) ==
    /\ ~Busy /\ IsFirst(f, remaining)
    /\ \/ /\ Candidate(f) /\ Analyse(f)
          /\ UNCHANGED <<remaining, outcome>>
       \/ /\ ~Candidate(f) \/ memo[f] = "unsafe"
          /\ remaining' = remaining \ {f}
          /\ UNCHANGED <<visitor, outcome>>
       \/ /\ Candidate(f) /\ memo[f] = "safe"
          /\ remaining' = remaining \ {f}
          /\ Mark(f)
          /\ UNCHANGED <<visitor, patched>>
    /\ UNCHANGED <<prog, phase, current, sites, unchecked>>

(* Tier 2: a call keeps the shared type or gets a never-raising copy.           *)
Open(s) == LET c == Item(s) IN
    prog[s[1]].infer /\ ~UserSpec(c.to) /\ ~TypeMarked(c)

(* Mutant: the call need not skip dispatch.                                    *)
PatchableAnyhow(c) == TRUE

Patchable(c) == c.via = "direct" \/ c.to \in marked

PatchSite(s) ==
    /\ ~Busy /\ remaining = {} /\ IsFirstSite(s, sites)
    /\ LET c == Item(s)
           own == prog[c.to].mod = current
           yes == IF own THEN memo[c.to] = "safe" /\ Patchable(c)
                  ELSE c.via = "direct" /\ ExternalFact(c.to, {"entry", "direct"})
       IN \/ /\ Open(s) /\ own /\ Analyse(c.to)
             /\ UNCHANGED <<sites, patched>>
          \/ /\ ~(Open(s) /\ own /\ memo[c.to] = "new")
             /\ sites' = sites \ {s}
             /\ patched' = IF Open(s) /\ yes THEN patched \cup {s} ELSE patched
             /\ UNCHANGED visitor
    /\ UNCHANGED <<prog, phase, current, remaining, marked, facts, unchecked>>

(* The end of a module: its facts are collected, or its code is generated, in    *)
(* which a call is not checked when its type says that it never raises.         *)
FinishModule ==
    /\ ~Busy /\ remaining = {} /\ sites = {} /\ phase # "done"
    /\ unchecked' = IF phase # "compile" THEN unchecked
         ELSE unchecked \cup patched \cup {s \in SitesOf(Own(current)) : TypeMarked(Item(s))}
    /\ IF current < Len(Module) THEN Load(current + 1, phase)
       ELSE IF phase = "facts" THEN Load(1, "compile")
       ELSE /\ phase' = "done"
            /\ UNCHANGED <<current, remaining, sites, stack, memo, marked, patched>>
    /\ UNCHANGED <<prog, facts>>

InferenceNext ==
    \/ Visit \/ FinishModule
    \/ \E f \in remaining : Consider(f)
    \/ \E s \in sites : PatchSite(s)

InferenceSpec == InferenceInit /\ [][InferenceNext]_inferenceVars

-----------------------------------------------------------------------------
(* The reference: what can raise when the generated code runs.  A call that does  *)
(* not skip dispatch may run an override of a method, or of a module function    *)
(* that is looked up; a function declared noexcept lets nothing out.            *)
MayRunOverride(c) ==
    /\ c.via # "direct"
    /\ \/ prog[c.to].scope = "method"
       \/ prog[c.to].scope = "module" /\ prog[c.to].overridable /\ Lookup

CallRaises(c, R) ==
    \/ prog[c.to].spec = "cpp"
    \/ prog[c.to].spec # "noexcept" /\ (MayRunOverride(c) \/ c.to \in R)

ItemRaises(x, R) ==
    \/ x.kind = "check"
    \/ x.kind = "call" /\ CallRaises(x, R)

(* R contains every function that can raise if those of R can.                   *)
Closed(R) ==
    \A f \in Fun : \/ prog[f].profile
                   \/ \E i \in DOMAIN Body(f) : ItemRaises(Body(f)[i], R)
                   => f \in R

CanRaise(f) == \A R \in SUBSET Fun : Closed(R) => f \in R

(* A body found safe cannot raise: whatever the order of definitions, cycles of   *)
(* calls, and what was marked or cached in between.                            *)
SafeBodiesDoNotRaise == \A f \in Fun : memo[f] = "safe" => ~CanRaise(f)

(* No call that can raise is left unchecked in the generated code.              *)
UncheckedCallsDoNotRaise ==
    \A s \in unchecked : ~CallRaises(Item(s), {f \in Fun : CanRaise(f)})

(* What other modules assume of a function is what its own compilation finds.    *)
FactsKept ==
    phase = "compile" /\ ~Busy /\ remaining = {} =>
       \A f \in Own(current) : /\ facts[f] # "none" => memo[f] = "safe"
                               /\ facts[f] = "entry" => f \in marked

(* Nothing is lost: a candidate that cannot raise, and from which calls lead to no   *)
(* other module and round no cycle, is marked, in whatever order the functions    *)
(* are defined.                                                               *)
Callees(f) == {Item(s).to : s \in SitesOf({f})}
Reaches(f, g) ==
    \A S \in SUBSET Fun : Callees(f) \subseteq S /\ (\A h \in S : Callees(h) \subseteq S) => g \in S
NothingLost ==
    phase # "done" /\ ~Busy /\ remaining = {} =>
       \A f \in Own(current) :
          /\ Eligible(f) /\ EntrySafe(f) /\ ~CanRaise(f)
          /\ \A g \in Fun : Reaches(f, g) => prog[g].mod = current /\ ~Reaches(g, g)
          => f \in marked
=============================================================================
