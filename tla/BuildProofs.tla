----------------------------- MODULE BuildProofs -----------------------------
(***************************************************************************)
(* Proofs about the dependency tree of cythonize() and about the builds that*)
(* use its answers.                                                         *)
(***************************************************************************)
EXTENDS Build, DependencyTree, TLAPS

(***************************************************************************)
(* all_dependencies() is exact for every set of files, every cimport graph  *)
(* and every sequence of questions.                                        *)
(*                                                                         *)
(* The heart of the invariant is Partial: what a running call has merged is *)
(* closed under cimports except at the files of the stack that its "loop"   *)
(* still admits to.  When no loop is left the result is closed, so it holds *)
(* everything reachable, and may be cached.                                *)
(***************************************************************************)

(* A call for f is in progress.                                               *)
Running(f) == depth[f] > 0

(* The calls in progress form one chain of cimports that ends at cur.        *)
Chain ==
    /\ cur = NoFile => \A f \in Files : depth[f] = 0
    /\ cur # NoFile => Running(cur) /\ \A f \in Files : depth[f] <= depth[cur]
    /\ \A f, g \in Files : Running(f) /\ depth[f] = depth[g] => f = g

(* Every running call but the first was made for a cimport of its caller's    *)
(* file.                                                                      *)
Callers ==
    \A f \in Files :
        Running(f) =>
            /\ f \notin seen[Kind]
            /\ todo[f] \subseteq cimports[f]
            /\ caller[f] = NoFile => depth[f] = 1 /\ f = request.file
            /\ caller[f] # NoFile => /\ Running(caller[f])
                                     /\ depth[f] = depth[caller[f]] + 1
                                     /\ f \in cimports[caller[f]]

(* A loop leads to a call that is still running, the node's own or an outer. *)
Loops ==
    \A f \in Files :
        /\ ~Running(f) => loop[f] = NoFile
        /\ Running(f) /\ loop[f] # NoFile => Running(loop[f]) /\ depth[loop[f]] <= depth[f]

(* What is asked of the tree at which stage of the walk.                      *)
Asked ==
    /\ NothingAsked => cur = NoFile
    /\ ~NothingAsked => request.file \in Files
    /\ ~NothingAsked /\ cur = NoFile => request.file \in seen[Kind]

(* Nothing is merged that is not reachable; what is cached is closed under    *)
(* cimports.                                                                  *)
Sound == \A f \in Files : value[Deps][f] \subseteq Reach(f)

Cached == \A f \in seen[Deps] : f \in value[Deps][f] /\ Closed(value[Deps][f])

(* The node m on the stack, merged into the result for f, is one that the loop
   of f admits to.                                                            *)
Admitted(f, m) ==
    Running(m) /\ depth[m] <= depth[f] /\ loop[f] # NoFile /\ depth[loop[f]] <= depth[m]

(* The call for f has walked over S: S is closed under cimports but at the      *)
(* files it still has to visit and at the calls its loop admits to.            *)
Walked(f, S) ==
    /\ f \in S
    /\ \A m \in S : m = f \/ cimports[m] \subseteq S \/ Admitted(f, m)
    /\ \A c \in cimports[f] \ todo[f] : c \in S \/ (Running(c) /\ caller[c] = f)

Partial ==
    Kind = Deps => \A f \in Files : Running(f) => Walked(f, value[Deps][f])

AnswerExact ==
    (answer.request.kind = Deps /\ answer.request.file # NoFile)
        => answer.from = Reach(answer.request.file)

StackInv == /\ TypeOK
            /\ Chain
            /\ Callers
            /\ Loops
            /\ Asked

IInv == /\ StackInv
        /\ Sound
        /\ Cached
        /\ Partial
        /\ AnswerExact

-----------------------------------------------------------------------------
(* Reach(f) is the least closed set of files that holds f.                   *)

LEMMA ReachSelf == \A f \in Files : f \in Reach(f) /\ Reach(f) \subseteq Files
BY DEF Reach

LEMMA ReachStep ==
    ASSUME TypeOK, NEW f \in Files, NEW g \in Reach(f)
    PROVE  cimports[g] \subseteq Reach(f)
BY DEF Reach, Closed, TypeOK

LEMMA ReachTransitive ==
    ASSUME TypeOK, NEW f \in Files, NEW g \in Reach(f)
    PROVE  Reach(g) \subseteq Reach(f)
<1>1. Reach(f) \in SUBSET Files /\ Closed(Reach(f))
  BY ReachSelf, ReachStep DEF Closed
<1>2. QED
  BY <1>1 DEF Reach

LEMMA ReachLeast ==
    ASSUME NEW f \in Files, NEW S \in SUBSET Files, f \in S, Closed(S)
    PROVE  Reach(f) \subseteq S
BY DEF Reach

LEMMA ReachFixed ==
    ASSUME cimports' = cimports
    PROVE  /\ \A f \in Files : Reach(f)' = Reach(f)
           /\ \A S \in SUBSET Files : Closed(S)' = Closed(S)
BY DEF Reach, Closed

LEMMA InitInv == Init => IInv
<1> SUFFICES ASSUME Init PROVE IInv
  OBVIOUS
<1> USE DEF Init, NoRequest, NoAnswer, NothingAsked, Kind, Running, Kinds, Sources, Deps, Info
<1>1. TypeOK
  <2>1. value \in [Kinds -> [Files -> SUBSET Settings]]
    BY DEF Declared, Settings
  <2>2. QED
    BY <2>1 DEF TypeOK
<1>2. Chain
  BY DEF Chain
<1>3. Callers /\ Loops /\ Asked
  BY DEF Callers, Loops, Asked
<1>4. Sound /\ Cached
  BY DEF Sound, Cached
<1>5. Partial /\ AnswerExact
  BY DEF Partial, AnswerExact
<1>6. QED
  BY <1>1, <1>2, <1>3, <1>4, <1>5 DEF IInv, StackInv

LEMMA FileSettings == \A f \in Files : {f} \in SUBSET Settings
BY DEF Settings

(* Every step leaves values of the expected kinds.                           *)
LEMMA TypeStep == TypeOK /\ Asked /\ [Next]_vars => TypeOK'
<1> SUFFICES ASSUME TypeOK, Asked, [Next]_vars PROVE TypeOK'
  OBVIOUS
<1> USE NoneAssumption DEF TypeOK, project, locals, kept, Kinds, Sources
<1>1. ASSUME NEW kind \in Kinds, NEW f \in Files, NEW e \in Sources, AskCached(kind, f, e)
      PROVE TypeOK'
  BY <1>1 DEF AskCached, Ask, NoAnswer, NoRequest
<1>2. ASSUME NEW kind \in Kinds, NEW f \in Files, NEW e \in Sources, AskNew(kind, f, e)
      PROVE TypeOK'
  BY <1>2, FileSettings DEF AskNew, Ask, Enter, NoAnswer, NoRequest, Deps
<1>3. ASSUME cur # NoFile, NEW n \in todo[cur], VisitCached(n)
      PROVE TypeOK'
  BY <1>3 DEF VisitCached, Merge, Kind
<1>4. ASSUME cur # NoFile, NEW n \in todo[cur], VisitOnStack(n)
      PROVE TypeOK'
  BY <1>4, FileSettings DEF VisitOnStack, Merge, Extract, Shallower, Kind, Info
<1>5. ASSUME cur # NoFile, NEW n \in todo[cur], VisitNew(n)
      PROVE TypeOK'
  BY <1>5, FileSettings DEF VisitNew, Enter, Kind, Deps
<1>6. ASSUME cur # NoFile, NEW n \in todo[cur], VisitFails(n)
      PROVE TypeOK'
  BY <1>6 DEF VisitFails, NoRequest, Deps
<1>7. CASE ReturnToCaller
  <2> DEFINE c == caller[cur]
             kept1 == IF Kind = Deps /\ OpenLoop(cur) # NoFile THEN {} ELSE value[Kind][cur]
  <2>1. cur \in Files /\ c \in Files /\ Kind \in Kinds /\ OpenLoop(cur) \in Files \union {NoFile}
    BY <1>7 DEF ReturnToCaller, OpenLoop, Kind
  <2>2. value' = [value EXCEPT ![Kind][c] = @ \union value[Kind][cur], ![Kind][cur] = kept1]
    BY <1>7 DEF ReturnToCaller
  <2>3. kept1 \in SUBSET Settings
    BY <2>1
  <2> HIDE DEF kept1
  <2>4. value' \in [Kinds -> [Files -> SUBSET Settings]]
    <3> DEFINE row == [value[Kind] EXCEPT ![c] = @ \union value[Kind][cur], ![cur] = kept1]
    <3>1. row \in [Files -> SUBSET Settings]
      BY <2>1, <2>3
    <3>2. value' = [value EXCEPT ![Kind] = row]
      BY <2>1, <2>2
    <3> HIDE DEF row
    <3>3. QED
      BY <2>1, <3>1, <3>2
  <2>5. loop' \in [Files -> Files \union {NoFile}]
    BY <1>7, <2>1 DEF ReturnToCaller, Shallower
  <2>6. seen' \in [Kinds -> SUBSET Files] /\ depth' \in [Files -> Nat]
    BY <1>7, <2>1 DEF ReturnToCaller, Leave
  <2>7. caller' \in [Files -> Files \union {NoFile}] /\ cur' \in Files \union {NoFile}
    BY <1>7, <2>1 DEF ReturnToCaller, Leave
  <2>8. pythran' \in [Files -> SUBSET Files]
    BY <1>7, <2>1 DEF ReturnToCaller
  <2>9. QED
    BY <1>7, <2>4, <2>5, <2>6, <2>7, <2>8 DEF ReturnToCaller
<1>8. CASE ReturnToUser
  BY <1>8 DEF ReturnToUser, Leave, OpenLoop, Kind
<1>9. CASE AnswerDeps
  BY <1>9 DEF AnswerDeps, NoRequest, NothingAsked, Asked, Kind, Deps
<1>10. CASE AnswerInfo
  <2> DEFINE merged == Resolved(value[Info][request.file]
                                   \union (IF request.ext = NoExt THEN {} ELSE {request.ext}))
  <2>1. merged \in SUBSET Settings
    BY <1>10 DEF AnswerInfo, Resolved, Settings, NothingAsked, Asked
  <2>2. /\ value' = [value EXCEPT ![Info][request.file] = merged]
        /\ answer'.from = merged
    BY <1>10 DEF AnswerInfo
  <2> HIDE DEF merged
  <2>3. value' \in [Kinds -> [Files -> SUBSET Settings]]
    BY <2>1, <2>2
  <2>4. request.file \in Files /\ request.ext \in Sources /\ request \in [kind : Kinds, file : Files, ext : Sources]
    BY <1>10 DEF AnswerInfo, NothingAsked, Asked
  <2>5. answer' = [request |-> request, from |-> merged,
                   own |-> IF own[request.file] = NoExt THEN request.ext ELSE own[request.file],
                   pythran |-> pythran[request.file], before |-> given]
    BY <1>10 DEF AnswerInfo, merged
  <2>6. /\ own' \in [Files -> Exts \union {NoExt}]
        /\ pythran' \in [Files -> SUBSET Files]
        /\ given' \in SUBSET Files
    BY <1>10, <2>4 DEF AnswerInfo
  <2>7. answer' \in [request : [kind : Kinds, file : Files \union {NoFile}, ext : Sources],
                     from : SUBSET Settings, own : Sources,
                     pythran : SUBSET Files, before : SUBSET Files]
    BY <2>1, <2>4, <2>5
  <2>8. request' \in [kind : Kinds, file : Files \union {NoFile}, ext : Sources]
    BY <1>10 DEF AnswerInfo, NoRequest, Deps
  <2>9. QED
    BY <1>10, <2>3, <2>6, <2>7, <2>8 DEF AnswerInfo
<1>11. CASE UNCHANGED vars
  BY <1>11 DEF vars
<1>12. QED
  BY <1>1, <1>2, <1>3, <1>4, <1>5, <1>6, <1>7, <1>8, <1>9, <1>10, <1>11 DEF Next, Visit

-----------------------------------------------------------------------------
(* The stack part of the invariant, which says nothing about the results.    *)

(* A call for n begins, from the call cur or from outside.                    *)
LEMMA EnterStack ==
    ASSUME StackInv, TypeOK', NEW n \in Files, Enter(n),
           n \notin seen[Kind]', depth[n] = 0,
           todo'[n] = cimports[n],
           \A f \in Files \ {n} : todo'[f] \subseteq todo[f],
           cimports' = cimports,
           request'.file \in Files, ~NothingAsked',
           cur = NoFile => n = request'.file,
           cur # NoFile => n \in todo[cur] /\ request' = request
    PROVE  Chain' /\ Callers' /\ Loops' /\ Asked'
<1> USE NoneAssumption DEF StackInv, TypeOK, Enter, Running
<1>1. Chain'
  BY DEF Chain
<1>2. Callers'
  <2> SUFFICES ASSUME NEW f \in Files, depth'[f] > 0
               PROVE  /\ f \notin seen'[Kind']
                      /\ todo'[f] \subseteq cimports'[f]
                      /\ caller'[f] = NoFile => depth'[f] = 1 /\ f = request'.file
                      /\ caller'[f] # NoFile => /\ depth'[caller'[f]] > 0
                                                /\ depth'[f] = depth'[caller'[f]] + 1
                                                /\ f \in cimports'[caller'[f]]
    BY DEF Callers
  <2>1. CASE f = n
    BY <2>1 DEF Callers, Chain
  <2>2. CASE f # n
    <3>1. cur # NoFile /\ depth[f] > 0 /\ request' = request /\ seen' = seen
      BY <2>2 DEF Chain
    <3>2. Kind' = Kind
      BY <3>1 DEF Kind
    <3>3. QED
      BY <2>2, <3>1, <3>2 DEF Callers
  <2>3. QED
    BY <2>1, <2>2
<1>3. Loops'
  BY DEF Loops, Chain
<1>4. Asked'
  BY DEF Asked
<1>5. QED
  BY <1>1, <1>2, <1>3, <1>4

(* A call ends: the loop it reports leads to a call that is still running.    *)
LEMMA OpenLoopAbove ==
    ASSUME StackInv, cur # NoFile, OpenLoop(cur) # NoFile
    PROVE  /\ OpenLoop(cur) = loop[cur]
           /\ loop[cur] \in Files
           /\ Running(loop[cur])
           /\ depth[loop[cur]] < depth[cur]
           /\ loop[cur] # cur
           /\ caller[cur] # NoFile
<1> USE NoneAssumption DEF StackInv, TypeOK, Running
<1>1. loop[cur] \in Files /\ loop[cur] # cur /\ OpenLoop(cur) = loop[cur] /\ cur \in Files
  BY DEF OpenLoop
<1>2. Running(cur)
  BY DEF Chain
<1>3. Running(loop[cur]) /\ depth[loop[cur]] <= depth[cur]
  BY <1>1, <1>2 DEF Loops
<1>4. depth[loop[cur]] # depth[cur]
  BY <1>1, <1>2, <1>3 DEF Chain
<1>5. caller[cur] # NoFile
  BY <1>1, <1>2, <1>3, <1>4 DEF Callers
<1>6. depth[loop[cur]] \in Nat /\ depth[cur] \in Nat
  BY <1>1
<1> HIDE DEF StackInv, TypeOK
<1>7. QED
  BY <1>1, <1>3, <1>4, <1>5, <1>6

(* No running call is deeper than cur, or as deep.                            *)
LEMMA Shallowest ==
    ASSUME StackInv, cur # NoFile
    PROVE  /\ cur \in Files /\ depth[cur] \in Nat /\ depth[cur] > 0
           /\ \A f \in Files : depth[f] \in Nat /\ (f # cur => depth[f] < depth[cur])
<1>1. cur \in Files /\ depth[cur] \in Nat /\ depth[cur] > 0
  BY DEF StackInv, TypeOK, Chain, Running
<1>2. ASSUME NEW f \in Files, f # cur
      PROVE depth[f] \in Nat /\ depth[f] < depth[cur]
  <2>1. depth[f] \in Nat /\ depth[f] <= depth[cur]
    BY <1>1 DEF StackInv, TypeOK, Chain
  <2>2. depth[f] # depth[cur]
    BY <1>1, <1>2 DEF StackInv, Chain, Running
  <2>3. QED
    BY <1>1, <2>1, <2>2
<1>3. QED
  BY <1>1, <1>2

LEMMA StackStep == StackInv /\ [Next]_vars => StackInv'
<1> SUFFICES ASSUME StackInv, [Next]_vars PROVE StackInv'
  OBVIOUS
<1> USE NoneAssumption DEF project, locals, kept
<1>0. TypeOK'
  BY TypeStep DEF StackInv
<1>1. ASSUME NEW kind \in Kinds, NEW f \in Files, NEW e \in Sources, AskCached(kind, f, e)
      PROVE Chain' /\ Callers' /\ Loops' /\ Asked'
  BY <1>1 DEF AskCached, Ask, StackInv, Chain, Callers, Loops, Asked, Kind, Running, NothingAsked, NoRequest
<1>2. ASSUME NEW kind \in Kinds, NEW f \in Files, NEW e \in Sources, AskNew(kind, f, e)
      PROVE Chain' /\ Callers' /\ Loops' /\ Asked'
  <2>1. cur = NoFile /\ Kind' = kind /\ request'.file = f /\ ~NothingAsked' /\ cimports' = cimports
    BY <1>2 DEF AskNew, Ask, StackInv, Asked, Kind, NothingAsked, NoRequest
  <2>2. Enter(f) /\ f \notin seen'[kind] /\ depth[f] = 0 /\ todo'[f] = cimports[f]
        /\ \A g \in Files \ {f} : todo'[g] = todo[g]
    BY <1>2, <2>1 DEF AskNew, Enter, StackInv, TypeOK, Chain
  <2>3. QED
    BY <1>0, <2>1, <2>2, EnterStack
<1>3. ASSUME cur # NoFile, NEW n \in todo[cur], VisitCached(n)
      PROVE Chain' /\ Callers' /\ Loops' /\ Asked'
  BY <1>3 DEF VisitCached, StackInv, TypeOK, Chain, Callers, Loops, Asked, Kind, Running, NothingAsked, NoRequest
<1>4. ASSUME cur # NoFile, NEW n \in todo[cur], VisitOnStack(n)
      PROVE Chain' /\ Callers' /\ Loops' /\ Asked'
  <2>1. Chain' /\ Callers' /\ Asked'
    BY <1>4 DEF VisitOnStack, StackInv, TypeOK, Chain, Callers, Asked, Kind, Running, NothingAsked, NoRequest
  <2>2. Loops'
    BY <1>4 DEF VisitOnStack, Shallower, StackInv, TypeOK, Chain, Loops, Running
  <2>3. QED
    BY <2>1, <2>2
<1>5. ASSUME cur # NoFile, NEW n \in todo[cur], VisitNew(n)
      PROVE Chain' /\ Callers' /\ Loops' /\ Asked'
  <2>1. n \in Files /\ cur \in Files /\ n # cur
    BY <1>5 DEF VisitNew, StackInv, TypeOK, Chain, Running
  <2>2. request' = request /\ ~NothingAsked /\ request.file \in Files /\ cimports' = cimports
    BY <1>5 DEF VisitNew, StackInv, Asked
  <2>3. Kind' = Kind /\ ~NothingAsked' /\ seen' = seen
    BY <1>5, <2>2 DEF Kind, NothingAsked, VisitNew, NoRequest, Enter
  <2>4. todo'[n] = cimports[n] /\ \A g \in Files \ {n} : todo'[g] \subseteq todo[g]
    BY <1>5, <2>1 DEF VisitNew, StackInv, TypeOK
  <2>5. QED
    BY <1>0, <1>5, <2>1, <2>2, <2>3, <2>4, EnterStack DEF VisitNew
<1>6. ASSUME cur # NoFile, NEW n \in todo[cur], VisitFails(n)
      PROVE Chain' /\ Callers' /\ Loops' /\ Asked'
  BY <1>6 DEF VisitFails, Chain, Callers, Loops, Asked, Running, NothingAsked, NoRequest
<1>7. ASSUME ReturnToCaller
      PROVE Chain' /\ Callers' /\ Loops' /\ Asked'
  <2> DEFINE c == caller[cur]
  <2>1. cur \in Files /\ c \in Files /\ Running(cur) /\ Running(c) /\ depth[cur] = depth[c] + 1 /\ c # cur
    BY <1>7 DEF ReturnToCaller, StackInv, TypeOK, Chain, Callers, Running
  <2>2. request' = request /\ Kind' = Kind /\ ~NothingAsked /\ ~NothingAsked' /\ todo' = todo /\ cimports' = cimports
    BY <1>7 DEF ReturnToCaller, Kind, NothingAsked, StackInv, Asked, NoRequest
  <2>3. cur' = c /\ depth' = [depth EXCEPT ![cur] = 0] /\ caller' = [caller EXCEPT ![cur] = NoFile]
    BY <1>7 DEF ReturnToCaller, Leave
  <2>4. Chain'
    <3>1. \A f \in Files : f # cur => depth[f] <= depth[c]
      BY <1>7, <2>1, Shallowest DEF ReturnToCaller
    <3>2. QED
      BY <2>1, <2>3, <3>1 DEF StackInv, TypeOK, Chain, Running
  <2>5. \A f \in Files : Running(f)' => Running(f) /\ f # cur /\ caller[f] # cur
    BY <2>1, <2>3 DEF StackInv, TypeOK, Chain, Callers, Running
  <2>6. \A f \in Files : f # cur => (f \in seen'[Kind] <=> f \in seen[Kind])
    BY <1>7, <2>1 DEF ReturnToCaller, Leave, StackInv, TypeOK, Kind
  <2>7. Callers'
    <3> SUFFICES ASSUME NEW f \in Files, Running(f)'
                 PROVE  /\ f \notin seen'[Kind]
                        /\ todo[f] \subseteq cimports[f]
                        /\ caller'[f] = NoFile => depth'[f] = 1 /\ f = request.file
                        /\ caller'[f] # NoFile => /\ depth'[caller'[f]] > 0
                                                  /\ depth'[f] = depth'[caller'[f]] + 1
                                                  /\ f \in cimports[caller'[f]]
      BY <2>2 DEF Callers, Running
    <3>1. Running(f) /\ f # cur /\ caller[f] # cur
      BY <2>5
    <3>2. depth'[f] = depth[f] /\ caller'[f] = caller[f]
      BY <2>1, <2>3, <3>1 DEF StackInv, TypeOK
    <3>3. caller[f] # NoFile => depth'[caller[f]] = depth[caller[f]]
      BY <2>1, <2>3, <3>1 DEF StackInv, TypeOK
    <3>4. QED
      BY <2>6, <3>1, <3>2, <3>3 DEF StackInv, Callers, Running
  <2>8. \A f \in Files : f # cur /\ f # c => loop'[f] = loop[f]
    BY <1>7, <2>1 DEF ReturnToCaller, StackInv, TypeOK
  <2>9. loop'[cur] = NoFile
    BY <1>7, <2>1 DEF ReturnToCaller, StackInv, TypeOK
  <2>10. loop'[c] = NoFile \/ (/\ loop'[c] \in Files /\ loop'[c] # cur /\ Running(loop'[c])
                              /\ depth[loop'[c]] <= depth[c])
    <3>1. loop'[c] \in {loop[c], OpenLoop(cur)}
      BY <1>7, <2>1 DEF ReturnToCaller, StackInv, TypeOK, Shallower
    <3>2. CASE loop'[c] = loop[c]
      BY <2>1, <3>2 DEF StackInv, TypeOK, Loops, Running
    <3>3. CASE loop'[c] = OpenLoop(cur)
      BY <1>7, <2>1, <3>3, OpenLoopAbove DEF ReturnToCaller, StackInv, TypeOK, Running
    <3>4. QED
      BY <3>1, <3>2, <3>3
  <2>11. Loops'
    <3> SUFFICES ASSUME NEW f \in Files
                 PROVE  /\ ~Running(f)' => loop'[f] = NoFile
                        /\ Running(f)' /\ loop'[f] # NoFile
                              => depth'[loop'[f]] > 0 /\ depth'[loop'[f]] <= depth'[f]
      BY DEF Loops, Running
    <3>1. CASE f = cur
      BY <2>1, <2>3, <2>9, <3>1 DEF Running, StackInv, TypeOK
    <3>2. CASE f = c
      BY <2>1, <2>3, <2>10, <3>2 DEF Running, StackInv, TypeOK
    <3>3. CASE f # cur /\ f # c
      <4>1. loop'[f] = loop[f] /\ depth'[f] = depth[f]
        BY <2>1, <2>3, <2>8, <3>3 DEF StackInv, TypeOK
      <4>2. depth[f] < depth[cur]
        BY <1>7, <3>3, Shallowest DEF ReturnToCaller
      <4>3. QED
        BY <2>1, <2>3, <4>1, <4>2 DEF StackInv, TypeOK, Loops, Running
    <3>4. QED
      BY <3>1, <3>2, <3>3
  <2>12. Asked'
    BY <2>1, <2>2, <2>3 DEF StackInv, Asked
  <2>13. QED
    BY <2>4, <2>7, <2>11, <2>12
<1>8. ASSUME ReturnToUser
      PROVE Chain' /\ Callers' /\ Loops' /\ Asked'
  <2>1. cur \in Files /\ depth[cur] = 1 /\ cur = request.file
    BY <1>8 DEF ReturnToUser, StackInv, TypeOK, Chain, Callers, Running
  <2>2. \A f \in Files : f # cur => depth[f] = 0
    BY <1>8, <2>1, Shallowest DEF ReturnToUser
  <2>3. cur' = NoFile /\ depth' = [depth EXCEPT ![cur] = 0] /\ loop' = [loop EXCEPT ![cur] = NoFile]
        /\ request' = request
    BY <1>8 DEF ReturnToUser, Leave
  <2>4. cur \in seen'[Kind] /\ Kind' = Kind
    BY <1>8, <2>1, OpenLoopAbove DEF ReturnToUser, Leave, Kind, StackInv, TypeOK
  <2>5. Chain' /\ Callers'
    BY <2>1, <2>2, <2>3 DEF Chain, Callers, Running, StackInv, TypeOK
  <2>6. Loops'
    BY <2>1, <2>2, <2>3 DEF Loops, Running, StackInv, TypeOK
  <2>7. Asked'
    BY <2>1, <2>3, <2>4 DEF Asked, NothingAsked, NoRequest, Kind
  <2>8. QED
    BY <2>5, <2>6, <2>7
<1>9. ASSUME AnswerDeps \/ AnswerInfo
      PROVE Chain' /\ Callers' /\ Loops' /\ Asked'
  BY <1>9 DEF AnswerDeps, AnswerInfo, StackInv, TypeOK, Chain, Callers, Loops, Asked, Running, NothingAsked, NoRequest
<1>10. ASSUME UNCHANGED vars
       PROVE Chain' /\ Callers' /\ Loops' /\ Asked'
  BY <1>10 DEF vars, StackInv, Chain, Callers, Loops, Asked, Running, NothingAsked, Kind, NoRequest
<1>11. QED
  BY <1>0, <1>1, <1>2, <1>3, <1>4, <1>5, <1>6, <1>7, <1>8, <1>9, <1>10 DEF Next, Visit, StackInv

-----------------------------------------------------------------------------
(* How far a walk has come, whatever is merged on the way.                    *)

(* A call that returns has walked over something closed, but for the calls     *)
(* that its loop admits to.                                                   *)
LEMMA ReturnedWalk ==
    ASSUME StackInv, cur # NoFile, todo[cur] = {}, NEW S \in SUBSET Files, Walked(cur, S)
    PROVE  \A m \in S : \/ cimports[m] \subseteq S
                        \/ OpenLoop(cur) # NoFile /\ m # cur /\ Admitted(cur, m)
<1>1. cur \in Files /\ Running(cur) /\ depth[cur] \in Nat
      /\ \A f \in Files : depth[f] \in Nat /\ (f # cur => depth[f] < depth[cur])
  BY Shallowest DEF Running
<1>2. cimports[cur] \subseteq S
  <2> SUFFICES ASSUME NEW c \in cimports[cur] PROVE c \in S
    OBVIOUS
  <2>1. c \in Files
    BY <1>1 DEF StackInv, TypeOK
  <2>2. CASE Running(c) /\ caller[c] = cur
    <3>1. depth[c] = depth[cur] + 1
      BY <1>1, <2>1, <2>2, NoneAssumption DEF StackInv, Callers
    <3>2. QED
      BY <1>1, <2>1, <3>1
  <2>3. QED
    BY <2>2 DEF Walked
<1>3. ASSUME NEW m \in S, m # cur, Admitted(cur, m)
      PROVE  OpenLoop(cur) # NoFile
  <2>1. m \in Files /\ depth[m] < depth[cur]
    BY <1>1, <1>3
  <2>2. loop[cur] # cur /\ loop[cur] # NoFile
    BY <1>1, <1>3, <2>1 DEF Admitted
  <2>3. QED
    BY <2>2 DEF OpenLoop
<1>4. QED
  BY <1>2, <1>3 DEF Walked

LEMMA ReturnedReach ==
    ASSUME StackInv, cur # NoFile, todo[cur] = {}, OpenLoop(cur) = NoFile,
           NEW S \in SUBSET Files, Walked(cur, S)
    PROVE  cur \in S /\ Closed(S) /\ Reach(cur) \subseteq S
<1>1. cur \in S /\ Closed(S) /\ cur \in Files
  BY ReturnedWalk DEF Closed, Walked
<1>2. QED
  BY <1>1, ReachLeast

(* The walk meets a file it has a result for, or is in the middle of.         *)
LEMMA VisitWalk ==
    ASSUME StackInv, cur # NoFile, NEW n \in todo[cur], VisitCached(n) \/ VisitOnStack(n),
           NEW f \in Files, Running(f), NEW S \in SUBSET Files, Walked(f, S),
           NEW W \in SUBSET Files, n \in W,
           \A m \in W : IF n \in seen[Kind] THEN cimports[m] \subseteq W ELSE m = n
    PROVE  /\ f # cur => Walked(f, S)'
           /\ f = cur => Walked(f, S \union W)'
<1>1. Running(cur) /\ cur \in Files /\ n \in cimports[cur] /\ n \in Files /\ cur \notin seen[Kind]
  BY DEF StackInv, TypeOK, Chain, Callers
<1>2. /\ cimports' = cimports /\ depth' = depth /\ caller' = caller
      /\ todo' = [todo EXCEPT ![cur] = @ \ {n}]
  BY DEF VisitCached, VisitOnStack, Merge, project
<1>3. \A g \in Files : g # cur => loop'[g] = loop[g]
  BY <1>1 DEF VisitCached, VisitOnStack, StackInv, TypeOK
<1>4. /\ loop[cur] # NoFile => loop'[cur] # NoFile /\ depth[loop'[cur]] <= depth[loop[cur]]
      /\ n \notin seen[Kind] => /\ loop'[cur] # NoFile /\ depth[loop'[cur]] <= depth[n]
                                /\ Running(n) /\ depth[n] <= depth[cur]
  <2>1. CASE n \in seen[Kind]
    <3>1. loop' = loop
      BY <2>1 DEF VisitCached, VisitOnStack
    <3>2. loop[cur] # NoFile => depth[loop[cur]] \in Nat
      BY <1>1 DEF StackInv, TypeOK
    <3>3. QED
      BY <2>1, <3>1, <3>2
  <2>2. CASE n \notin seen[Kind]
    <3>1. loop'[cur] = Shallower(loop[cur], n) /\ depth[n] > 0
      BY <1>1, <2>2 DEF VisitCached, VisitOnStack, StackInv, TypeOK
    <3>2. depth[n] \in Nat /\ depth[n] <= depth[cur] /\ (loop[cur] # NoFile => depth[loop[cur]] \in Nat)
      BY <1>1 DEF StackInv, TypeOK, Chain
    <3>3. n # NoFile
      BY <1>1, NoneAssumption
    <3>4. QED
      BY <2>2, <3>1, <3>2, <3>3 DEF Shallower, Running
  <2>3. QED
    BY <2>1, <2>2
<1>5. CASE f # cur
  <2>1. loop'[f] = loop[f] /\ todo'[f] = todo[f]
    BY <1>1, <1>2, <1>3, <1>5 DEF StackInv, TypeOK
  <2>2. \A m : Admitted(f, m)' = Admitted(f, m)
    BY <1>2, <2>1 DEF Admitted, Running
  <2>3. QED
    BY <1>2, <1>5, <2>1, <2>2 DEF Walked, Running
<1>6. CASE f = cur
  <2>1. todo'[cur] = todo[cur] \ {n}
    BY <1>1, <1>2 DEF StackInv, TypeOK
  <2>2. \A m \in S : Admitted(cur, m) => Admitted(f, m)'
    <3> SUFFICES ASSUME NEW m \in S, Admitted(cur, m) PROVE Admitted(f, m)'
      OBVIOUS
    <3>1. loop'[cur] \in Files \union {NoFile}
      BY <1>1 DEF VisitCached, VisitOnStack, Shallower, StackInv, TypeOK
    <3>2. /\ depth[m] \in Nat /\ loop[cur] \in Files /\ depth[loop[cur]] \in Nat
          /\ loop'[cur] \in Files /\ depth[loop'[cur]] \in Nat
      BY <1>1, <1>4, <3>1 DEF Admitted, StackInv, TypeOK
    <3>3. QED
      BY <1>2, <1>4, <1>6, <3>2 DEF Admitted, Running
  <2>3. \A m \in W : cimports[m] \subseteq W \/ Admitted(f, m)'
    BY <1>2, <1>4, <1>6 DEF Admitted, Running
  <2>4. \A m \in S \union W : m = cur \/ cimports[m] \subseteq S \union W \/ Admitted(f, m)'
    BY <1>6, <2>2, <2>3 DEF Walked
  <2>5. \A d \in cimports[cur] \ todo'[cur] :
            d \in S \union W \/ (Running(d) /\ caller[d] = cur)
    BY <1>6, <2>1 DEF Walked
  <2>6. cur \in S
    BY <1>6 DEF Walked
  <2>7. Walked(f, S \union W)'
    BY <1>2, <1>6, <2>4, <2>5, <2>6 DEF Walked, Running
  <2>8. QED
    BY <1>6, <2>7
<1>7. QED
  BY <1>5, <1>6

(* The walk enters a new file.                                                *)
LEMMA NewWalk ==
    ASSUME StackInv, cur # NoFile, NEW n \in todo[cur], VisitNew(n),
           NEW f \in Files, NEW S \in SUBSET Files
    PROVE  /\ Walked(n, {n})'
           /\ Running(f)' /\ f # n => Running(f)
           /\ Running(f) /\ Walked(f, S) => Walked(f, S)'
<1>1. Running(cur) /\ cur \in Files /\ n \in cimports[cur] /\ n \in Files /\ n # cur
      /\ ~Running(n) /\ n \notin seen[Kind]
  BY DEF VisitNew, StackInv, TypeOK, Chain, Callers, Running
<1>2. /\ cimports' = cimports
      /\ depth' = [depth EXCEPT ![n] = depth[cur] + 1]
      /\ caller' = [caller EXCEPT ![n] = cur]
      /\ loop' = [loop EXCEPT ![n] = NoFile]
      /\ todo' = [todo EXCEPT ![cur] = @ \ {n}, ![n] = cimports[n]]
  BY DEF VisitNew, Enter, project
<1>3. Walked(n, {n})'
  BY <1>1, <1>2 DEF Walked, StackInv, TypeOK
<1>4. Running(f)' /\ f # n => Running(f)
  BY <1>1, <1>2 DEF StackInv, TypeOK, Running
<1>5. ASSUME Running(f), Walked(f, S) PROVE Walked(f, S)'
  <2>1. f # n /\ loop'[f] = loop[f] /\ depth'[f] = depth[f]
    BY <1>1, <1>2, <1>5 DEF StackInv, TypeOK, Running
  <2>2. \A m \in Files : Running(m) => Running(m)' /\ depth'[m] = depth[m] /\ caller'[m] = caller[m]
    BY <1>1, <1>2 DEF StackInv, TypeOK, Running
  <2>3. loop[f] # NoFile => loop[f] \in Files /\ Running(loop[f])
    BY <1>5 DEF StackInv, TypeOK, Loops
  <2>4. \A m \in S : Admitted(f, m) => Admitted(f, m)'
    BY <2>1, <2>2, <2>3 DEF Admitted
  <2>5. f # cur => todo'[f] = todo[f]
    BY <1>1, <1>2, <2>1 DEF StackInv, TypeOK
  <2>6. f = cur => todo'[f] = todo[f] \ {n} /\ caller'[n] = f /\ Running(n)'
    BY <1>1, <1>2 DEF StackInv, TypeOK, Running
  <2>7. cimports[f] \subseteq Files
    BY DEF StackInv, TypeOK
  <2>8. \A d \in cimports'[f] \ todo'[f] : d \in S \/ (Running(d)' /\ caller'[d] = f)
    BY <1>2, <1>5, <2>2, <2>5, <2>6, <2>7 DEF Walked
  <2>9. QED
    BY <1>2, <1>5, <2>4, <2>8 DEF Walked
<1>6. QED
  BY <1>3, <1>4, <1>5

(* A call returns to its caller, which takes over what it has walked.         *)
LEMMA ReturnWalk ==
    ASSUME StackInv, ReturnToCaller,
           NEW f \in Files, Running(f)', NEW S \in SUBSET Files, Walked(f, S),
           NEW W \in SUBSET Files, Walked(cur, W)
    PROVE  /\ f # cur /\ Running(f)
           /\ f # caller[cur] => Walked(f, S)'
           /\ f = caller[cur] => Walked(f, S \union W)'
<1> DEFINE c == caller[cur]
<1>1. /\ cur \in Files /\ c \in Files /\ Running(cur) /\ Running(c) /\ c # cur /\ cur # NoFile
      /\ depth[cur] = depth[c] + 1 /\ cur \in cimports[c] /\ todo[cur] = {}
  BY DEF ReturnToCaller, StackInv, TypeOK, Chain, Callers, Running
<1>2. /\ cimports' = cimports /\ todo' = todo /\ depth' = [depth EXCEPT ![cur] = 0]
      /\ caller' = [caller EXCEPT ![cur] = NoFile]
  BY DEF ReturnToCaller, Leave, project
<1>3. \A g \in Files : depth[g] \in Nat /\ (g # cur => depth[g] < depth[cur])
  BY <1>1, Shallowest
<1>4. cur \in W /\ \A m \in W : \/ cimports[m] \subseteq W
                                \/ OpenLoop(cur) # NoFile /\ m # cur /\ Admitted(cur, m)
  BY <1>1, ReturnedWalk DEF Walked
<1> HIDE DEF c
<1>5. f # cur /\ Running(f) /\ depth'[f] = depth[f] /\ depth[f] < depth[cur]
  BY <1>1, <1>2, <1>3 DEF StackInv, TypeOK, Running
<1>6. \A m \in Files : m # cur => depth'[m] = depth[m] /\ caller'[m] = caller[m]
  BY <1>1, <1>2 DEF StackInv, TypeOK
<1>7. \A m \in Files : Admitted(f, m) => m # cur
  BY <1>3, <1>5 DEF Admitted
<1>8. cimports[f] \subseteq Files
  BY DEF StackInv, TypeOK
<1>9. CASE f # c
  <2>1. loop'[f] = loop[f]
    BY <1>1, <1>5, <1>9 DEF ReturnToCaller, StackInv, TypeOK, c
  <2>2. loop[f] # NoFile => loop[f] \in Files /\ depth[loop[f]] <= depth[f]
    BY <1>5 DEF StackInv, TypeOK, Loops
  <2>3. loop[f] # cur
    BY <1>1, <1>3, <1>5, <2>2
  <2>4. \A m \in Files : Admitted(f, m) => Admitted(f, m)'
    BY <1>5, <1>6, <1>7, <2>1, <2>2, <2>3 DEF Admitted, Running
  <2>5. \A d \in Files : Running(d) /\ caller[d] = f => Running(d)' /\ caller'[d] = f
    BY <1>1, <1>6, <1>9 DEF Running, c
  <2>6. Walked(f, S)'
    <3>1. \A d \in cimports'[f] \ todo'[f] : d \in S \/ (Running(d)' /\ caller'[d] = f)
      BY <1>2, <1>8, <2>5 DEF Walked
    <3>2. QED
      BY <1>2, <2>4, <3>1 DEF Walked
  <2>7. QED
    BY <1>5, <1>9, <2>6 DEF c
<1>10. CASE f = c
  <2>1. /\ loop[c] # NoFile => loop'[c] # NoFile /\ depth[loop'[c]] <= depth[loop[c]]
        /\ OpenLoop(cur) # NoFile => loop'[c] # NoFile /\ depth[loop'[c]] <= depth[loop[cur]]
        /\ loop'[c] \in Files \union {NoFile}
        /\ loop'[c] # NoFile => loop'[c] # cur
    <3>1. loop'[c] = IF OpenLoop(cur) = NoFile THEN loop[c] ELSE Shallower(loop[c], OpenLoop(cur))
      BY <1>1 DEF ReturnToCaller, StackInv, TypeOK, c
    <3>2. loop[c] # NoFile => loop[c] \in Files /\ depth[loop[c]] \in Nat /\ loop[c] # cur
      BY <1>1, <1>3 DEF StackInv, TypeOK, Loops
    <3>3. OpenLoop(cur) # NoFile => /\ OpenLoop(cur) = loop[cur] /\ loop[cur] # cur
                                    /\ loop[cur] \in Files /\ depth[loop[cur]] \in Nat
      BY <1>1, <1>3, OpenLoopAbove
    <3>4. QED
      BY <3>1, <3>2, <3>3 DEF Shallower
  <2>2. loop'[f] # NoFile => depth'[loop'[f]] = depth[loop'[f]] /\ depth[loop'[f]] \in Nat
    BY <1>3, <1>6, <1>10, <2>1
  <2>3. ASSUME NEW m \in Files, Admitted(f, m) PROVE Admitted(f, m)'
    <3>1. m # cur /\ depth'[m] = depth[m] /\ depth[m] \in Nat
      BY <1>3, <1>6, <1>7, <2>3
    <3>2. loop[f] # NoFile /\ depth[loop[f]] \in Nat
      BY <1>3, <2>3 DEF Admitted, StackInv, TypeOK
    <3>3. QED
      BY <1>5, <1>10, <2>1, <2>2, <2>3, <3>1, <3>2 DEF Admitted, Running
  <2>4. ASSUME NEW m \in Files, OpenLoop(cur) # NoFile, m # cur, Admitted(cur, m)
        PROVE Admitted(f, m)'
    <3>1. depth'[m] = depth[m] /\ depth[m] \in Nat /\ depth[m] < depth[cur]
      BY <1>3, <1>6, <2>4
    <3>2. depth[m] <= depth[f] /\ depth[loop[cur]] \in Nat
      BY <1>1, <1>3, <1>10, <2>4, <3>1 DEF Admitted, StackInv, TypeOK
    <3>3. QED
      BY <1>5, <1>10, <2>1, <2>2, <2>4, <3>1, <3>2 DEF Admitted, Running
  <2>5. \A m \in S \union W :
             m = f \/ cimports[m] \subseteq S \union W \/ Admitted(f, m)'
    BY <1>4, <2>3, <2>4 DEF Walked
  <2>6. \A d \in cimports[f] \ todo[f] :
             d \in S \union W \/ (Running(d)' /\ caller'[d] = f)
    <3> SUFFICES ASSUME NEW d \in cimports[f] \ todo[f], d # cur, Running(d), caller[d] = f
                 PROVE  Running(d)' /\ caller'[d] = f
      BY <1>4 DEF Walked
    <3>1. d \in Files
      BY <1>8
    <3>2. QED
      BY <1>6, <3>1 DEF Running
  <2>7. Walked(f, S \union W)'
    <3>1. f \in S
      BY DEF Walked
    <3>2. QED
      BY <1>2, <2>5, <2>6, <3>1 DEF Walked
  <2>8. QED
    BY <1>5, <1>10, <2>7 DEF c
<1>11. QED
  BY <1>9, <1>10

-----------------------------------------------------------------------------
(* The results of all_dependencies().                                         *)

(* Steps that leave the results alone.                                        *)
LEMMA SameResults ==
    ASSUME IInv, cimports' = cimports, value'[Deps] = value[Deps],
           seen'[Deps] = seen[Deps]
    PROVE  Sound' /\ Cached'
<1>1. Sound'
  BY ReachFixed DEF IInv, Sound
<1>2. Cached'
  <2> SUFFICES ASSUME NEW f \in seen[Deps]
               PROVE  f \in value[Deps][f] /\ Closed(value[Deps][f])'
    BY DEF Cached
  <2>1. f \in Files
    BY DEF IInv, StackInv, TypeOK, Kinds
  <2>2. value[Deps][f] \in SUBSET Files
    BY <2>1, ReachSelf DEF IInv, Sound
  <2>3. QED
    BY <2>2, ReachFixed DEF IInv, Cached, Closed
<1>3. QED
  BY <1>1, <1>2

LEMMA NobodyRuns == ASSUME \A f \in Files : depth'[f] = 0 PROVE Partial'
BY DEF Partial, Running

LEMMA AskResults ==
    ASSUME IInv, NEW kind \in Kinds, NEW f \in Files, NEW e \in Sources,
           AskCached(kind, f, e) \/ AskNew(kind, f, e)
    PROVE  Sound' /\ Cached' /\ Partial' /\ AnswerExact'
<1>1. AnswerExact' /\ cimports' = cimports /\ seen' = seen /\ Kind' = kind
  BY DEF AskCached, AskNew, Ask, Enter, kept, project, AnswerExact, NoAnswer, NoRequest, Kind
<1>2. cur = NoFile /\ \A g \in Files : depth[g] = 0
  BY DEF AskCached, AskNew, Ask, IInv, StackInv, Asked, Chain
<1>3. CASE AskCached(kind, f, e)
  <2>1. value' = value /\ depth' = depth
    BY <1>3 DEF AskCached, kept, locals
  <2>2. QED
    BY <1>1, <1>2, <2>1, SameResults, NobodyRuns
<1>4. CASE AskNew(kind, f, e) /\ kind = Info
  <2>1. value' = value
    BY <1>4 DEF AskNew, Deps, Info
  <2>2. Partial'
    BY <1>1, <1>4 DEF Partial, Deps, Info
  <2>3. QED
    BY <1>1, <2>1, <2>2, SameResults
<1>5. CASE AskNew(kind, f, e) /\ kind = Deps
  <2>1. value'[Deps] = [value[Deps] EXCEPT ![f] = {f}] /\ value[Deps] \in [Files -> SUBSET Settings]
    BY <1>5 DEF AskNew, IInv, StackInv, TypeOK, Kinds
  <2>2. f \notin seen[Deps]
    BY <1>5 DEF AskNew
  <2>3. \A g \in Files : value'[Deps][g] = IF g = f THEN {f} ELSE value[Deps][g]
    BY <2>1
  <2>4. Sound'
    BY <1>1, <2>3, ReachSelf, ReachFixed DEF IInv, Sound
  <2>5. Cached'
    <3> SUFFICES ASSUME NEW g \in seen[Deps]
                 PROVE  g \in value'[Deps][g] /\ Closed(value[Deps][g])'
      BY <1>1, <2>2, <2>3 DEF Cached, Closed, IInv, StackInv, TypeOK, Kinds
    <3>1. g \in Files /\ value'[Deps][g] = value[Deps][g]
      BY <2>2, <2>3 DEF IInv, StackInv, TypeOK, Kinds
    <3>2. value[Deps][g] \in SUBSET Files
      BY <3>1, ReachSelf DEF IInv, Sound
    <3>3. QED
      BY <1>1, <3>1, <3>2, ReachFixed DEF IInv, Cached, Closed
  <2>6. depth' = [depth EXCEPT ![f] = 1] /\ todo'[f] = cimports[f]
    BY <1>2, <1>5 DEF AskNew, Enter, IInv, StackInv, TypeOK
  <2>7. \A g \in Files : Running(g)' => g = f
    BY <1>2, <2>6 DEF Running, IInv, StackInv, TypeOK
  <2>8. Partial'
    BY <1>1, <2>3, <2>6, <2>7 DEF Partial, Walked
  <2>9. QED
    BY <1>1, <2>4, <2>5, <2>8
<1>6. QED
  BY <1>3, <1>4, <1>5 DEF Kinds

(* The running call c merges W, found along an outgoing node, into its result. *)
LEMMA MergeSoundCached ==
    ASSUME IInv, NEW c \in Files, NEW W, NEW g \in cimports[c],
           W \subseteq Reach(g),
           cimports' = cimports,
           \A f \in Files : value'[Deps][f] \subseteq value[Deps][f] \/
                               (f = c /\ value'[Deps][f] = value[Deps][f] \union W),
           \A f \in seen[Deps] : value'[Deps][f] = value[Deps][f]
    PROVE  Sound' /\ \A f \in seen[Deps] : f \in value'[Deps][f] /\ Closed(value[Deps][f])'
<1>1. Reach(g) \subseteq Reach(c)
  BY ReachSelf, ReachStep, ReachTransitive DEF IInv, StackInv
<1>2. Sound'
  BY <1>1, ReachFixed DEF IInv, Sound
<1>3. ASSUME NEW f \in seen[Deps]
      PROVE  f \in value'[Deps][f] /\ Closed(value[Deps][f])'
  <2>1. f \in Files
    BY DEF IInv, StackInv, TypeOK, Kinds
  <2>2. value[Deps][f] \in SUBSET Files /\ value'[Deps][f] = value[Deps][f]
    BY <2>1, ReachSelf DEF IInv, Sound
  <2>3. QED
    BY <2>2, ReachFixed DEF IInv, Cached, Closed
<1>4. QED
  BY <1>2, <1>3

LEMMA VisitResults ==
    ASSUME IInv, cur # NoFile, NEW n \in todo[cur], VisitCached(n) \/ VisitOnStack(n)
    PROVE  Sound' /\ Cached' /\ Partial' /\ AnswerExact'
<1> DEFINE W == IF n \in seen[Kind] THEN value[Kind][n] ELSE Extract(n)
<1>1. Running(cur) /\ cur \in Files /\ n \in cimports[cur] /\ n \in Files /\ cur \notin seen[Kind]
  BY DEF IInv, StackInv, TypeOK, Chain, Callers
<1>2. /\ cimports' = cimports /\ seen' = seen /\ depth' = depth /\ caller' = caller
      /\ request' = request /\ answer' = answer /\ Kind' = Kind /\ cur' = cur
      /\ todo' = [todo EXCEPT ![cur] = @ \ {n}]
      /\ value' = [value EXCEPT ![Kind][cur] = @ \union W]
  BY DEF VisitCached, VisitOnStack, Merge, project, Kind
<1>3. AnswerExact'
  BY <1>2, ReachFixed DEF IInv, AnswerExact, StackInv, TypeOK
<1>4. CASE Kind = Info
  <2>1. value'[Deps] = value[Deps]
    BY <1>2, <1>4 DEF Deps, Info, IInv, StackInv, TypeOK, Kinds
  <2>2. Partial'
    BY <1>2, <1>4 DEF Partial, Deps, Info
  <2>3. QED
    BY <1>2, <1>3, <2>1, <2>2, SameResults
<1>5. CASE Kind = Deps
  <2> HIDE DEF W
  <2>1. \A f \in Files : value'[Deps][f] = IF f = cur THEN value[Deps][cur] \union W ELSE value[Deps][f]
    BY <1>1, <1>2, <1>5 DEF IInv, StackInv, TypeOK, Kinds
  <2>2. W \subseteq Reach(n) /\ n \in W
    BY <1>1, <1>5, ReachSelf DEF W, Extract, Deps, Info, IInv, Sound, Cached
  <2>3. seen[Deps] \subseteq Files
    BY DEF IInv, StackInv, TypeOK, Kinds
  <2>4. Sound' /\ \A f \in seen[Deps] : f \in value'[Deps][f] /\ Closed(value[Deps][f])'
    <3>1. PICK c \in Files, V \in {W} : c = cur /\ V = W
      BY <1>1
    <3>2. QED
      BY <1>1, <1>2, <1>5, <2>1, <2>2, <2>3, <3>1, MergeSoundCached
  <2>5. Cached'
    BY <1>2, <2>4 DEF Cached
  <2>6. W \in SUBSET Files /\ \A m \in W : IF n \in seen[Kind] THEN cimports[m] \subseteq W ELSE m = n
    <3>1. W \in SUBSET Files
      BY <1>1, <2>2, ReachSelf
    <3>2. CASE n \in seen[Deps]
      BY <1>5, <3>1, <3>2 DEF W, IInv, Cached, Closed
    <3>3. CASE n \notin seen[Deps]
      BY <1>5, <3>1, <3>3 DEF W, Extract, Deps, Info
    <3>4. QED
      BY <3>2, <3>3
  <2>8. Partial'
    <3> SUFFICES ASSUME NEW f \in Files, Running(f) PROVE Walked(f, value[Deps][f])'
      BY <1>2 DEF Partial, Running
    <3>1. PICK S \in SUBSET Files : S = value[Deps][f]
      BY ReachSelf DEF IInv, Sound
    <3>2. PICK V \in SUBSET Files : V = W
      BY <2>6
    <3>3. Walked(f, S)
      BY <1>5, <3>1 DEF IInv, Partial
    <3>4. /\ f # cur => Walked(f, S)'
          /\ f = cur => Walked(f, S \union V)'
      BY <2>2, <2>6, <3>2, <3>3, VisitWalk DEF IInv
    <3>5. value'[Deps][f] = IF f = cur THEN S \union V ELSE S
      BY <2>1, <3>1, <3>2
    <3>6. QED
      BY <3>4, <3>5 DEF Walked
  <2>9. QED
    BY <1>3, <2>4, <2>5, <2>8
<1>6. QED
  BY <1>4, <1>5 DEF Kind, Kinds, IInv, StackInv, TypeOK

LEMMA NewResults ==
    ASSUME IInv, cur # NoFile, NEW n \in todo[cur], VisitNew(n)
    PROVE  Sound' /\ Cached' /\ Partial' /\ AnswerExact'
<1>1. Running(cur) /\ cur \in Files /\ n \in cimports[cur] /\ n \in Files /\ n # cur
      /\ ~Running(n) /\ n \notin seen[Kind]
  BY DEF VisitNew, IInv, StackInv, TypeOK, Chain, Callers, Running
<1>2. /\ cimports' = cimports /\ seen' = seen /\ request' = request /\ answer' = answer /\ Kind' = Kind
      /\ depth' = [depth EXCEPT ![n] = depth[cur] + 1]
      /\ caller' = [caller EXCEPT ![n] = cur]
      /\ loop' = [loop EXCEPT ![n] = NoFile]
      /\ todo' = [todo EXCEPT ![cur] = @ \ {n}, ![n] = cimports[n]]
      /\ value' = IF Kind = Deps THEN [value EXCEPT ![Deps][n] = {n}] ELSE value
  BY DEF VisitNew, Enter, project, Kind
<1>3. AnswerExact'
  BY <1>2, ReachFixed DEF IInv, AnswerExact, StackInv, TypeOK
<1>4. CASE Kind = Info
  <2>1. Partial'
    BY <1>2, <1>4 DEF Partial, Deps, Info
  <2>2. QED
    BY <1>2, <1>3, <1>4, <2>1, SameResults DEF Deps, Info
<1>5. CASE Kind = Deps
  <2>1. \A f \in Files : value'[Deps][f] = IF f = n THEN {n} ELSE value[Deps][f]
    BY <1>1, <1>2, <1>5 DEF IInv, StackInv, TypeOK, Kinds
  <2>2. seen[Deps] \subseteq Files
    BY DEF IInv, StackInv, TypeOK, Kinds
  <2>3. Sound'
    BY <1>2, <2>1, ReachSelf, ReachFixed DEF IInv, Sound
  <2>4. Cached'
    <3> SUFFICES ASSUME NEW f \in seen[Deps]
                 PROVE  f \in value'[Deps][f] /\ Closed(value[Deps][f])'
      BY <1>2 DEF Cached
    <3>1. f \in Files /\ value'[Deps][f] = value[Deps][f]
      BY <1>1, <1>5, <2>1, <2>2
    <3>2. value[Deps][f] \in SUBSET Files
      BY <3>1, ReachSelf DEF IInv, Sound
    <3>3. QED
      BY <1>2, <3>1, <3>2, ReachFixed DEF IInv, Cached, Closed
  <2>5. Partial'
    <3> SUFFICES ASSUME NEW f \in Files, Running(f)' PROVE Walked(f, value[Deps][f])'
      BY <1>2 DEF Partial
    <3>1. PICK S \in SUBSET Files : S = value[Deps][f]
      BY ReachSelf DEF IInv, Sound
    <3>2. CASE f = n
      BY <1>1, <2>1, <3>2, NewWalk DEF IInv, Walked
    <3>3. CASE f # n
      <4>1. Running(f) /\ Walked(f, S)
        BY <1>5, <3>1, <3>3, NewWalk DEF IInv, Partial
      <4>2. Walked(f, S)' /\ value'[Deps][f] = S
        BY <2>1, <3>1, <3>3, <4>1, NewWalk DEF IInv
      <4>3. QED
        BY <4>2 DEF Walked
    <3>4. QED
      BY <3>2, <3>3
  <2>6. QED
    BY <1>3, <2>3, <2>4, <2>5
<1>6. QED
  BY <1>4, <1>5 DEF Kind, Kinds, IInv, StackInv, TypeOK

LEMMA FailResults ==
    ASSUME IInv, cur # NoFile, NEW n \in todo[cur], VisitFails(n)
    PROVE  Sound' /\ Cached' /\ Partial' /\ AnswerExact'
<1>1. cimports' = cimports /\ seen' = seen /\ answer' = answer /\ depth' = [f \in Files |-> 0]
  BY DEF VisitFails, project
<1>2. \A f \in Files : value'[Deps][f] = IF f \in seen[Deps] THEN value[Deps][f] ELSE {}
  BY DEF VisitFails, IInv, StackInv, TypeOK, Kinds
<1>3. AnswerExact' /\ Partial'
  BY <1>1, ReachFixed, NobodyRuns DEF IInv, AnswerExact, StackInv, TypeOK
<1>4. Sound'
  BY <1>1, <1>2, ReachFixed DEF IInv, Sound
<1>5. Cached'
  <2> SUFFICES ASSUME NEW f \in seen[Deps]
               PROVE  f \in value'[Deps][f] /\ Closed(value[Deps][f])'
    BY <1>1 DEF Cached
  <2>1. f \in Files /\ value'[Deps][f] = value[Deps][f]
    BY <1>2 DEF IInv, StackInv, TypeOK, Kinds
  <2>2. value[Deps][f] \in SUBSET Files
    BY <2>1, ReachSelf DEF IInv, Sound
  <2>3. QED
    BY <1>1, <2>1, <2>2, ReachFixed DEF IInv, Cached, Closed
<1>6. QED
  BY <1>3, <1>4, <1>5

(* A result goes back to the caller.                                          *)
LEMMA ReturnResults ==
    ASSUME IInv, ReturnToCaller
    PROVE  Sound' /\ Cached' /\ Partial' /\ AnswerExact'
<1> DEFINE c == caller[cur]
           W == value[Deps][cur]
<1>1. /\ cur \in Files /\ c \in Files /\ Running(cur) /\ Running(c) /\ c # cur /\ cur # NoFile
      /\ depth[cur] = depth[c] + 1 /\ cur \in cimports[c] /\ todo[cur] = {}
      /\ cur \notin seen[Kind] /\ c \notin seen[Kind]
  BY DEF ReturnToCaller, IInv, StackInv, TypeOK, Chain, Callers, Running
<1>2. /\ cimports' = cimports /\ request' = request /\ answer' = answer /\ Kind' = Kind
      /\ todo' = todo /\ depth' = [depth EXCEPT ![cur] = 0]
      /\ caller' = [caller EXCEPT ![cur] = NoFile]
      /\ seen' = IF OpenLoop(cur) = NoFile THEN [seen EXCEPT ![Kind] = @ \union {cur}] ELSE seen
  BY DEF ReturnToCaller, Leave, project, Kind
<1>3. AnswerExact'
  BY <1>2, ReachFixed DEF IInv, AnswerExact, StackInv, TypeOK
<1>4. \A f \in Files : depth[f] \in Nat /\ (f # cur => depth[f] < depth[cur])
  BY <1>1, Shallowest DEF IInv
<1>5. CASE Kind = Info
  <2>1. value'[Deps] = value[Deps] /\ seen'[Deps] = seen[Deps]
    BY <1>1, <1>2, <1>5 DEF ReturnToCaller, Deps, Info, IInv, StackInv, TypeOK, Kinds
  <2>2. Partial'
    BY <1>2, <1>5 DEF Partial, Deps, Info
  <2>3. QED
    BY <1>2, <1>3, <2>1, <2>2, SameResults
<1>6. CASE Kind = Deps
  <2>1. /\ W \in SUBSET Files
        /\ Walked(cur, W)
        /\ OpenLoop(cur) = NoFile => cur \in W /\ Closed(W)
    <3>1. W \in SUBSET Files /\ Walked(cur, W)
      BY <1>1, <1>6, ReachSelf DEF IInv, Partial, Sound
    <3>2. QED
      BY <1>1, <3>1, ReturnedReach DEF IInv
  <2>2. \A f \in Files : value'[Deps][f] =
            IF f = c THEN value[Deps][c] \union W
            ELSE IF f = cur /\ OpenLoop(cur) # NoFile THEN {} ELSE value[Deps][f]
    BY <1>1, <1>6 DEF ReturnToCaller, IInv, StackInv, TypeOK, Kinds
  <2>3. seen[Deps] \subseteq Files
    BY DEF IInv, StackInv, TypeOK, Kinds
  <2>4. W \subseteq Reach(cur)
    BY <1>1 DEF IInv, Sound
  <2> HIDE DEF c, W
  <2>5. Sound' /\ \A f \in seen[Deps] : f \in value'[Deps][f] /\ Closed(value[Deps][f])'
    <3>1. \A f \in Files : value'[Deps][f] \subseteq value[Deps][f] \/
                               (f = c /\ value'[Deps][f] = value[Deps][f] \union W)
      BY <2>2
    <3>2. \A f \in seen[Deps] : value'[Deps][f] = value[Deps][f]
      BY <1>1, <1>6, <2>2, <2>3
    <3>3. PICK b \in Files, V \in {W}, g \in {cur} : b = c /\ V = W /\ g = cur
      BY <1>1
    <3>4. QED
      BY <1>1, <1>2, <2>4, <3>1, <3>2, <3>3, MergeSoundCached
  <2>6. Cached'
    <3>1. CASE OpenLoop(cur) # NoFile
      BY <1>2, <2>5, <3>1 DEF Cached
    <3>2. CASE OpenLoop(cur) = NoFile
      <4>1. seen'[Deps] = seen[Deps] \union {cur}
        BY <1>2, <1>6, <3>2 DEF IInv, StackInv, TypeOK, Kinds
      <4>2. value'[Deps][cur] = W
        BY <1>1, <2>2, <3>2 DEF W
      <4>3. cur \in W /\ \A m \in W : cimports[m] \subseteq W
        BY <2>1, <3>2 DEF Closed
      <4>4. ASSUME NEW f \in Files, f = cur
            PROVE  f \in value'[Deps][f] /\ Closed(value[Deps][f])'
        BY <1>2, <4>2, <4>3, <4>4 DEF Closed
      <4>5. QED
        BY <1>1, <2>3, <2>5, <4>1, <4>4 DEF Cached
    <3>3. QED
      BY <3>1, <3>2
  <2>9. Partial'
    <3> SUFFICES ASSUME NEW f \in Files, Running(f)' PROVE Walked(f, value[Deps][f])'
      BY <1>2 DEF Partial
    <3>1. PICK S \in SUBSET Files, V \in SUBSET Files : S = value[Deps][f] /\ V = W
      BY <2>1, ReachSelf DEF IInv, Sound
    <3>2. f # cur /\ Running(f)
      BY <1>1, <1>2 DEF Running, IInv, StackInv, TypeOK
    <3>3. Walked(f, S) /\ Walked(cur, V)
      BY <1>6, <2>1, <3>1, <3>2 DEF IInv, Partial
    <3>4. /\ f # c => Walked(f, S)'
          /\ f = c => Walked(f, S \union V)'
      BY <3>3, ReturnWalk DEF IInv, c
    <3>5. value'[Deps][f] = IF f = c THEN S \union V ELSE S
      BY <2>2, <3>1, <3>2
    <3>6. QED
      BY <3>4, <3>5 DEF Walked
  <2>10. QED
    BY <1>3, <2>5, <2>6, <2>9
<1>7. QED
  BY <1>5, <1>6 DEF Kind, Kinds, IInv, StackInv, TypeOK

(* The outermost call returns: its result is always cached.                   *)
LEMMA UserResults ==
    ASSUME IInv, ReturnToUser
    PROVE  Sound' /\ Cached' /\ Partial' /\ AnswerExact'
<1>1. cur \in Files /\ cur # NoFile /\ caller[cur] = NoFile /\ depth[cur] = 1 /\ todo[cur] = {}
  BY DEF ReturnToUser, IInv, StackInv, TypeOK, Chain, Callers, Running
<1>2. OpenLoop(cur) = NoFile
  BY <1>1, OpenLoopAbove DEF IInv
<1>3. /\ cimports' = cimports /\ answer' = answer /\ value' = value
      /\ depth' = [depth EXCEPT ![cur] = 0]
      /\ seen' = [seen EXCEPT ![Kind] = @ \union {cur}]
  BY <1>2 DEF ReturnToUser, Leave, project
<1>4. \A f \in Files : depth'[f] = 0
  BY <1>1, <1>3, Shallowest DEF IInv, StackInv, TypeOK
<1>5. Partial' /\ AnswerExact'
  BY <1>3, <1>4, NobodyRuns, ReachFixed DEF IInv, AnswerExact, StackInv, TypeOK
<1>6. Sound'
  BY <1>3, ReachFixed DEF IInv, Sound
<1>7. Cached'
  <2> SUFFICES ASSUME NEW f \in seen'[Deps]
               PROVE  f \in value[Deps][f] /\ Closed(value[Deps][f])'
    BY <1>3 DEF Cached
  <2>1. f \in Files /\ (f \in seen[Deps] \/ (f = cur /\ Kind = Deps))
    BY <1>1, <1>3 DEF IInv, StackInv, TypeOK, Kinds
  <2>2. f \in value[Deps][f] /\ Closed(value[Deps][f])
    <3>1. CASE f \in seen[Deps]
      BY <3>1 DEF IInv, Cached
    <3>2. CASE f = cur /\ Kind = Deps
      <4>1. value[Deps][cur] \in SUBSET Files /\ Walked(cur, value[Deps][cur])
        BY <1>1, <3>2, ReachSelf DEF IInv, Sound, Partial, Running
      <4>2. QED
        BY <1>1, <1>2, <3>2, <4>1, ReturnedReach DEF IInv
    <3>3. QED
      BY <2>1, <3>1, <3>2
  <2>3. QED
    BY <1>3, <2>2 DEF Closed
<1>8. QED
  BY <1>5, <1>6, <1>7

(* What is cached is exact, because it is sound, closed and holds the file.   *)
LEMMA CachedExact ==
    ASSUME IInv, NEW f \in seen[Deps]
    PROVE  value[Deps][f] = Reach(f)
<1>1. f \in Files
  BY DEF IInv, StackInv, TypeOK, Kinds
<1>2. value[Deps][f] \subseteq Reach(f) /\ value[Deps][f] \in SUBSET Files
  BY <1>1, ReachSelf DEF IInv, Sound
<1>3. f \in value[Deps][f] /\ Closed(value[Deps][f])
  BY DEF IInv, Cached
<1>4. QED
  BY <1>1, <1>2, <1>3, ReachLeast

LEMMA AnswerResults ==
    ASSUME IInv, AnswerDeps \/ AnswerInfo
    PROVE  Sound' /\ Cached' /\ Partial' /\ AnswerExact'
<1>1. cimports' = cimports /\ seen' = seen /\ depth' = depth /\ cur = NoFile /\ request.file \in Files
  BY DEF AnswerDeps, AnswerInfo, project, locals, kept, IInv, StackInv, Asked
<1>2. value'[Deps] = value[Deps]
  BY DEF AnswerDeps, AnswerInfo, kept, Deps, Info, IInv, StackInv, TypeOK, Kinds
<1>3. Sound' /\ Cached'
  BY <1>1, <1>2, SameResults
<1>4. Partial'
  BY <1>1, NobodyRuns DEF IInv, StackInv, Chain
<1>5. CASE AnswerDeps
  <2>1. request.file \in seen[Deps] /\ answer'.request = request
        /\ answer'.from = value[Deps][request.file]
    BY <1>5 DEF AnswerDeps, IInv, StackInv, Asked
  <2>2. QED
    BY <1>1, <1>3, <1>4, <2>1, CachedExact, ReachFixed DEF AnswerExact
<1>6. CASE AnswerInfo
  <2>1. answer'.request.kind = Info
    BY <1>6 DEF AnswerInfo, Kind
  <2>2. QED
    BY <1>3, <1>4, <2>1 DEF AnswerExact, Deps, Info
<1>7. QED
  BY <1>5, <1>6

LEMMA InvStep == IInv /\ [Next]_vars => IInv'
<1> SUFFICES ASSUME IInv, [Next]_vars PROVE IInv'
  OBVIOUS
<1>0. StackInv'
  BY StackStep DEF IInv
<1>1. ASSUME NEW kind \in Kinds, NEW f \in Files, NEW e \in Sources,
             AskCached(kind, f, e) \/ AskNew(kind, f, e)
      PROVE IInv'
  BY <1>0, <1>1, AskResults DEF IInv
<1>2. ASSUME cur # NoFile, NEW n \in todo[cur], VisitCached(n) \/ VisitOnStack(n)
      PROVE IInv'
  BY <1>0, <1>2, VisitResults DEF IInv
<1>3. ASSUME cur # NoFile, NEW n \in todo[cur], VisitNew(n)
      PROVE IInv'
  BY <1>0, <1>3, NewResults DEF IInv
<1>4. ASSUME cur # NoFile, NEW n \in todo[cur], VisitFails(n)
      PROVE IInv'
  BY <1>0, <1>4, FailResults DEF IInv
<1>5. CASE ReturnToCaller
  BY <1>0, <1>5, ReturnResults DEF IInv
<1>6. CASE ReturnToUser
  BY <1>0, <1>6, UserResults DEF IInv
<1>7. CASE AnswerDeps \/ AnswerInfo
  BY <1>0, <1>7, AnswerResults DEF IInv
<1>8. CASE UNCHANGED vars
  <2>1. UNCHANGED <<cimports, seen, value, depth, caller, todo, loop, request, answer>>
    BY <1>8 DEF vars
  <2>2. Sound' /\ Cached'
    BY <2>1, SameResults
  <2>3. Partial' /\ AnswerExact'
    BY <2>1, ReachFixed DEF IInv, StackInv, TypeOK, Partial, Walked, Admitted, Running, Kind, AnswerExact
  <2>4. QED
    BY <1>0, <2>2, <2>3 DEF IInv
<1>9. QED
  BY <1>1, <1>2, <1>3, <1>4, <1>5, <1>6, <1>7, <1>8 DEF Next, Visit

(* Type correctness, for any set of files and Extensions.                     *)
THEOREM DependencyTreeType == Spec => []TypeOK
<1>1. IInv => TypeOK
  BY DEF IInv, StackInv
<1>2. QED
  BY <1>1, InitInv, InvStep, PTL DEF Spec

(* transitive_merge() computes, and caches, exactly the files reachable through
   cimports: on every graph, in every order of questions, with failures.      *)
THEOREM DependencyTreeExact == Spec => []DependenciesExact
<1>1. IInv => DependenciesExact
  BY CachedExact DEF IInv, AnswerExact, DependenciesExact
<1>2. QED
  BY <1>1, InitInv, InvStep, PTL DEF Spec
-----------------------------------------------------------------------------
(* The results of distutils_info().                                           *)

(* What an info dict holds is not the result of one walk: it is kept when a   *)
(* walk is cut short, and other walks and templates have been merged into it. *)
(* A part of it has been walked over by the call in progress; that part       *)
(* matters.  Nothing but ExternHeader is ever taken out, and that not from a dict   *)
(* whose files tell where it is, nor before a dict is handed out.             *)
Sure(f) == finder \in Reach(declarer) \/ Reach(f) \cap given = {}

\* The dict of f has ExternHeader, if the declarer is in S.
Has(f, S) == Sure(f) /\ declarer \in S => ExternHeader \in value[Info][f]

InfoOwn == \A f \in Files : f \in value[Info][f] /\ Has(f, {f})

InfoCached == \A f \in seen[Info] : Reach(f) \subseteq value[Info][f] /\ Has(f, Reach(f))

InfoPartial ==
    Kind = Info => \A f \in Files : Running(f) =>
        \E S \in SUBSET Files : S \subseteq value[Info][f] /\ Walked(f, S) /\ Has(f, S)

\* Nothing comes from elsewhere.
Above(f) == Reach(f) \union Built(Reach(f)) \union {ExternHeader}

InfoBounded ==
    /\ \A f \in Files : value[Info][f] \subseteq Above(f)
    /\ request.ext \in Exts => request.file = sourceOf[request.ext]

InfoInv == /\ StackInv
           /\ InfoOwn
           /\ InfoCached
           /\ InfoPartial
           /\ InfoBounded
           /\ InfoOfDependencies

LEMMA KindsDiffer == Deps # Info
BY DEF Deps, Info

\* But for an answer, the info dicts only grow.
LEMMA InfoGrows ==
    ASSUME StackInv, [Next]_vars, ~AnswerInfo
    PROVE  /\ project' = project /\ given' = given
           /\ \A f \in Files : value[Info][f] \subseteq value'[Info][f]
<1> USE KindsDiffer DEF StackInv, TypeOK, Kinds, project, locals, kept
<1>1. ASSUME NEW kind \in Kinds, NEW f \in Files, NEW e \in Sources,
             AskCached(kind, f, e) \/ AskNew(kind, f, e)
      PROVE  project' = project /\ given' = given /\ value'[Info] = value[Info]
  BY <1>1 DEF AskCached, AskNew, Ask, Enter
<1>2. ASSUME cur # NoFile, NEW n \in todo[cur], VisitCached(n) \/ VisitOnStack(n)
      PROVE  /\ project' = project /\ given' = given
             /\ \A f \in Files : value[Info][f] \subseteq value'[Info][f]
  <2>1. PICK W : value' = [value EXCEPT ![Kind][cur] = @ \union W]
    BY <1>2 DEF VisitCached, VisitOnStack, Merge
  <2>2. Kind \in Kinds /\ cur \in Files
    BY <1>2 DEF Kind
  <2>3. project' = project /\ given' = given
    BY <1>2 DEF VisitCached, VisitOnStack, Merge
  <2>4. QED
    BY <2>1, <2>2, <2>3
<1>3. ASSUME cur # NoFile, NEW n \in todo[cur], VisitNew(n) \/ VisitFails(n)
      PROVE  project' = project /\ given' = given /\ value'[Info] = value[Info]
  BY <1>3 DEF VisitNew, VisitFails, Enter
<1>4. ASSUME ReturnToCaller
      PROVE  /\ project' = project /\ given' = given
             /\ \A f \in Files : value[Info][f] \subseteq value'[Info][f]
  <2>1. project' = project /\ given' = given
    BY <1>4 DEF ReturnToCaller
  <2>2. CASE Kind = Info
    <3>1. value' = [value EXCEPT ![Info][caller[cur]] = @ \union value[Info][cur],
                                 ![Info][cur] = @]
      BY <1>4, <2>2 DEF ReturnToCaller
    <3>2. QED
      BY <2>1, <3>1
  <2>3. CASE Kind = Deps
    <3>1. value'[Info] = value[Info]
      BY <1>4, <2>3 DEF ReturnToCaller
    <3>2. QED
      BY <2>1, <3>1
  <2>4. QED
    BY <2>2, <2>3 DEF Kind
<1>5. ASSUME ReturnToUser
      PROVE  project' = project /\ given' = given /\ value' = value
  BY <1>5 DEF ReturnToUser
<1>6. ASSUME AnswerDeps
      PROVE  project' = project /\ given' = given /\ value' = value
  BY <1>6 DEF AnswerDeps
<1>7. CASE UNCHANGED vars
  BY <1>7 DEF vars
<1>8. QED
  BY <1>1, <1>2, <1>3, <1>4, <1>5, <1>6, <1>7 DEF Next, Visit

LEMMA ProjectFixed ==
    ASSUME project' = project
    PROVE  /\ cimports' = cimports /\ sourceOf' = sourceOf
           /\ declarer' = declarer /\ finder' = finder
           /\ \A f : Reach(f)' = Reach(f)
           /\ \A f : Above(f)' = Above(f)
           /\ \A f : given \subseteq given' /\ Sure(f)' => Sure(f)
<1>1. cimports' = cimports /\ sourceOf' = sourceOf /\ declarer' = declarer /\ finder' = finder
  BY DEF project
<1>2. \A f : Reach(f)' = Reach(f)
  BY <1>1 DEF Reach, Closed
<1>3. \A f : Above(f)' = Above(f)
  BY <1>1, <1>2 DEF Above, Built
<1>4. Reach(declarer)' = Reach(declarer)
  BY <1>1, <1>2 DEF Reach
<1>5. \A f : given \subseteq given' /\ Sure(f)' => Sure(f)
  BY <1>1, <1>2, <1>4 DEF Sure
<1>6. QED
  BY <1>1, <1>2, <1>3, <1>5

LEMMA CimportsReached ==
    ASSUME TypeOK, NEW f \in Files, NEW n \in cimports[f]
    PROVE  /\ n \in Reach(f) /\ Reach(n) \subseteq Reach(f)
           /\ Above(n) \subseteq Above(f)
           /\ Sure(f) => Sure(n)
<1>1. n \in Reach(f) /\ Reach(n) \subseteq Reach(f)
  BY ReachSelf, ReachStep, ReachTransitive
<1>2. QED
  BY <1>1 DEF Above, Built, Sure

(* A step that finishes no file and answers nothing.                          *)
LEMMA InfoKept ==
    ASSUME InfoInv, [Next]_vars, ~AnswerInfo, seen'[Info] = seen[Info],
           answer' = answer \/ answer' = NoAnswer
    PROVE  InfoOwn' /\ InfoCached' /\ InfoOfDependencies'
<1>1. project' = project /\ given' = given /\ \A f \in Files : value[Info][f] \subseteq value'[Info][f]
  BY InfoGrows DEF InfoInv
<1>2. \A f, S : f \in Files /\ Has(f, S) => Has(f, S)'
  BY <1>1, ProjectFixed DEF Has
<1>3. InfoOwn'
  <2> SUFFICES ASSUME NEW f \in Files PROVE f \in value'[Info][f] /\ Has(f, {f})'
    BY DEF InfoOwn
  <2>1. Has(f, {f})
    BY DEF InfoInv, InfoOwn
  <2>2. Has(f, {f})'
    BY <1>1, <2>1, ProjectFixed DEF Has
  <2>3. QED
    BY <1>1, <2>2 DEF InfoInv, InfoOwn
<1>4. InfoCached'
  <2> SUFFICES ASSUME NEW f \in seen[Info] PROVE Reach(f)' \subseteq value'[Info][f] /\ Has(f, Reach(f))'
    BY DEF InfoCached
  <2>1. f \in Files
    BY DEF InfoInv, StackInv, TypeOK, Kinds
  <2>2. Reach(f) \subseteq value[Info][f] /\ Has(f, Reach(f))
    BY DEF InfoInv, InfoCached
  <2>3. Has(f, Reach(f))'
    BY <1>1, <2>1, <2>2, ProjectFixed DEF Has
  <2>4. QED
    BY <1>1, <2>1, <2>2, <2>3, ProjectFixed
<1>5. InfoOfDependencies'
  <2>1. CASE answer' = NoAnswer
    BY <2>1, KindsDiffer DEF InfoOfDependencies, NoAnswer, NoRequest
  <2>2. CASE answer' = answer
    <3>1. /\ Reach(answer.request.file)' = Reach(answer.request.file)
          /\ Reach(declarer)' = Reach(declarer)
          /\ sourceOf' = sourceOf /\ declarer' = declarer /\ finder' = finder
      BY <1>1, <2>2, ProjectFixed DEF Reach, Closed
    <3>2. QED
      BY <2>2, <3>1 DEF InfoInv, InfoOfDependencies, HeaderKept, Built
  <2>3. QED
    BY <2>1, <2>2
<1>6. QED
  BY <1>3, <1>4, <1>5

LEMMA NoInfoRuns == ASSUME \A f \in Files : depth'[f] = 0 PROVE InfoPartial'
BY DEF InfoPartial, Running

(* Nothing is merged that is not above, and an Extension is asked about with  *)
(* its own source.                                                            *)
LEMMA BoundedStep == ASSUME InfoInv, [Next]_vars PROVE InfoBounded'
<1> USE KindsDiffer DEF StackInv, TypeOK, Kinds
<1>0. StackInv /\ project' = project
  BY InfoGrows DEF AnswerInfo, InfoInv
<1>1. SUFFICES \A f \in Files : value'[Info][f] \subseteq Above(f)
  <2>1. request'.ext \in Exts => request'.file = sourceOf'[request'.ext]
    <3>1. request' = request \/ request' = NoRequest
          \/ \E kind \in Kinds, f \in Files, e \in Sources : Ask(kind, f, e)
      BY DEF Next, AskCached, AskNew, Visit, VisitCached, VisitOnStack, VisitNew, VisitFails,
             ReturnToCaller, ReturnToUser, AnswerDeps, AnswerInfo, vars
    <3>2. NoRequest.ext \notin Exts
      BY NoneAssumption DEF NoRequest
    <3>3. ASSUME NEW kind \in Kinds, NEW f \in Files, NEW e \in Sources, Ask(kind, f, e)
          PROVE  request'.ext \in Exts => request'.file = sourceOf'[request'.ext]
      BY <1>0, <3>3, ProjectFixed, NoneAssumption DEF Ask
    <3>4. sourceOf' = sourceOf
      BY <1>0, ProjectFixed
    <3>5. QED
      BY <3>1, <3>2, <3>3, <3>4 DEF InfoInv, InfoBounded
  <2>2. QED
    BY <1>0, <1>1, <2>1, ProjectFixed DEF InfoBounded
<1>2. \A f \in Files : value[Info][f] \subseteq Above(f)
  BY DEF InfoInv, InfoBounded
<1>3. ASSUME NEW f \in Files, NEW n \in cimports[f], value'[Info][f] \subseteq value[Info][f] \union value[Info][n]
      PROVE  value'[Info][f] \subseteq Above(f)
  <2>1. n \in Files
    BY <1>0
  <2>2. Above(n) \subseteq Above(f)
    BY <1>0, CimportsReached
  <2>3. QED
    BY <1>2, <1>3, <2>1, <2>2
<1>4. ASSUME NEW kind \in Kinds, NEW f \in Files, NEW e \in Sources,
             AskCached(kind, f, e) \/ AskNew(kind, f, e)
      PROVE  value'[Info] = value[Info]
  BY <1>0, <1>4 DEF AskCached, AskNew, kept
<1>5. ASSUME cur # NoFile, NEW n \in todo[cur], VisitCached(n) \/ VisitOnStack(n)
      PROVE  \A f \in Files : value'[Info][f] \subseteq Above(f)
  <2>1. cur \in Files /\ n \in cimports[cur] /\ Kind \in Kinds
    BY <1>0, <1>5 DEF Kind, Chain, Callers, Running
  <2>2. CASE Kind = Info
    <3>1. value' = [value EXCEPT ![Info][cur] = @ \union value[Info][n]]
      BY <1>5, <2>2 DEF VisitCached, VisitOnStack, Merge, Extract
    <3>2. value'[Info][cur] = value[Info][cur] \union value[Info][n]
      BY <1>0, <2>1, <3>1
    <3>3. value'[Info][cur] \subseteq Above(cur)
      BY <1>3, <2>1, <3>2
    <3>4. \A f \in Files : f # cur => value'[Info][f] = value[Info][f]
      BY <1>0, <3>1
    <3>5. QED
      BY <1>2, <3>3, <3>4
  <2>3. CASE Kind = Deps
    <3>1. value'[Info] = value[Info]
      BY <1>0, <1>5, <2>3 DEF VisitCached, VisitOnStack, Merge
    <3>2. QED
      BY <1>2, <3>1
  <2>4. QED
    BY <2>1, <2>2, <2>3
<1>6. ASSUME cur # NoFile, NEW n \in todo[cur], VisitNew(n) \/ VisitFails(n)
      PROVE  value'[Info] = value[Info]
  BY <1>0, <1>6 DEF VisitNew, VisitFails
<1>7. ASSUME ReturnToCaller
      PROVE  \A f \in Files : value'[Info][f] \subseteq Above(f)
  <2>1. cur \in Files /\ caller[cur] \in Files /\ cur \in cimports[caller[cur]] /\ Kind \in Kinds
    BY <1>0, <1>7 DEF ReturnToCaller, Kind, Chain, Callers, Running
  <2>2. CASE Kind = Info
    <3>1. value' = [value EXCEPT ![Info][caller[cur]] = @ \union value[Info][cur],
                                 ![Info][cur] = @]
      BY <1>7, <2>2 DEF ReturnToCaller
    <3>2. value'[Info][caller[cur]] \subseteq value[Info][caller[cur]] \union value[Info][cur]
      BY <1>0, <2>1, <3>1
    <3>3. value'[Info][caller[cur]] \subseteq Above(caller[cur])
      BY <1>3, <2>1, <3>2
    <3>4. \A f \in Files : f # caller[cur] => value'[Info][f] = value[Info][f]
      BY <1>0, <3>1
    <3>5. QED
      BY <1>2, <3>3, <3>4
  <2>3. CASE Kind = Deps
    <3>1. value'[Info] = value[Info]
      BY <1>0, <1>7, <2>3 DEF ReturnToCaller
    <3>2. QED
      BY <1>2, <3>1
  <2>4. QED
    BY <2>1, <2>2, <2>3
<1>8. ASSUME ReturnToUser \/ AnswerDeps \/ UNCHANGED vars
      PROVE  value'[Info] = value[Info]
  BY <1>8 DEF ReturnToUser, AnswerDeps, kept, vars
<1>9. ASSUME AnswerInfo
      PROVE  \A f \in Files : value'[Info][f] \subseteq Above(f)
  <2> DEFINE template == IF request.ext = NoExt THEN {} ELSE {request.ext}
             merged == Resolved(value[Info][request.file] \union template)
  <2>1. value' = [value EXCEPT ![Info][request.file] = merged] /\ request.file \in Files /\ request.ext \in Sources
    BY <1>0, <1>9 DEF AnswerInfo, Asked
  <2>2. merged \subseteq value[Info][request.file] \union template
    BY DEF Resolved
  <2>3. template \subseteq Above(request.file)
    <3>1. ASSUME request.ext # NoExt PROVE request.ext \in Above(request.file)
      <4>1. request.ext \in Exts /\ request.file = sourceOf[request.ext]
        BY <2>1, <3>1 DEF Sources, InfoInv, InfoBounded
      <4>2. request.file \in Reach(request.file)
        BY <2>1, ReachSelf
      <4>3. QED
        BY <4>1, <4>2 DEF Above, Built
    <3>2. QED
      BY <3>1
  <2> HIDE DEF merged, template
  <2>4. merged \subseteq Above(request.file)
    BY <1>2, <2>1, <2>2, <2>3
  <2>5. \A f \in Files : value'[Info][f] = IF f = request.file THEN merged ELSE value[Info][f]
    BY <1>0, <2>1
  <2>6. QED
    BY <1>2, <2>4, <2>5
<1>10. QED
  BY <1>2, <1>4, <1>5, <1>6, <1>7, <1>8, <1>9 DEF Next, Visit

LEMMA AskInfo ==
    ASSUME InfoInv, [Next]_vars, NEW kind \in Kinds, NEW f \in Files, NEW e \in Sources,
           AskCached(kind, f, e) \/ AskNew(kind, f, e)
    PROVE  InfoOwn' /\ InfoCached' /\ InfoPartial' /\ InfoOfDependencies'
<1>1. /\ answer' = NoAnswer /\ cimports' = cimports /\ seen' = seen /\ value'[Info] = value[Info]
      /\ ~AnswerInfo
  BY KindsDiffer DEF AskCached, AskNew, Ask, Enter, kept, project, InfoInv, StackInv, TypeOK, Kinds,
                     AnswerInfo
<1>2. cur = NoFile /\ \A g \in Files : depth[g] = 0
  BY DEF AskCached, AskNew, Ask, InfoInv, StackInv, Asked, Chain
<1>3. InfoOwn' /\ InfoCached' /\ InfoOfDependencies'
  BY <1>1, InfoKept
<1>4. InfoPartial'
  <2>1. CASE AskCached(kind, f, e)
    BY <1>2, <2>1, NoInfoRuns DEF AskCached, locals
  <2>2. CASE AskNew(kind, f, e)
    <3>1. depth' = [depth EXCEPT ![f] = 1] /\ todo'[f] = cimports[f]
      BY <1>2, <2>2 DEF AskNew, Enter, InfoInv, StackInv, TypeOK
    <3>2. \A g \in Files : Running(g)' => g = f
      BY <1>2, <3>1 DEF Running, InfoInv, StackInv, TypeOK
    <3>3. Walked(f, {f})'
      BY <1>1, <3>1 DEF Walked
    <3>4. {f} \subseteq value'[Info][f] /\ Has(f, {f})'
      BY <1>3 DEF InfoOwn
    <3>5. \E S \in SUBSET Files : S \subseteq value'[Info][f] /\ Walked(f, S)' /\ Has(f, S)'
      BY <3>3, <3>4
    <3>6. QED
      BY <3>2, <3>5 DEF InfoPartial
  <2>3. QED
    BY <2>1, <2>2
<1>5. QED
  BY <1>3, <1>4

LEMMA VisitInfo ==
    ASSUME InfoInv, [Next]_vars, cur # NoFile, NEW n \in todo[cur], VisitCached(n) \/ VisitOnStack(n)
    PROVE  InfoOwn' /\ InfoCached' /\ InfoPartial' /\ InfoOfDependencies'
<1>1. /\ answer' = answer /\ seen' = seen /\ Kind' = Kind /\ depth' = depth
      /\ cur \in Files /\ n \in Files /\ n \in cimports[cur] /\ Kind \in Kinds /\ ~AnswerInfo
  BY DEF VisitCached, VisitOnStack, Kind, InfoInv, StackInv, TypeOK, Chain, Callers, Running, AnswerInfo
<1>2. project' = project /\ given' = given /\ \A f \in Files : value[Info][f] \subseteq value'[Info][f]
  BY <1>1, InfoGrows DEF InfoInv
<1>3. n \in Reach(n) /\ Reach(n) \in SUBSET Files /\ (Sure(cur) => Sure(n))
  BY <1>1, ReachSelf, CimportsReached DEF InfoInv, StackInv
<1>4. ASSUME Kind = Info
      PROVE  InfoPartial'
  <2>0. value'[Info][cur] = value[Info][cur] \union value[Info][n]
    BY <1>1, <1>4 DEF VisitCached, VisitOnStack, Merge, Extract, InfoInv, StackInv, TypeOK
  <2>1. PICK W \in SUBSET Files : /\ n \in W
                                  /\ W \subseteq value[Info][n]
                                  /\ Has(n, W)
                                  /\ \A m \in W : IF n \in seen[Kind] THEN cimports[m] \subseteq W ELSE m = n
    <3>1. CASE n \in seen[Info]
      <4>1. Reach(n) \subseteq value[Info][n] /\ Has(n, Reach(n))
        BY <3>1 DEF InfoInv, InfoCached
      <4>2. \A m \in Reach(n) : cimports[m] \subseteq Reach(n)
        BY <1>1, ReachStep DEF InfoInv, StackInv
      <4>3. QED
        BY <1>3, <1>4, <3>1, <4>1, <4>2
    <3>2. CASE n \notin seen[Info]
      <4>1. n \in value[Info][n] /\ Has(n, {n})
        BY <1>1 DEF InfoInv, InfoOwn
      <4>2. PICK W \in SUBSET Files : W = {n}
        BY <1>1
      <4>3. QED
        BY <1>4, <3>2, <4>1, <4>2
    <3>3. QED
      BY <3>1, <3>2
  <2>2. ASSUME NEW f \in Files, Running(f)'
        PROVE  \E S \in SUBSET Files : S \subseteq value'[Info][f] /\ Walked(f, S)' /\ Has(f, S)'
    <3>1. Running(f)
      BY <1>1, <2>2 DEF Running
    <3>2. PICK S \in SUBSET Files : S \subseteq value[Info][f] /\ Walked(f, S) /\ Has(f, S)
      BY <1>4, <3>1 DEF InfoInv, InfoPartial
    <3>3. S \subseteq value'[Info][f] /\ Has(f, S)'
      <4>1. Has(f, S)'
        BY <1>2, <3>2, ProjectFixed DEF Has
      <4>2. QED
        BY <1>2, <3>2, <4>1
    <3>4. f # cur => Walked(f, S)'
      BY <2>1, <3>1, <3>2, VisitWalk DEF InfoInv
    <3>5. f = cur => Walked(f, S \union W)'
      BY <2>1, <3>1, <3>2, VisitWalk DEF InfoInv
    <3>6. f = cur => S \union W \subseteq value'[Info][f]
      BY <2>0, <2>1, <3>3
    <3>7. f = cur => Has(f, S \union W)'
      <4> SUFFICES ASSUME f = cur, Sure(f)', declarer' \in S \union W PROVE ExternHeader \in value'[Info][f]
        BY DEF Has
      <4>1. declarer' = declarer /\ Sure(f)
        BY <1>2, ProjectFixed
      <4>2. CASE declarer \in S
        BY <1>2, <3>2, <4>1, <4>2 DEF Has
      <4>3. CASE declarer \in W
        BY <1>3, <2>0, <2>1, <4>1, <4>3 DEF Has
      <4>4. QED
        BY <4>1, <4>2, <4>3
    <3>8. S \union W \in SUBSET Files
      OBVIOUS
    <3>9. CASE f = cur
      BY <3>5, <3>6, <3>7, <3>8, <3>9
    <3>10. CASE f # cur
      BY <3>3, <3>4, <3>10
    <3>11. QED
      BY <3>9, <3>10
  <2>3. QED
    BY <2>2 DEF InfoPartial
<1>5. InfoPartial'
  BY <1>1, <1>4 DEF InfoPartial
<1>6. QED
  BY <1>1, <1>5, InfoKept

LEMMA NewInfo ==
    ASSUME InfoInv, [Next]_vars, cur # NoFile, NEW n \in todo[cur], VisitNew(n)
    PROVE  InfoOwn' /\ InfoCached' /\ InfoPartial' /\ InfoOfDependencies'
<1>1. answer' = answer /\ seen' = seen /\ Kind' = Kind /\ ~AnswerInfo
  BY DEF VisitNew, Enter, Kind, AnswerInfo
<1>2. cur \in Files /\ n \in Files
  BY DEF InfoInv, StackInv, TypeOK
<1>3. InfoOwn' /\ InfoCached' /\ InfoOfDependencies'
  BY <1>1, InfoKept
<1>4. project' = project /\ given' = given /\ \A f \in Files : value[Info][f] \subseteq value'[Info][f]
  BY <1>1, InfoGrows DEF InfoInv
<1>5. ASSUME Kind = Info, NEW f \in Files, Running(f)'
      PROVE  \E S \in SUBSET Files : S \subseteq value'[Info][f] /\ Walked(f, S)' /\ Has(f, S)'
  <2>1. CASE f = n
    <3>1. PICK S \in SUBSET Files : S = {n}
      BY <1>2
    <3>2. Walked(n, S)'
      <4>1. Walked(n, {n})'
        BY <3>1, NewWalk DEF InfoInv
      <4>2. QED
        BY <3>1, <4>1 DEF Walked
    <3>3. n \in value'[Info][n] /\ Has(n, {n})'
      BY <1>2, <1>3 DEF InfoOwn
    <3>4. Has(n, S)'
      BY <3>1, <3>3 DEF Has
    <3>5. QED
      BY <2>1, <3>1, <3>2, <3>3, <3>4
  <2>2. CASE f # n
    <3>1. Running(f)
      <4>1. PICK S \in SUBSET Files : S = Files
        OBVIOUS
      <4>2. QED
        BY <1>5, <2>2, <4>1, NewWalk DEF InfoInv
    <3>2. PICK S \in SUBSET Files : S \subseteq value[Info][f] /\ Walked(f, S) /\ Has(f, S)
      BY <1>5, <3>1 DEF InfoInv, InfoPartial
    <3>3. S \subseteq value'[Info][f]
      BY <1>4, <3>2
    <3>4. Has(f, S)'
      BY <1>4, <3>2, ProjectFixed DEF Has
    <3>5. Walked(f, S)'
      BY <3>1, <3>2, NewWalk DEF InfoInv
    <3>6. QED
      BY <3>3, <3>4, <3>5
  <2>3. QED
    BY <2>1, <2>2
<1>6. InfoPartial'
  BY <1>1, <1>5 DEF InfoPartial
<1>7. QED
  BY <1>3, <1>6

(* A call that returns with no open loop has merged everything reachable.     *)
LEMMA LeaveInfo ==
    ASSUME InfoInv, cur # NoFile, todo[cur] = {}, Kind = Info, OpenLoop(cur) = NoFile
    PROVE  Reach(cur) \subseteq value[Info][cur] /\ Has(cur, Reach(cur))
<1>1. cur \in Files /\ Running(cur)
  BY Shallowest DEF InfoInv, Running
<1>2. PICK S \in SUBSET Files : S \subseteq value[Info][cur] /\ Walked(cur, S) /\ Has(cur, S)
  BY <1>1 DEF InfoInv, InfoPartial
<1>3. Reach(cur) \subseteq S
  BY <1>2, ReturnedReach DEF InfoInv
<1>4. QED
  BY <1>2, <1>3 DEF Has

LEMMA LeaveCached ==
    ASSUME InfoInv, [Next]_vars, cur # NoFile, todo[cur] = {}, Leave(cur), answer' = answer,
           ~AnswerInfo
    PROVE  InfoOwn' /\ InfoCached' /\ InfoOfDependencies'
<1>1. CASE Kind = Info /\ OpenLoop(cur) = NoFile
  <2>1. seen'[Info] = seen[Info] \union {cur} /\ cur \in Files /\ seen[Info] \subseteq Files
    BY <1>1 DEF Leave, InfoInv, StackInv, TypeOK, Kinds
  <2>2. project' = project /\ given' = given /\ \A f \in Files : value[Info][f] \subseteq value'[Info][f]
    BY InfoGrows DEF InfoInv
  <2>3. Reach(cur) \subseteq value[Info][cur] /\ Has(cur, Reach(cur))
    BY <1>1, LeaveInfo
  <2>4. InfoCached'
    <3> SUFFICES ASSUME NEW f \in seen'[Info] PROVE Reach(f)' \subseteq value'[Info][f] /\ Has(f, Reach(f))'
      BY DEF InfoCached
    <3>1. f \in Files /\ Reach(f) \subseteq value[Info][f] /\ Has(f, Reach(f))
      BY <2>1, <2>3 DEF InfoInv, InfoCached
    <3>2. Has(f, Reach(f))'
      BY <2>2, <3>1, ProjectFixed DEF Has
    <3>3. QED
      BY <2>2, <3>1, <3>2, ProjectFixed
  <2>5. InfoOwn'
    <3> SUFFICES ASSUME NEW f \in Files PROVE f \in value'[Info][f] /\ Has(f, {f})'
      BY DEF InfoOwn
    <3>1. f \in value[Info][f] /\ Has(f, {f})
      BY DEF InfoInv, InfoOwn
    <3>2. Has(f, {f})'
      BY <2>2, <3>1, ProjectFixed DEF Has
    <3>3. QED
      BY <2>2, <3>1, <3>2
  <2>6. InfoOfDependencies'
    <3>1. /\ Reach(answer.request.file)' = Reach(answer.request.file)
          /\ Reach(declarer)' = Reach(declarer)
          /\ sourceOf' = sourceOf /\ declarer' = declarer /\ finder' = finder
      BY <2>2, ProjectFixed DEF Reach, Closed
    <3>2. QED
      BY <3>1 DEF InfoInv, InfoOfDependencies, HeaderKept, Built
  <2>7. QED
    BY <2>4, <2>5, <2>6
<1>2. CASE ~(Kind = Info /\ OpenLoop(cur) = NoFile)
  <2>1. seen'[Info] = seen[Info]
    BY <1>2, KindsDiffer DEF Leave, InfoInv, StackInv, TypeOK, Kinds, Kind
  <2>2. QED
    BY <2>1, InfoKept
<1>3. QED
  BY <1>1, <1>2

LEMMA ReturnInfo ==
    ASSUME InfoInv, [Next]_vars, ReturnToCaller
    PROVE  InfoOwn' /\ InfoCached' /\ InfoPartial' /\ InfoOfDependencies'
<1>1. cur # NoFile /\ todo[cur] = {} /\ Leave(cur) /\ answer' = answer /\ Kind' = Kind /\ ~AnswerInfo
  BY DEF ReturnToCaller, Kind, AnswerInfo
<1>2. InfoOwn' /\ InfoCached' /\ InfoOfDependencies'
  BY <1>1, LeaveCached
<1>3. project' = project /\ given' = given /\ \A f \in Files : value[Info][f] \subseteq value'[Info][f]
  BY <1>1, InfoGrows DEF InfoInv
<1>4. ASSUME Kind = Info, NEW f \in Files, Running(f)'
      PROVE  \E S \in SUBSET Files : S \subseteq value'[Info][f] /\ Walked(f, S)' /\ Has(f, S)'
  <2>1. cur \in Files /\ Running(cur) /\ caller[cur] \in Files /\ cur \in cimports[caller[cur]]
    BY <1>1, Shallowest DEF ReturnToCaller, InfoInv, StackInv, TypeOK, Callers, Running
  <2>2. PICK W \in SUBSET Files : W \subseteq value[Info][cur] /\ Walked(cur, W) /\ Has(cur, W)
    BY <1>4, <2>1 DEF InfoInv, InfoPartial
  <2>3. Running(f)
    BY <1>1, <1>4, <2>1 DEF Leave, Running, InfoInv, StackInv, TypeOK
  <2>4. PICK S \in SUBSET Files : S \subseteq value[Info][f] /\ Walked(f, S) /\ Has(f, S)
    BY <1>4, <2>3 DEF InfoInv, InfoPartial
  <2>5. /\ f # caller[cur] => Walked(f, S)'
        /\ f = caller[cur] => Walked(f, S \union W)'
    BY <1>4, <2>2, <2>4, ReturnWalk DEF InfoInv
  <2>6. S \subseteq value'[Info][f] /\ Has(f, S)'
    <3>1. Has(f, S)'
      BY <1>3, <2>4, ProjectFixed DEF Has
    <3>2. QED
      BY <1>3, <2>4, <3>1
  <2>7. f = caller[cur] => value[Info][cur] \subseteq value'[Info][f]
    <3>1. ASSUME f = caller[cur]
          PROVE  value[Info][cur] \subseteq value'[Info][f]
      <4>1. value' = [value EXCEPT ![Info][f] = @ \union value[Info][cur], ![Info][cur] = @]
        BY <1>4, <3>1, KindsDiffer DEF ReturnToCaller
      <4>2. QED
        BY <2>1, <4>1 DEF InfoInv, StackInv, TypeOK, Kinds
    <3>2. QED
      BY <3>1
  <2>8. f = caller[cur] => Has(f, S \union W)'
    <3> SUFFICES ASSUME f = caller[cur], Sure(f)', declarer' \in S \union W PROVE ExternHeader \in value'[Info][f]
      BY DEF Has
    <3>1. declarer' = declarer /\ Sure(f)
      BY <1>3, ProjectFixed
    <3>2. Sure(cur)
      BY <2>1, <3>1, CimportsReached DEF InfoInv, StackInv
    <3>3. CASE declarer \in S
      BY <1>3, <2>4, <3>1, <3>3 DEF Has
    <3>4. CASE declarer \in W
      BY <2>2, <2>7, <3>2, <3>4 DEF Has
    <3>5. QED
      BY <3>1, <3>3, <3>4
  <2>9. S \union W \in SUBSET Files
    OBVIOUS
  <2>10. CASE f = caller[cur]
    <3>1. S \union W \subseteq value'[Info][f]
      BY <2>2, <2>6, <2>7, <2>10
    <3>2. QED
      BY <2>5, <2>8, <2>9, <2>10, <3>1
  <2>11. CASE f # caller[cur]
    BY <2>5, <2>6, <2>11
  <2>12. QED
    BY <2>10, <2>11
<1>5. InfoPartial'
  BY <1>1, <1>4 DEF InfoPartial
<1>6. QED
  BY <1>2, <1>5

(* What is handed out has everything reachable.  ExternHeader is dropped from a dict *)
(* only where the declarer's own files do not tell where it is; after that     *)
(* nothing is said of it in a dict that reaches this one.                      *)
LEMMA AnsweredInfo ==
    ASSUME InfoInv, [Next]_vars, AnswerInfo
    PROVE  InfoOwn' /\ InfoCached' /\ InfoPartial' /\ InfoOfDependencies'
<1> DEFINE f == request.file
           template == IF request.ext = NoExt THEN {} ELSE {request.ext}
           merged == Resolved(value[Info][f] \union template)
<1>1. /\ project' = project /\ seen' = seen /\ depth' = depth /\ cur = NoFile /\ given' = given \union {f}
      /\ seen[Info] \subseteq Files /\ value' = [value EXCEPT ![Info][f] = merged]
      /\ f \in seen[Info] /\ f \in Files /\ request.ext \in Sources
  BY DEF AnswerInfo, locals, InfoInv, StackInv, TypeOK, Kinds, Asked
<1>2. /\ answer'.request = request /\ answer'.from = merged /\ answer'.before = given
  BY DEF AnswerInfo
<1>3. ExternHeader \notin Files /\ ExternHeader \notin Exts
  BY NoneAssumption
<1>4. Reach(f) \subseteq value[Info][f] /\ Has(f, Reach(f))
  BY <1>1 DEF InfoInv, InfoCached
<1>5. (value[Info][f] \union template) \ {ExternHeader} \subseteq merged
  BY DEF Resolved
<1>6. merged \subseteq value[Info][f] \union template
  BY DEF Resolved
<1>7. finder \in value[Info][f] \union template => merged = value[Info][f] \union template
  BY DEF Resolved
<1>8. template \subseteq Exts
  BY <1>1 DEF Sources
<1> HIDE DEF template, merged
<1>9. /\ value'[Info][f] = merged
      /\ \A g \in Files : g # f => value'[Info][g] = value[Info][g]
  BY <1>1 DEF InfoInv, StackInv, TypeOK, Kinds
<1>10. \A g \in Files : value[Info][g] \ {ExternHeader} \subseteq value'[Info][g]
  BY <1>5, <1>9
<1>11. ASSUME NEW g \in Files, Sure(g)', declarer \in Reach(g), f \in Reach(g), ExternHeader \in value[Info][g]
       PROVE  ExternHeader \in value'[Info][g]
  <2>1. finder \in Reach(declarer)
    BY <1>1, <1>11, ProjectFixed DEF Sure
  <2>2. CASE g = f
    <3>1. finder \in Reach(f)
      BY <1>11, <2>1, <2>2, ReachTransitive DEF InfoInv, StackInv
    <3>2. QED
      BY <1>4, <1>7, <1>9, <1>11, <2>2, <3>1
  <2>3. QED
    BY <1>9, <1>11, <2>2
<1>12. ASSUME NEW g \in Files, NEW S \in SUBSET Reach(g), Has(g, S)
       PROVE  Has(g, S)'
  <2> SUFFICES ASSUME Sure(g)', declarer' \in S PROVE ExternHeader \in value'[Info][g]
    BY DEF Has
  <2>1. declarer' = declarer /\ Sure(g)
    BY <1>1, ProjectFixed
  <2>2. declarer \in Reach(g) /\ ExternHeader \in value[Info][g]
    BY <1>12, <2>1 DEF Has
  <2>3. g = f => f \in Reach(g)
    BY <1>1, ReachSelf
  <2>4. CASE f \in Reach(g)
    BY <1>11, <2>2, <2>4
  <2>5. QED
    BY <1>9, <2>2, <2>3, <2>4
<1>13. InfoOwn'
  <2> SUFFICES ASSUME NEW g \in Files PROVE g \in value'[Info][g] /\ Has(g, {g})'
    BY DEF InfoOwn
  <2>1. g \in value[Info][g] /\ Has(g, {g}) /\ {g} \in SUBSET Reach(g)
    BY ReachSelf DEF InfoInv, InfoOwn
  <2>2. QED
    BY <1>3, <1>10, <1>12, <2>1
<1>14. InfoCached'
  <2> SUFFICES ASSUME NEW g \in seen[Info] PROVE Reach(g)' \subseteq value'[Info][g] /\ Has(g, Reach(g))'
    BY <1>1 DEF InfoCached
  <2>1. g \in Files /\ Reach(g) \subseteq value[Info][g] /\ Has(g, Reach(g)) /\ Reach(g) \subseteq Files
    BY <1>1, ReachSelf DEF InfoInv, InfoCached
  <2>2. Has(g, Reach(g))'
    <3>1. PICK S \in SUBSET Reach(g) : S = Reach(g)
      OBVIOUS
    <3>2. Has(g, S)'
      BY <1>12, <2>1, <3>1
    <3>3. Reach(g)' = Reach(g)
      BY <1>1, ProjectFixed
    <3>4. QED
      BY <3>1, <3>2, <3>3 DEF Has
  <2>3. QED
    BY <1>1, <1>3, <1>10, <2>1, <2>2, ProjectFixed
<1>15. InfoPartial'
  BY <1>1, NoInfoRuns DEF InfoInv, StackInv, Chain
<1>16. Reach(f) \subseteq Files /\ f \in Reach(f)
  BY <1>1, ReachSelf
<1>17. Reach(f) \union template \subseteq merged
  BY <1>3, <1>4, <1>5, <1>8, <1>16
<1>18. declarer \in Reach(f) /\ finder \in merged /\ (finder \in Reach(declarer) \/ Reach(f) \cap given = {})
          => ExternHeader \in merged
  BY <1>4, <1>6, <1>7 DEF Has, Sure
<1>19. merged \subseteq Above(f)
  BY <1>1, <1>9, BoundedStep, ProjectFixed DEF InfoBounded
<1>20. InfoOfDependencies'
  <2>1. /\ Reach(answer.request.file)' = Reach(f)
        /\ Reach(declarer)' = Reach(declarer)
        /\ sourceOf' = sourceOf /\ declarer' = declarer /\ finder' = finder
    BY <1>1, <1>2, ProjectFixed DEF Reach, Closed
  <2>2. HeaderKept'
    BY <1>2, <1>18, <2>1 DEF HeaderKept
  <2>3. {request.ext} \ {NoExt} = template
    BY DEF template
  <2>4. Above(f) = Reach(f) \union Built(Reach(answer.request.file))' \union {ExternHeader}
    BY <2>1 DEF Above, Built
  <2>5. QED
    BY <1>2, <1>17, <1>19, <2>1, <2>2, <2>3, <2>4 DEF InfoOfDependencies
<1>21. QED
  BY <1>13, <1>14, <1>15, <1>20

LEMMA InfoInit == Init => InfoInv
<1> SUFFICES ASSUME Init PROVE InfoInv
  OBVIOUS
<1>1. StackInv
  BY InitInv DEF IInv
<1>2. \A f \in Files : value[Info][f] = Declared(f) /\ depth[f] = 0
  BY KindsDiffer DEF Init, Kinds
<1>3. seen[Info] = {} /\ answer.request.kind = Deps /\ request.ext = NoExt
  BY DEF Init, Kinds, NoAnswer, NoRequest
<1>4. InfoOwn /\ InfoCached /\ InfoPartial /\ InfoOfDependencies
  BY <1>2, <1>3, KindsDiffer DEF InfoOwn, InfoCached, InfoPartial, InfoOfDependencies, Running, Has, Declared
<1>5. InfoBounded
  BY <1>2, <1>3, ReachSelf, NoneAssumption DEF InfoBounded, Above, Declared
<1>6. QED
  BY <1>1, <1>4, <1>5 DEF InfoInv

LEMMA InfoStep == InfoInv /\ [Next]_vars => InfoInv'
<1> SUFFICES ASSUME InfoInv, [Next]_vars PROVE InfoInv'
  OBVIOUS
<1>0. StackInv' /\ InfoBounded'
  BY StackStep, BoundedStep DEF InfoInv
<1>1. ASSUME NEW kind \in Kinds, NEW f \in Files, NEW e \in Sources,
             AskCached(kind, f, e) \/ AskNew(kind, f, e)
      PROVE InfoInv'
  BY <1>0, <1>1, AskInfo DEF InfoInv
<1>2. ASSUME cur # NoFile, NEW n \in todo[cur], VisitCached(n) \/ VisitOnStack(n)
      PROVE InfoInv'
  BY <1>0, <1>2, VisitInfo DEF InfoInv
<1>3. ASSUME cur # NoFile, NEW n \in todo[cur], VisitNew(n)
      PROVE InfoInv'
  BY <1>0, <1>3, NewInfo DEF InfoInv
<1>4. ASSUME cur # NoFile, NEW n \in todo[cur], VisitFails(n)
      PROVE InfoInv'
  <2>1. answer' = answer /\ seen' = seen /\ depth' = [f \in Files |-> 0] /\ ~AnswerInfo
    BY <1>4 DEF VisitFails, AnswerInfo
  <2>2. InfoPartial'
    BY <2>1, NoInfoRuns
  <2>3. QED
    BY <1>0, <2>1, <2>2, InfoKept DEF InfoInv
<1>5. CASE ReturnToCaller
  BY <1>0, <1>5, ReturnInfo DEF InfoInv
<1>6. CASE ReturnToUser
  <2>1. /\ cur # NoFile /\ todo[cur] = {} /\ Leave(cur) /\ answer' = answer /\ ~AnswerInfo
        /\ caller[cur] = NoFile /\ cur \in Files /\ depth' = [depth EXCEPT ![cur] = 0]
    BY <1>6 DEF ReturnToUser, Leave, InfoInv, StackInv, TypeOK, AnswerInfo
  <2>2. depth[cur] = 1
    BY <2>1 DEF InfoInv, StackInv, Chain, Callers, Running
  <2>3. \A f \in Files : depth'[f] = 0
    BY <2>1, <2>2, Shallowest DEF InfoInv, StackInv, TypeOK
  <2>4. QED
    BY <1>0, <2>1, <2>3, NoInfoRuns, LeaveCached DEF InfoInv
<1>7. CASE AnswerDeps
  <2>1. seen' = seen /\ value' = value /\ cur = NoFile /\ depth' = depth /\ project' = project
        /\ given' = given /\ answer'.request = request /\ request.kind = Deps
    BY <1>7 DEF AnswerDeps, locals, kept, Kind
  <2>2. InfoPartial'
    BY <2>1, NoInfoRuns DEF InfoInv, StackInv, Chain
  <2>3. InfoOfDependencies'
    BY <2>1, KindsDiffer DEF InfoOfDependencies
  <2>4. cimports' = cimports /\ declarer' = declarer /\ finder' = finder /\ seen[Info] \subseteq Files
    BY <2>1, ProjectFixed DEF InfoInv, StackInv, TypeOK, Kinds
  <2>5. \A f, S : Has(f, S)' = (Sure(f)' /\ declarer \in S => ExternHeader \in value[Info][f])
    BY <2>1, <2>4 DEF Has
  <2>6. \A f : Sure(f)' => Sure(f)
    BY <2>1, ProjectFixed
  <2>7. InfoOwn'
    BY <2>1, <2>4, <2>6 DEF InfoInv, InfoOwn, Has
  <2>8. InfoCached'
    BY <2>1, <2>4, <2>6, ProjectFixed DEF InfoInv, InfoCached, Has
  <2>9. QED
    BY <1>0, <2>2, <2>3, <2>7, <2>8 DEF InfoInv
<1>8. CASE AnswerInfo
  BY <1>0, <1>8, AnsweredInfo DEF InfoInv
<1>9. CASE UNCHANGED vars
  <2>1. UNCHANGED <<cimports, declarer, finder, given, cur, seen, value, depth, caller, todo, loop,
                    request, answer>>
    BY <1>9 DEF vars
  <2>2. ~AnswerInfo
    BY <2>1 DEF AnswerInfo, NothingAsked
  <2>3. InfoOwn' /\ InfoCached' /\ InfoOfDependencies'
    BY <2>1, <2>2, InfoKept
  <2>4. InfoPartial'
    BY <2>1 DEF InfoInv, InfoPartial, Walked, Admitted, Running, Kind, Has, Sure, Reach, Closed
  <2>5. QED
    BY <1>0, <2>3, <2>4 DEF InfoInv
<1>10. QED
  BY <1>1, <1>2, <1>3, <1>4, <1>5, <1>6, <1>7, <1>8, <1>9 DEF Next, Visit

(* distutils_info() gives an Extension the settings of everything it depends
   on and its own, and beyond these only settings of Extensions that are built
   from what it depends on: on every graph, in every order of questions, with
   failures in between, although the objects it merges into are shared, and
   their lists of headers rewritten when they are handed out.                *)
THEOREM SettingsComplete == Spec => []InfoOfDependencies
<1>1. InfoInv => InfoOfDependencies
  BY DEF InfoInv
<1>2. QED
  BY <1>1, InfoInit, InfoStep, PTL DEF Spec
-----------------------------------------------------------------------------
USE BuildAssumption, ModeAssumption, SpecialAssumption

(***************************************************************************)
(* Proofs about Build, for any processes, trees, texts and ways of calling. *)
(*                                                                          *)
(* The heart of the invariant is ModuleOK: a C file that is older than none of*)
(* the module's dependencies, and in none of the special states, is the code of*)
(* the files as they are.  Edits keep it because they make the C file stale,*)
(* compilations because they read what is there, and loads because an entry is*)
(* found by the texts that it was made from.                                *)
(***************************************************************************)

(* The facts a module relies on are those of modules it depends on.               *)
FactsInDeps == \A s \in Source : FactsFrom[s] \subseteq DepsOf[s]

(* The special states of a C file, the codes, and the entries that            *)
(* compilations write.                                                        *)
Special == {Missing, Dead, Empty, Torn}
Codes == UNION {[Inputs(s) -> Text] : s \in Source}

Entries == {e \in [source : Source, key : Codes, code : Codes \cup {Nothing}, writer : Proc \cup {"none", "dead"}] :
              /\ e.key \in [DepsOf[e.source] -> Text]
              /\ e.code = IF \A f \in DepsOf[e.source] : e.key[f] \notin Bad THEN e.key ELSE Nothing}

(* The type of the variables of Build.                                        *)
BuildType ==
    /\ mode \in Mode
    /\ content \in [Proc -> [File -> Text]]
    /\ stale \in [Proc -> [Source -> SUBSET File]]
    /\ cfile \in [Proc -> [Source -> Codes \cup Special]]
    /\ stage \in [Proc -> {"idle", "run", "cleanup", "ok", "raised"}]
    /\ task \in [Proc -> [Source -> {"none", "ok", "failed"} \cup Working]]
    /\ cache \subseteq Entries /\ tmp \subseteq Entries

(* The C file is the code of the files as they are; a build may also leave    *)
(* what SuccessIsCurrent excepts.                                             *)
Current(p, s) == Compiles(p, s) /\ cfile[p][s] = Code(p, s)

Settled(p, s) == cfile[p][s] \in {Empty, Torn} \/ Current(p, s) \/ (mode.cache /\ ~Compiles(p, s))

(* Nobody else uses the cache.                                                *)
Alone(p) == mode.cache => mode.builders = {p}

(* Of every module: a C file that no dependency is newer than is current or   *)
(* special, and a task that has come so far has done what it should.          *)
ModuleOK(p, s) ==
    /\ stale[p][s] = {} /\ cfile[p][s] \notin Special => Current(p, s)
    /\ stage[p] # "run" => task[p][s] = "none"
    /\ task[p][s] \in {"lookup", "load", "open", "write", "rename"} => mode.cache
    /\ task[p][s] \in {"open", "write", "rename"} /\ Compiles(p, s) => Current(p, s)
    /\ stage[p] = "run" /\ s \in mode.modules =>
          /\ task[p][s] = "none" => ~OutOfDate(p, s)
          /\ task[p][s] = "ok" => Settled(p, s)
          /\ task[p][s] = "failed" /\ mode.exclude => cfile[p][s] = Missing
          /\ task[p][s] = "failed" /\ Alone(p) => ~Compiles(p, s)

(* Of every tree: only builders leave the idle stage, and a build that has    *)
(* gone through leaves what is promised of its modules.                       *)
TreeOK(p) ==
    /\ p \notin mode.builders => stage[p] = "idle"
    /\ stage[p] \in {"cleanup", "ok"} =>
          /\ \A s \in Answered(p) : Settled(p, s)
          /\ Alone(p) => \A s \in mode.modules : Compiles(p, s) => s \in Answered(p)

(* A process that has the cache to itself finds what it stored.                    *)
SoleOK(p) ==
    mode.cache /\ mode.builders = {p} =>
       /\ \A e \in cache : e.writer = "none"
       /\ \A s \in Source :
             /\ task[p][s] = "load" => Named(cache, p, s) # {}
             /\ task[p][s] = "write" => Named(tmp, p, s) # {} /\ \A e \in Named(tmp, p, s) : e.writer = p
             /\ task[p][s] = "rename" => Named(tmp, p, s) # {} /\ \A e \in Named(tmp, p, s) : e.writer = "none"

(* The inductive invariant.                                                   *)
BuildInv ==
    /\ BuildType
    /\ \A p \in Proc, s \in Source : ModuleOK(p, s)
    /\ \A p \in Proc : TreeOK(p) /\ SoleOK(p)

-----------------------------------------------------------------------------
(* The code of a module is what its fingerprint hashes, and no special state. *)
LEMMA CodeFacts ==
    ASSUME BuildType, FactsInDeps, NEW p \in Proc, NEW s \in Source
    PROVE  /\ Inputs(s) = DepsOf[s] /\ DepsOf[s] \subseteq File /\ Code(p, s) = Fingerprint(p, s)
           /\ Code(p, s) \in Codes /\ Code(p, s) \in [DepsOf[s] -> Text]
           /\ Code(p, s) \notin Special /\ Code(p, s) # Nothing
<1>1. Inputs(s) = DepsOf[s] /\ DepsOf[s] \subseteq File
  BY DEF FactsInDeps, Inputs
<1>2. Code(p, s) = Fingerprint(p, s)
  BY <1>1 DEF Code, Fingerprint
<1>3. Code(p, s) \in [Inputs(s) -> Text]
  BY <1>1 DEF Code, BuildType
<1>4. QED
  BY <1>1, <1>2, <1>3 DEF Codes, Special

(* Code and fingerprint depend on the texts of the tree alone.                *)
LEMMA SameTexts ==
    ASSUME NEW p \in Proc, content'[p] = content[p], NEW s
    PROVE  /\ Compiles(p, s)' <=> Compiles(p, s)
           /\ Code(p, s)' = Code(p, s)
           /\ Fingerprint(p, s)' = Fingerprint(p, s)
  BY DEF Compiles, Code, Fingerprint

(* What holds of a module, a tree or a lone process is not disturbed by the   *)
(* others.                                                                    *)
LEMMA ModuleSame ==
    ASSUME NEW p \in Proc, NEW s \in Source, ModuleOK(p, s), mode' = mode, content'[p] = content[p],
           stale'[p][s] = stale[p][s], cfile'[p][s] = cfile[p][s], stage'[p] = stage[p],
           task'[p][s] = task[p][s]
    PROVE  ModuleOK(p, s)'
  BY SameTexts DEF ModuleOK, Current, Settled, Alone, OutOfDate

LEMMA TreeSame ==
    ASSUME NEW p \in Proc, TreeOK(p), mode' = mode, content'[p] = content[p], cfile'[p] = cfile[p],
           stage'[p] = stage[p] \/ (stage'[p] = "ok" /\ stage[p] = "cleanup")
    PROVE  TreeOK(p)'
<1>1. \A s : (Compiles(p, s)' <=> Compiles(p, s)) /\ Code(p, s)' = Code(p, s)
  BY SameTexts
<1>2. Answered(p)' = Answered(p) /\ Alone(p)' = Alone(p)
  BY DEF Answered, Alone
<1>3. \A s : Settled(p, s)' <=> Settled(p, s)
  BY <1>1 DEF Settled, Current
<1>4. QED
  BY <1>1, <1>2, <1>3 DEF TreeOK

LEMMA SoleOther ==
    ASSUME NEW p \in Proc, NEW q \in Proc \ {p}, p \in mode.builders, mode' = mode
    PROVE  SoleOK(q)'
  BY DEF SoleOK

(* Only the modules p and s are touched by the step of a task.                     *)
TouchesOnly(p, s) ==
    /\ content' = content
    /\ \A q \in Proc \ {p} : stale'[q] = stale[q] /\ cfile'[q] = cfile[q]
    /\ \A r \in Source \ {s} : stale'[p][r] = stale[p][r] /\ cfile'[p][r] = cfile[p][r]

(* A task moves on: which variables change where.                             *)
LEMMA GotoFacts ==
    ASSUME BuildInv, NEW p \in Proc, NEW s \in Source, NEW from, NEW to, Goto(p, s, from, to)
    PROVE  /\ mode' = mode /\ stage' = stage /\ stage[p] = "run" /\ task[p][s] = from /\ p \in mode.builders
           /\ task'[p][s] = to /\ \A r \in Source \ {s} : task'[p][r] = task[p][r]
           /\ \A q \in Proc \ {p} : task'[q] = task[q]
           /\ to \in {"none", "ok", "failed"} \cup Working =>
                 task' \in [Proc -> [Source -> {"none", "ok", "failed"} \cup Working]]
<1>1. task \in [Proc -> [Source -> {"none", "ok", "failed"} \cup Working]]
  BY DEF BuildInv, BuildType
<1>2. mode' = mode /\ stage' = stage /\ stage[p] = "run" /\ task[p][s] = from /\ task' = [task EXCEPT ![p][s] = to]
  BY DEF Goto
<1>3. p \in mode.builders
  BY <1>2 DEF BuildInv, TreeOK
<1>4. QED
  BY <1>1, <1>2, <1>3

(* To keep the invariant, the step of a task has to keep it for its module    *)
(* and store.                                                                 *)
LEMMA TaskStep ==
    ASSUME BuildInv, BuildType', NEW p \in Proc, NEW s \in Source, NEW from, NEW to, Goto(p, s, from, to),
           TouchesOnly(p, s), ModuleOK(p, s)', SoleOK(p)'
    PROVE  BuildInv'
<1>1. /\ mode' = mode /\ stage' = stage /\ stage[p] = "run" /\ p \in mode.builders
      /\ \A r \in Source \ {s} : task'[p][r] = task[p][r]
      /\ \A q \in Proc \ {p} : task'[q] = task[q]
  BY GotoFacts
<1>2. ASSUME NEW q \in Proc, NEW r \in Source PROVE ModuleOK(q, r)'
  <2>1. CASE q = p /\ r = s
    BY <2>1
  <2>2. CASE ~(q = p /\ r = s)
    <3>1. /\ content'[q] = content[q] /\ stale'[q][r] = stale[q][r] /\ cfile'[q][r] = cfile[q][r]
          /\ stage'[q] = stage[q] /\ task'[q][r] = task[q][r] /\ ModuleOK(q, r)
      BY <1>1, <2>2 DEF TouchesOnly, BuildInv
    <3>2. QED
      BY <1>1, <3>1, ModuleSame
  <2>3. QED
    BY <2>1, <2>2
<1>3. ASSUME NEW q \in Proc PROVE TreeOK(q)'
  <2>1. CASE q = p
    BY <1>1, <2>1 DEF TreeOK
  <2>2. CASE q # p
    <3>1. content'[q] = content[q] /\ cfile'[q] = cfile[q] /\ stage'[q] = stage[q] /\ TreeOK(q)
      BY <1>1, <2>2 DEF TouchesOnly, BuildInv
    <3>2. QED
      BY <1>1, <3>1, TreeSame
  <2>3. QED
    BY <2>1, <2>2
<1>4. ASSUME NEW q \in Proc PROVE SoleOK(q)'
  BY <1>1, SoleOther
<1>5. QED
  BY <1>2, <1>3, <1>4 DEF BuildInv

(* Without a change of the store, a task that begins to load has found an entry.      *)
LEMMA SoleStoreSame ==
    ASSUME BuildInv, NEW p \in Proc, NEW s \in Source, NEW from, NEW to, Goto(p, s, from, to), content' = content,
           UNCHANGED store, to \notin {"write", "rename"}, to = "load" => Named(cache, p, s) # {}
    PROVE  SoleOK(p)'
<1>1. /\ mode' = mode /\ task'[p][s] = to /\ \A r \in Source \ {s} : task'[p][r] = task[p][r]
  BY GotoFacts
<1>2. \A r : Named(cache, p, r)' = Named(cache, p, r) /\ Named(tmp, p, r)' = Named(tmp, p, r)
  BY SameTexts DEF Named, store
<1>3. SoleOK(p)
  BY DEF BuildInv
<1>4. SUFFICES ASSUME mode.cache, mode.builders = {p} PROVE SoleOK(p)'
  BY <1>1 DEF SoleOK
<1>5. cache' = cache
  BY DEF store
<1>6. ASSUME NEW r \in Source
      PROVE  /\ task'[p][r] = "load" => Named(cache, p, r)' # {}
             /\ task'[p][r] = "write" => Named(tmp, p, r)' # {} /\ \A e \in Named(tmp, p, r)' : e.writer = p
             /\ task'[p][r] = "rename" => Named(tmp, p, r)' # {} /\ \A e \in Named(tmp, p, r)' : e.writer = "none"
  <2>1. CASE r = s
    BY <1>1, <1>2, <2>1
  <2>2. CASE r # s
    BY <1>1, <1>2, <1>3, <1>4, <2>2 DEF SoleOK
  <2>3. QED
    BY <2>1, <2>2
<1>7. QED
  BY <1>1, <1>3, <1>4, <1>5, <1>6 DEF SoleOK

(* The three things a task does to its tree: write the C file, change it      *)
(* without giving it a new time, nothing.                                     *)
LEMMA WriteCFacts ==
    ASSUME BuildType, NEW p \in Proc, NEW s \in Source, NEW code \in Codes \cup Special, WriteC(p, s, code)
    PROVE  /\ TouchesOnly(p, s) /\ cfile'[p][s] = code /\ stale'[p][s] = {}
           /\ content' \in [Proc -> [File -> Text]]
           /\ stale' \in [Proc -> [Source -> SUBSET File]]
           /\ cfile' \in [Proc -> [Source -> Codes \cup Special]]
<1>1. /\ content \in [Proc -> [File -> Text]] /\ stale \in [Proc -> [Source -> SUBSET File]]
      /\ cfile \in [Proc -> [Source -> Codes \cup Special]]
  BY DEF BuildType
<1>2. /\ content' = content /\ stale' = [stale EXCEPT ![p][s] = {}] /\ cfile' = [cfile EXCEPT ![p][s] = code]
  BY DEF WriteC
<1>3. /\ cfile' \in [Proc -> [Source -> Codes \cup Special]] /\ cfile'[p][s] = code
      /\ \A r \in Source \ {s} : cfile'[p][r] = cfile[p][r] /\ \A q \in Proc \ {p} : cfile'[q] = cfile[q]
  BY <1>1, <1>2
<1>4. /\ stale' \in [Proc -> [Source -> SUBSET File]] /\ stale'[p][s] = {}
      /\ \A r \in Source \ {s} : stale'[p][r] = stale[p][r]
      /\ \A q \in Proc \ {p} : stale'[q] = stale[q]
  BY <1>1, <1>2
<1>5. \A q \in Proc \ {p} : cfile'[q] = cfile[q]
  BY <1>1, <1>2
<1>6. \A r \in Source \ {s} : cfile'[p][r] = cfile[p][r]
  BY <1>1, <1>2
<1>7. QED
  BY <1>1, <1>2, <1>3, <1>4, <1>5, <1>6 DEF TouchesOnly

(* The tree after a change of one C file alone.                                   *)
CFile(p, s, code) == cfile' = [cfile EXCEPT ![p][s] = code] /\ UNCHANGED <<content, stale>>

LEMMA CFileFacts ==
    ASSUME BuildType, NEW p \in Proc, NEW s \in Source, NEW code \in Codes \cup Special, CFile(p, s, code)
    PROVE  /\ TouchesOnly(p, s) /\ cfile'[p][s] = code /\ stale'[p][s] = stale[p][s]
           /\ content' \in [Proc -> [File -> Text]]
           /\ stale' \in [Proc -> [Source -> SUBSET File]]
           /\ cfile' \in [Proc -> [Source -> Codes \cup Special]]
<1>1. /\ content \in [Proc -> [File -> Text]] /\ stale \in [Proc -> [Source -> SUBSET File]]
      /\ cfile \in [Proc -> [Source -> Codes \cup Special]]
  BY DEF BuildType
<1>2. /\ content' = content /\ stale' = stale /\ cfile' = [cfile EXCEPT ![p][s] = code]
  BY DEF CFile
<1>3. cfile' \in [Proc -> [Source -> Codes \cup Special]] /\ cfile'[p][s] = code
  BY <1>1, <1>2
<1>4. \A q \in Proc \ {p} : cfile'[q] = cfile[q]
  BY <1>1, <1>2
<1>5. \A r \in Source \ {s} : cfile'[p][r] = cfile[p][r]
  BY <1>1, <1>2
<1>6. QED
  BY <1>1, <1>2, <1>3, <1>4, <1>5 DEF TouchesOnly

LEMMA TreeUnchanged ==
    ASSUME BuildType, UNCHANGED tree, NEW p \in Proc, NEW s \in Source
    PROVE  /\ TouchesOnly(p, s) /\ cfile'[p][s] = cfile[p][s] /\ stale'[p][s] = stale[p][s]
           /\ content' \in [Proc -> [File -> Text]]
           /\ stale' \in [Proc -> [Source -> SUBSET File]]
           /\ cfile' \in [Proc -> [Source -> Codes \cup Special]]
  BY DEF tree, TouchesOnly, BuildType

(* The types after the step of a task.                                        *)
LEMMA TaskTypeStep ==
    ASSUME BuildInv, NEW p \in Proc, NEW s \in Source, NEW from, NEW to, Goto(p, s, from, to),
           to \in {"none", "ok", "failed"} \cup Working,
           content' \in [Proc -> [File -> Text]], stale' \in [Proc -> [Source -> SUBSET File]],
           cfile' \in [Proc -> [Source -> Codes \cup Special]], cache' \subseteq Entries, tmp' \subseteq Entries
    PROVE  BuildType'
<1>1. /\ mode' = mode /\ stage' = stage
      /\ task' \in [Proc -> [Source -> {"none", "ok", "failed"} \cup Working]]
  BY GotoFacts
<1>2. QED
  BY <1>1 DEF BuildInv, BuildType

(* Nothing is built and nothing is stored.                                    *)
LEMMA InitBuildInv == ASSUME BuildInit PROVE BuildInv
<1>1. mode.texts \subseteq Text
  BY DEF BuildInit, Text
<1>2. BuildType
  BY <1>1 DEF BuildInit, BuildType, Special, Working
<1>3. ASSUME NEW p \in Proc, NEW s \in Source PROVE ModuleOK(p, s)
  BY DEF BuildInit, ModuleOK, Special
<1>4. ASSUME NEW p \in Proc PROVE TreeOK(p) /\ SoleOK(p)
  BY DEF BuildInit, TreeOK, SoleOK, Named
<1>5. QED
  BY <1>2, <1>3, <1>4 DEF BuildInv

(* What the store holds of a module that compiles is its code.                       *)
LEMMA EntryFacts ==
    ASSUME BuildInv, FactsInDeps, NEW p \in Proc, NEW s \in Source, NEW S \in SUBSET Entries, NEW e \in Named(S, p, s)
    PROVE  /\ e \in Entries /\ e.key = Code(p, s) /\ e.code \in Codes \cup {Nothing}
           /\ Compiles(p, s) => e.code = Code(p, s)
           /\ ~Compiles(p, s) => e.code = Nothing
<1>1. e \in Entries /\ e.source = s /\ e.key = Fingerprint(p, s)
  BY DEF Named
<1>2. BuildType
  BY DEF BuildInv
<1>3. e.key = Code(p, s)
  BY <1>1, <1>2, CodeFacts
<1>4. \A f \in DepsOf[s] : e.key[f] = content[p][f]
  BY <1>1 DEF Fingerprint
<1>5. (\A f \in DepsOf[s] : e.key[f] \notin Bad) <=> Compiles(p, s)
  BY <1>4 DEF Compiles
<1>6. e.code = IF \A f \in DepsOf[s] : e.key[f] \notin Bad THEN e.key ELSE Nothing
  BY <1>1 DEF Entries
<1>7. e.code \in Codes \cup {Nothing}
  BY <1>1 DEF Entries
<1>8. QED
  BY <1>1, <1>3, <1>5, <1>6, <1>7

(* One lemma per action. A task that begins or looks up changes no file.      *)
LEMMA BeginStep == ASSUME BuildInv, NEW p \in Proc, NEW s \in Source, Begin(p, s) PROVE BuildInv'
<1> DEFINE to == IF mode.cache THEN "lookup" ELSE "compile"
<1>1. Goto(p, s, "waiting", to) /\ UNCHANGED tree /\ UNCHANGED store
  BY DEF Begin
<1>2. BuildType /\ ModuleOK(p, s)
  BY DEF BuildInv
<1>3. /\ TouchesOnly(p, s) /\ cfile'[p][s] = cfile[p][s] /\ stale'[p][s] = stale[p][s]
      /\ content' \in [Proc -> [File -> Text]]
      /\ stale' \in [Proc -> [Source -> SUBSET File]]
      /\ cfile' \in [Proc -> [Source -> Codes \cup Special]]
  BY <1>1, <1>2, TreeUnchanged
<1>4. to \in {"none", "ok", "failed"} \cup Working
  BY DEF Working
<1>5. cache' \subseteq Entries /\ tmp' \subseteq Entries
  BY <1>1, <1>2 DEF store, BuildType
<1>6. BuildType'
  BY <1>1, <1>3, <1>4, <1>5, TaskTypeStep
<1>7. content' = content
  BY <1>1 DEF tree
<1>8. SoleOK(p)'
  <2>1. to \notin {"load", "write", "rename"}
    OBVIOUS
  <2>2. QED
    BY <1>1, <1>7, <2>1, SoleStoreSame
<1>9. ModuleOK(p, s)'
  <2>1. mode' = mode /\ stage' = stage /\ stage[p] = "run" /\ task'[p][s] = to
    BY <1>1, GotoFacts
  <2>2. /\ Compiles(p, s)' <=> Compiles(p, s)
        /\ Code(p, s)' = Code(p, s)
    BY <1>7, SameTexts
  <2>3. Current(p, s)' <=> Current(p, s)
    BY <1>3, <2>2 DEF Current
  <2>4. QED
    BY <1>2, <1>3, <2>1, <2>3 DEF ModuleOK
<1>10. QED
  BY <1>1, <1>3, <1>6, <1>8, <1>9, TaskStep

LEMMA LookupStep == ASSUME BuildInv, NEW p \in Proc, NEW s \in Source, Lookup(p, s) PROVE BuildInv'
<1> DEFINE to == IF Named(cache, p, s) # {} THEN "load" ELSE "compile"
<1>1. Goto(p, s, "lookup", to) /\ UNCHANGED tree /\ UNCHANGED store
  BY DEF Lookup
<1>2. BuildType /\ ModuleOK(p, s)
  BY DEF BuildInv
<1>3. /\ TouchesOnly(p, s) /\ cfile'[p][s] = cfile[p][s] /\ stale'[p][s] = stale[p][s]
      /\ content' \in [Proc -> [File -> Text]]
      /\ stale' \in [Proc -> [Source -> SUBSET File]]
      /\ cfile' \in [Proc -> [Source -> Codes \cup Special]]
  BY <1>1, <1>2, TreeUnchanged
<1>4. to \in {"none", "ok", "failed"} \cup Working
  BY DEF Working
<1>5. cache' \subseteq Entries /\ tmp' \subseteq Entries
  BY <1>1, <1>2 DEF store, BuildType
<1>6. BuildType'
  BY <1>1, <1>3, <1>4, <1>5, TaskTypeStep
<1>7. content' = content
  BY <1>1 DEF tree
<1>8. SoleOK(p)'
  <2>1. to \notin {"write", "rename"} /\ (to = "load" => Named(cache, p, s) # {})
    OBVIOUS
  <2>2. QED
    BY <1>1, <1>7, <2>1, SoleStoreSame
<1>9. ModuleOK(p, s)'
  <2>1. mode' = mode /\ stage' = stage /\ stage[p] = "run" /\ task'[p][s] = to /\ task[p][s] = "lookup"
    BY <1>1, GotoFacts
  <2>2. /\ Compiles(p, s)' <=> Compiles(p, s)
        /\ Code(p, s)' = Code(p, s)
    BY <1>7, SameTexts
  <2>3. Current(p, s)' <=> Current(p, s)
    BY <1>3, <2>2 DEF Current
  <2>4. QED
    BY <1>2, <1>3, <2>1, <2>3 DEF ModuleOK
<1>10. QED
  BY <1>1, <1>3, <1>6, <1>8, <1>9, TaskStep

(* A failed task leaves the C file as it was, no C file, or one that counts as no code.   *)
LEMMA FailStep ==
    ASSUME BuildInv, NEW p \in Proc, NEW s \in Source, NEW from, NEW before, Fail(p, s, from, before),
           before = cfile[p][s] \/ before \in Special,
           cache' \subseteq Entries, tmp' \subseteq Entries, SoleOK(p)',
           from \in Working, Alone(p) => ~Compiles(p, s)
    PROVE  BuildInv'
<1> DEFINE code == IF mode.exclude THEN Missing ELSE before
<1>1. Goto(p, s, from, "failed") /\ CFile(p, s, code) /\ content' = content
  BY DEF Fail, CFile
<1>2. BuildType /\ ModuleOK(p, s)
  BY DEF BuildInv
<1>3. code = cfile[p][s] \/ code \in Special
  BY DEF Special
<1>4. code \in Codes \cup Special
  BY <1>2, <1>3 DEF BuildType
<1>5. /\ TouchesOnly(p, s) /\ cfile'[p][s] = code /\ stale'[p][s] = stale[p][s]
      /\ content' \in [Proc -> [File -> Text]]
      /\ stale' \in [Proc -> [Source -> SUBSET File]]
      /\ cfile' \in [Proc -> [Source -> Codes \cup Special]]
  BY <1>1, <1>2, <1>4, CFileFacts
<1>6. BuildType'
  BY <1>1, <1>5, TaskTypeStep
<1>7. ModuleOK(p, s)'
  <2>1. mode' = mode /\ stage' = stage /\ stage[p] = "run" /\ task'[p][s] = "failed"
    BY <1>1, GotoFacts
  <2>2. /\ Compiles(p, s)' <=> Compiles(p, s)
        /\ Code(p, s)' = Code(p, s)
    BY <1>1, SameTexts
  <2>3. cfile'[p][s] \notin Special => (Current(p, s)' <=> Current(p, s)) /\ cfile'[p][s] = cfile[p][s]
    BY <1>3, <1>5, <2>2 DEF Current
  <2>4. mode'.exclude => cfile'[p][s] = Missing
    BY <1>5, <2>1
  <2>5. Alone(p)' => ~Compiles(p, s)'
    BY <2>1, <2>2 DEF Alone
  <2>6. stale'[p][s] = {} /\ cfile'[p][s] \notin Special => Current(p, s)'
    BY <1>2, <1>5, <2>3 DEF ModuleOK
  <2>7. QED
    BY <2>1, <2>4, <2>5, <2>6 DEF ModuleOK
<1>8. QED
  BY <1>1, <1>5, <1>6, <1>7, TaskStep

(* What is loaded is the code of the files as they are, nothing if they do    *)
(* not compile, or a file that was not written to its end.                    *)
LEMMA LoadStep == ASSUME BuildInv, FactsInDeps, NEW p \in Proc, NEW s \in Source, Load(p, s) PROVE BuildInv'
<1>1. task[p][s] = "load" /\ UNCHANGED store
  BY DEF Load
<1>2. BuildType /\ ModuleOK(p, s) /\ SoleOK(p)
  BY DEF BuildInv
<1>3. mode.cache
  BY <1>1, <1>2 DEF ModuleOK
<1>4. cache' \subseteq Entries /\ tmp' \subseteq Entries
  BY <1>1, <1>2 DEF store, BuildType
<1>5. Alone(p) => Named(cache, p, s) # {} /\ \A e \in Named(cache, p, s) : e.writer = "none"
  BY <1>1, <1>2, <1>3 DEF Alone, SoleOK, Named
<1>6. CASE Named(cache, p, s) = {} /\ Fail(p, s, "load", cfile[p][s])
  <2>1. SoleOK(p)'
    BY <1>1, <1>6, SoleStoreSame DEF Fail
  <2>2. QED
    BY <1>4, <1>5, <1>6, <2>1, FailStep DEF Working
<1>7. ASSUME NEW e \in Named(cache, p, s), e.writer # "none", Fail(p, s, "load", cfile[p][s]) PROVE BuildInv'
  <2>1. SoleOK(p)'
    BY <1>1, <1>7, SoleStoreSame DEF Fail
  <2>2. QED
    BY <1>4, <1>5, <1>7, <2>1, FailStep DEF Working
<1>8. ASSUME NEW code \in Codes \cup Special, Goto(p, s, "load", "ok"), WriteC(p, s, code),
             code = Empty \/ (Compiles(p, s) /\ code = Code(p, s))
      PROVE BuildInv'
  <2>1. /\ TouchesOnly(p, s) /\ cfile'[p][s] = code /\ stale'[p][s] = {}
        /\ content' \in [Proc -> [File -> Text]]
        /\ stale' \in [Proc -> [Source -> SUBSET File]]
        /\ cfile' \in [Proc -> [Source -> Codes \cup Special]]
    BY <1>2, <1>8, WriteCFacts
  <2>2. BuildType'
    BY <1>4, <1>8, <2>1, TaskTypeStep DEF Working
  <2>3. content' = content
    BY <1>8 DEF WriteC
  <2>4. SoleOK(p)'
    BY <1>1, <1>8, <2>3, SoleStoreSame
  <2>5. ModuleOK(p, s)'
    <3>1. mode' = mode /\ stage' = stage /\ stage[p] = "run" /\ task'[p][s] = "ok"
      BY <1>8, GotoFacts
    <3>2. /\ Compiles(p, s)' <=> Compiles(p, s)
          /\ Code(p, s)' = Code(p, s)
      BY <2>3, SameTexts
    <3>3. cfile'[p][s] = Empty \/ Current(p, s)'
      BY <1>8, <2>1, <3>2 DEF Current
    <3>4. QED
      BY <3>1, <3>3 DEF ModuleOK, Settled, Special
  <2>6. QED
    BY <1>8, <2>1, <2>2, <2>4, <2>5, TaskStep
<1>9. ASSUME NEW e \in Named(cache, p, s), e.writer # "none", Goto(p, s, "load", "ok"), WriteC(p, s, Empty)
      PROVE BuildInv'
  BY <1>8, <1>9 DEF Special
<1>10. ASSUME NEW e \in Named(cache, p, s), Goto(p, s, "load", "ok"), e.code # Nothing, WriteC(p, s, e.code)
       PROVE BuildInv'
  <2>1. Compiles(p, s) /\ e.code = Code(p, s) /\ e.code \in Codes
    BY <1>2, <1>10, EntryFacts DEF BuildType
  <2>2. QED
    BY <1>8, <1>10, <2>1
<1>11. ASSUME NEW e \in Named(cache, p, s), Goto(p, s, "load", "ok"), e.code = Nothing, UNCHANGED tree
       PROVE BuildInv'
  <2>1. ~Compiles(p, s)
    <3>1. Compiles(p, s) => e.code = Code(p, s)
      BY <1>2, EntryFacts DEF BuildType
    <3>2. QED
      BY <1>2, <1>11, <3>1, CodeFacts
  <2>2. /\ TouchesOnly(p, s) /\ cfile'[p][s] = cfile[p][s] /\ stale'[p][s] = stale[p][s]
        /\ content' \in [Proc -> [File -> Text]]
        /\ stale' \in [Proc -> [Source -> SUBSET File]]
        /\ cfile' \in [Proc -> [Source -> Codes \cup Special]]
    BY <1>2, <1>11, TreeUnchanged
  <2>3. BuildType'
    BY <1>4, <1>11, <2>2, TaskTypeStep DEF Working
  <2>4. content' = content
    BY <1>11 DEF tree
  <2>5. SoleOK(p)'
    BY <1>1, <1>11, <2>4, SoleStoreSame
  <2>6. ModuleOK(p, s)'
    <3>1. mode' = mode /\ stage' = stage /\ stage[p] = "run" /\ task'[p][s] = "ok"
      BY <1>11, GotoFacts
    <3>2. /\ Compiles(p, s)' <=> Compiles(p, s)
          /\ Code(p, s)' = Code(p, s)
      BY <2>4, SameTexts
    <3>3. Current(p, s)' <=> Current(p, s)
      BY <2>2, <3>2 DEF Current
    <3>4. Settled(p, s)'
      BY <1>3, <2>1, <3>1, <3>2 DEF Settled
    <3>5. QED
      BY <1>2, <2>2, <3>1, <3>3, <3>4 DEF ModuleOK
  <2>7. QED
    BY <1>11, <2>2, <2>3, <2>5, <2>6, TaskStep
<1>12. ASSUME NEW e \in Named(cache, p, s), e.writer # "none", NEW part \in {Empty, Torn},
              Goto(p, s, "load", "failed"), WriteC(p, s, IF mode.exclude THEN Missing ELSE part)
       PROVE BuildInv'
  <2> DEFINE left == IF mode.exclude THEN Missing ELSE part
  <2>0. left \in Special
    BY DEF Special
  <2>1. /\ TouchesOnly(p, s) /\ cfile'[p][s] = left
        /\ content' \in [Proc -> [File -> Text]]
        /\ stale' \in [Proc -> [Source -> SUBSET File]]
        /\ cfile' \in [Proc -> [Source -> Codes \cup Special]]
    BY <1>2, <1>12, <2>0, WriteCFacts
  <2>2. BuildType'
    BY <1>4, <1>12, <2>1, TaskTypeStep DEF Working
  <2>3. content' = content
    BY <1>12 DEF WriteC
  <2>4. SoleOK(p)'
    BY <1>1, <1>12, <2>3, SoleStoreSame
  <2>5. ModuleOK(p, s)'
    <3>1. mode' = mode /\ stage' = stage /\ stage[p] = "run" /\ task'[p][s] = "failed"
      BY <1>12, GotoFacts
    <3>2. ~Alone(p)'
      BY <1>5, <1>12, <3>1 DEF Alone
    <3>3. mode'.exclude => cfile'[p][s] = Missing
      BY <2>1, <3>1
    <3>4. QED
      BY <2>0, <2>1, <3>1, <3>2, <3>3 DEF ModuleOK
  <2>6. QED
    BY <1>12, <2>1, <2>2, <2>4, <2>5, TaskStep
<1>13. ASSUME NEW e \in Named(cache, p, s), e.writer # "none", LoadIncomplete(p, s) PROVE BuildInv'
  BY <1>7, <1>9, <1>12, <1>13 DEF LoadIncomplete
<1>14. QED
  BY <1>6, <1>10, <1>11, <1>13 DEF Load

(* What is compiled is current, what fails leaves a special C file.           *)
LEMMA CompileStep == ASSUME BuildInv, FactsInDeps, NEW p \in Proc, NEW s \in Source, Compile(p, s) PROVE BuildInv'
<1>1. task[p][s] = "compile" /\ UNCHANGED store
  BY DEF Compile
<1>2. BuildType /\ ModuleOK(p, s) /\ SoleOK(p)
  BY DEF BuildInv
<1>3. cache' \subseteq Entries /\ tmp' \subseteq Entries
  BY <1>1, <1>2 DEF store, BuildType
<1>4. Castrated(p, s) \in Special
  BY DEF Castrated, Special
<1>5. CASE Compiles(p, s) /\ Goto(p, s, "compile", IF mode.cache THEN "open" ELSE "ok") /\ WriteC(p, s, Code(p, s))
  <2> DEFINE to == IF mode.cache THEN "open" ELSE "ok"
  <2>1. Goto(p, s, "compile", to)
    BY <1>5
  <2>2. Code(p, s) \in Codes
    BY <1>2, CodeFacts
  <2>3. /\ TouchesOnly(p, s) /\ cfile'[p][s] = Code(p, s) /\ stale'[p][s] = {}
        /\ content' \in [Proc -> [File -> Text]]
        /\ stale' \in [Proc -> [Source -> SUBSET File]]
        /\ cfile' \in [Proc -> [Source -> Codes \cup Special]]
    BY <1>2, <1>5, <2>2, WriteCFacts
  <2>4. to \in {"none", "ok", "failed"} \cup Working /\ to \notin {"load", "write", "rename"}
    BY DEF Working
  <2>5. BuildType'
    BY <1>3, <2>1, <2>3, <2>4, TaskTypeStep
  <2>6. content' = content
    BY <1>5 DEF WriteC
  <2>7. SoleOK(p)'
    BY <1>1, <2>1, <2>4, <2>6, SoleStoreSame
  <2>8. ModuleOK(p, s)'
    <3>1. mode' = mode /\ stage' = stage /\ stage[p] = "run" /\ task'[p][s] = to
      BY <2>1, GotoFacts
    <3>2. /\ Compiles(p, s)' <=> Compiles(p, s)
          /\ Code(p, s)' = Code(p, s)
      BY <2>6, SameTexts
    <3>3. Current(p, s)'
      BY <1>5, <2>3, <3>2 DEF Current
    <3>4. QED
      BY <3>1, <3>3 DEF ModuleOK, Settled
  <2>9. QED
    BY <2>1, <2>3, <2>5, <2>7, <2>8, TaskStep
<1>6. CASE ~Compiles(p, s) /\ mode.cache /\ Goto(p, s, "compile", "open") /\ CFile(p, s, Castrated(p, s))
  <2>1. /\ TouchesOnly(p, s) /\ cfile'[p][s] = Castrated(p, s) /\ stale'[p][s] = stale[p][s]
        /\ content' \in [Proc -> [File -> Text]]
        /\ stale' \in [Proc -> [Source -> SUBSET File]]
        /\ cfile' \in [Proc -> [Source -> Codes \cup Special]]
    BY <1>2, <1>4, <1>6, CFileFacts
  <2>2. BuildType'
    BY <1>3, <1>6, <2>1, TaskTypeStep DEF Working
  <2>3. content' = content
    BY <1>6 DEF CFile
  <2>4. SoleOK(p)'
    BY <1>1, <1>6, <2>3, SoleStoreSame
  <2>5. ModuleOK(p, s)'
    <3>1. mode' = mode /\ stage' = stage /\ stage[p] = "run" /\ task'[p][s] = "open"
      BY <1>6, GotoFacts
    <3>2. ~Compiles(p, s)'
      BY <1>6, <2>3, SameTexts
    <3>3. QED
      BY <1>4, <1>6, <2>1, <3>1, <3>2 DEF ModuleOK
  <2>6. QED
    BY <1>6, <2>1, <2>2, <2>4, <2>5, TaskStep
<1>7. CASE ~Compiles(p, s) /\ Fail(p, s, "compile", Castrated(p, s))
  <2>1. SoleOK(p)'
    BY <1>1, <1>7, SoleStoreSame DEF Fail
  <2>2. QED
    BY <1>3, <1>4, <1>7, <2>1, FailStep DEF Working
<1>8. QED
  BY <1>5, <1>6, <1>7 DEF Compile, CFile

(* A task that goes on without touching a C file.                             *)
LEMMA StayStep ==
    ASSUME BuildInv, NEW p \in Proc, NEW s \in Source, NEW from, NEW to \in Working \cup {"ok"}, Goto(p, s, from, to),
           UNCHANGED tree, cache' \subseteq Entries, tmp' \subseteq Entries, SoleOK(p)',
           to \in {"lookup", "load", "open", "write", "rename"} => mode.cache,
           to \in {"open", "write", "rename"} /\ Compiles(p, s) => Current(p, s),
           to = "ok" => Settled(p, s)
    PROVE  BuildInv'
<1>1. BuildType /\ ModuleOK(p, s)
  BY DEF BuildInv
<1>2. /\ TouchesOnly(p, s) /\ cfile'[p][s] = cfile[p][s] /\ stale'[p][s] = stale[p][s]
      /\ content' \in [Proc -> [File -> Text]]
      /\ stale' \in [Proc -> [Source -> SUBSET File]]
      /\ cfile' \in [Proc -> [Source -> Codes \cup Special]]
  BY <1>1, TreeUnchanged
<1>3. BuildType'
  BY <1>2, TaskTypeStep
<1>4. ModuleOK(p, s)'
  <2>1. mode' = mode /\ stage' = stage /\ stage[p] = "run" /\ task'[p][s] = to
    BY GotoFacts
  <2>2. /\ Compiles(p, s)' <=> Compiles(p, s)
        /\ Code(p, s)' = Code(p, s)
    BY SameTexts DEF tree
  <2>3. Current(p, s)' <=> Current(p, s)
    BY <1>2, <2>2 DEF Current
  <2>4. Settled(p, s)' <=> Settled(p, s)
    BY <1>2, <2>1, <2>2, <2>3 DEF Settled
  <2>5. QED
    BY <1>1, <1>2, <2>1, <2>2, <2>3, <2>4 DEF ModuleOK, Working
<1>5. QED
  BY <1>2, <1>3, <1>4, TaskStep

(* The entries of the other modules are not touched by what a task does to those of s.   *)
LEMMA OpenTmpStep == ASSUME BuildInv, FactsInDeps, NEW p \in Proc, NEW s \in Source, OpenTmp(p, s) PROVE BuildInv'
<1> DEFINE code == IF Compiles(p, s) THEN Code(p, s) ELSE Nothing
<1> DEFINE e == Entry(s, Fingerprint(p, s), code, p)
<1>1. Goto(p, s, "open", "write") /\ UNCHANGED tree /\ cache' = cache /\ tmp' = (tmp \ Named(tmp, p, s)) \cup {e}
  BY DEF OpenTmp
<1>2. BuildType /\ ModuleOK(p, s) /\ SoleOK(p)
  BY DEF BuildInv
<1>3. e.source = s /\ e.key = Fingerprint(p, s) /\ e.code = code /\ e.writer = p
  BY DEF Entry
<1>4. e \in Entries
  <2>1. /\ Code(p, s) = Fingerprint(p, s)
        /\ Code(p, s) \in Codes /\ Code(p, s) \in [DepsOf[s] -> Text]
    BY <1>2, CodeFacts
  <2>2. (\A f \in DepsOf[s] : e.key[f] \notin Bad) <=> Compiles(p, s)
    BY <1>3 DEF Fingerprint, Compiles
  <2>3. e \in [source : Source, key : Codes, code : Codes \cup {Nothing}, writer : Proc \cup {"none", "dead"}]
    BY <2>1 DEF Entry
  <2>4. e.code = IF \A f \in DepsOf[e.source] : e.key[f] \notin Bad THEN e.key ELSE Nothing
    BY <1>3, <2>1, <2>2
  <2>5. QED
    BY <1>3, <2>1, <2>3, <2>4 DEF Entries
<1>5. cache' \subseteq Entries /\ tmp' \subseteq Entries
  BY <1>1, <1>2, <1>4 DEF BuildType
<1>6. \A r : Fingerprint(p, r)' = Fingerprint(p, r)
  BY <1>1, SameTexts DEF tree
<1>7. Named(tmp, p, s)' = {e}
  BY <1>1, <1>3, <1>6 DEF Named
<1>8. \A r \in Source \ {s} : Named(tmp, p, r)' = Named(tmp, p, r)
  BY <1>1, <1>3, <1>6 DEF Named
<1>9. \A r \in Source : Named(cache, p, r)' = Named(cache, p, r)
  BY <1>1, <1>6 DEF Named
<1>10. SoleOK(p)'
  <2>1. mode' = mode /\ task'[p][s] = "write" /\ \A r \in Source \ {s} : task'[p][r] = task[p][r]
    BY <1>1, GotoFacts
  <2>2. SUFFICES ASSUME mode.cache, mode.builders = {p} PROVE SoleOK(p)'
    BY <2>1 DEF SoleOK
  <2>3. ASSUME NEW r \in Source
        PROVE  /\ task'[p][r] = "load" => Named(cache, p, r)' # {}
               /\ task'[p][r] = "write" => Named(tmp, p, r)' # {} /\ \A x \in Named(tmp, p, r)' : x.writer = p
               /\ task'[p][r] = "rename" => Named(tmp, p, r)' # {} /\ \A x \in Named(tmp, p, r)' : x.writer = "none"
    <3>1. CASE r = s
      BY <1>3, <1>7, <2>1, <3>1
    <3>2. CASE r # s
      BY <1>2, <1>8, <1>9, <2>1, <2>2, <3>2 DEF SoleOK
    <3>3. QED
      BY <3>1, <3>2
  <2>4. QED
    BY <1>1, <1>2, <2>2, <2>3 DEF SoleOK
<1>11. mode.cache /\ (Compiles(p, s) => Current(p, s))
  BY <1>1, <1>2 DEF Goto, ModuleOK
<1>12. QED
  BY <1>1, <1>5, <1>10, <1>11, StayStep DEF Working

(* Writing to its end what one has opened changes who writes it, and no other *)
(* entry.                                                                     *)
LEMMA WrittenFacts ==
    ASSUME NEW S \in SUBSET Entries, NEW p \in Proc, NEW s \in Source
    PROVE  /\ Written(S, p, s) \subseteq Entries
           /\ Named(S, p, s) # {} => Named(Written(S, p, s), p, s) # {}
           /\ (\A e \in Named(S, p, s) : e.writer = p) => \A e \in Named(Written(S, p, s), p, s) : e.writer = "none"
<1> DEFINE W(e) == IF e.writer = p /\ e \in Named(S, p, s) THEN [e EXCEPT !.writer = "none"] ELSE e
<1>1. Written(S, p, s) = {W(e) : e \in S}
  BY DEF Written
<1>2. \A e \in S : e \in [source : Source, key : Codes, code : Codes \cup {Nothing}, writer : Proc \cup {"none", "dead"}]
  BY DEF Entries
<1>3. ASSUME NEW e \in S
      PROVE  /\ W(e) \in [source : Source, key : Codes, code : Codes \cup {Nothing}, writer : Proc \cup {"none", "dead"}]
             /\ W(e).source = e.source /\ W(e).key = e.key /\ W(e).code = e.code
             /\ e.writer = p /\ e \in Named(S, p, s) => W(e).writer = "none"
             /\ e \notin Named(S, p, s) => W(e) = e
             /\ e.writer # p => W(e) = e
  BY <1>2, <1>3
<1>4. \A e \in S : W(e) \in Entries
  BY <1>3 DEF Entries
<1> HIDE DEF W
<1>5. Written(S, p, s) \subseteq Entries
  BY <1>1, <1>4
<1>6. Named(S, p, s) # {} => Named(Written(S, p, s), p, s) # {}
  BY <1>1, <1>3 DEF Named
<1>7. (\A e \in Named(S, p, s) : e.writer = p) => \A e \in Named(Written(S, p, s), p, s) : e.writer = "none"
  BY <1>1, <1>3 DEF Named
<1>8. QED
  BY <1>5, <1>6, <1>7

LEMMA OthersNotWritten ==
    ASSUME NEW S \in SUBSET Entries, NEW p, NEW s, NEW r, r # s
    PROVE  Named(Written(S, p, s), p, r) = Named(S, p, r)
<1> DEFINE W(e) == IF e.writer = p /\ e \in Named(S, p, s) THEN [e EXCEPT !.writer = "none"] ELSE e
<1>1. Written(S, p, s) = {W(e) : e \in S}
  BY DEF Written
<1>2. ASSUME NEW e \in S
      PROVE  W(e).source = e.source /\ (e.source # s => W(e) = e)
  <2>1. e \in [source : Source, key : Codes, code : Codes \cup {Nothing}, writer : Proc \cup {"none", "dead"}]
    BY DEF Entries
  <2>2. QED
    BY <2>1 DEF Named
<1> HIDE DEF W
<1>3. QED
  BY <1>1, <1>2 DEF Named

LEMMA NothingToWrite ==
    ASSUME NEW S, NEW p \in Proc, NEW s, \A e \in S : e.writer = "none"
    PROVE  Written(S, p, s) = S
<1>1. \A e \in S : e.writer # p
  OBVIOUS
<1>2. Written(S, p, s) = {e : e \in S}
  BY <1>1 DEF Written
<1>3. QED
  BY <1>2

LEMMA WriteTmpStep == ASSUME BuildInv, NEW p \in Proc, NEW s \in Source, WriteTmp(p, s) PROVE BuildInv'
<1>1. Goto(p, s, "write", "rename") /\ UNCHANGED tree /\ tmp' = Written(tmp, p, s) /\ cache' = Written(cache, p, s)
  BY DEF WriteTmp
<1>2. BuildType /\ ModuleOK(p, s) /\ SoleOK(p)
  BY DEF BuildInv
<1>3. tmp \in SUBSET Entries /\ cache \in SUBSET Entries
  BY <1>2 DEF BuildType
<1>4. cache' \subseteq Entries /\ tmp' \subseteq Entries
  <2>1. Written(tmp, p, s) \subseteq Entries /\ Written(cache, p, s) \subseteq Entries
    BY <1>3, WrittenFacts
  <2>2. QED
    BY <1>1, <2>1
<1>5. \A S, r : Named(S, p, r)' = Named(S', p, r)
  BY <1>1, SameTexts DEF tree, Named
<1>6. SoleOK(p)'
  <2>1. /\ mode' = mode /\ task[p][s] = "write" /\ task'[p][s] = "rename"
        /\ \A r \in Source \ {s} : task'[p][r] = task[p][r]
    BY <1>1, GotoFacts
  <2>2. SUFFICES ASSUME mode.cache, mode.builders = {p} PROVE SoleOK(p)'
    BY <2>1 DEF SoleOK
  <2>3. \A e \in cache : e.writer = "none"
    BY <1>2, <2>2 DEF SoleOK
  <2>4. cache' = cache
    <3>1. Written(cache, p, s) = cache
      BY <2>3, NothingToWrite
    <3>2. QED
      BY <1>1, <3>1
  <2>5. Named(tmp, p, s)' # {} /\ \A e \in Named(tmp, p, s)' : e.writer = "none"
    <3>1. Named(tmp, p, s) # {} /\ \A e \in Named(tmp, p, s) : e.writer = p
      BY <1>2, <2>1, <2>2 DEF SoleOK
    <3>2. /\ Named(Written(tmp, p, s), p, s) # {}
          /\ \A e \in Named(Written(tmp, p, s), p, s) : e.writer = "none"
      BY <1>3, <3>1, WrittenFacts
    <3>3. Named(tmp', p, s) # {} /\ \A e \in Named(tmp', p, s) : e.writer = "none"
      BY <1>1, <3>2
    <3>4. QED
      BY <1>5, <3>3
  <2>6. \A r \in Source \ {s} : Named(tmp, p, r)' = Named(tmp, p, r)
    <3>1. ASSUME NEW r \in Source \ {s} PROVE Named(Written(tmp, p, s), p, r) = Named(tmp, p, r)
      <4>1. r # s
        OBVIOUS
      <4>2. QED
        BY <1>3, <4>1, OthersNotWritten
    <3>2. \A r \in Source \ {s} : Named(tmp', p, r) = Named(tmp, p, r)
      BY <1>1, <3>1
    <3>3. QED
      BY <1>5, <3>2
  <2>7. \A r \in Source : Named(cache, p, r)' = Named(cache, p, r)
    BY <1>5, <2>4
  <2>8. ASSUME NEW r \in Source
        PROVE  /\ task'[p][r] = "load" => Named(cache, p, r)' # {}
               /\ task'[p][r] = "write" => Named(tmp, p, r)' # {} /\ \A x \in Named(tmp, p, r)' : x.writer = p
               /\ task'[p][r] = "rename" => Named(tmp, p, r)' # {} /\ \A x \in Named(tmp, p, r)' : x.writer = "none"
    <3>1. CASE r = s
      BY <2>1, <2>5, <3>1
    <3>2. CASE r # s
      BY <1>2, <2>1, <2>2, <2>6, <2>7, <3>2 DEF SoleOK
    <3>3. QED
      BY <3>1, <3>2
  <2>9. QED
    BY <2>2, <2>3, <2>4, <2>8 DEF SoleOK
<1>7. mode.cache /\ (Compiles(p, s) => Current(p, s))
  BY <1>1, <1>2 DEF Goto, ModuleOK
<1>8. QED
  BY <1>1, <1>4, <1>6, <1>7, StayStep DEF Working

(* A lone process finds what it has written; another's rename may have taken  *)
(* it.                                                                        *)
LEMMA RenameStep == ASSUME BuildInv, NEW p \in Proc, NEW s \in Source, Rename(p, s) PROVE BuildInv'
<1>1. task[p][s] = "rename"
  BY DEF Rename
<1>2. BuildType /\ ModuleOK(p, s) /\ SoleOK(p)
  BY DEF BuildInv
<1>3. mode.cache /\ (Compiles(p, s) => Current(p, s))
  BY <1>1, <1>2 DEF ModuleOK
<1>4. CASE Named(tmp, p, s) = {} /\ Fail(p, s, "rename", cfile[p][s]) /\ UNCHANGED store
  <2>1. SoleOK(p)'
    BY <1>4, SoleStoreSame DEF Fail
  <2>2. cache' \subseteq Entries /\ tmp' \subseteq Entries
    BY <1>2, <1>4 DEF store, BuildType
  <2>3. ~Alone(p)
    BY <1>1, <1>2, <1>3, <1>4 DEF Alone, SoleOK
  <2>4. QED
    BY <1>4, <2>1, <2>2, <2>3, FailStep DEF Working
<1>5. ASSUME Named(tmp, p, s) # {}, cache' = (cache \ Named(cache, p, s)) \cup Named(tmp, p, s),
             tmp' = tmp \ Named(tmp, p, s),
             IF Compiles(p, s) THEN Goto(p, s, "rename", "ok") /\ UNCHANGED tree
                               ELSE Fail(p, s, "rename", cfile[p][s])
      PROVE BuildInv'
  <2> DEFINE to == IF Compiles(p, s) THEN "ok" ELSE "failed"
  <2>1. Goto(p, s, "rename", to) /\ content' = content
    BY <1>5 DEF tree, Fail
  <2>2. cache' \subseteq Entries /\ tmp' \subseteq Entries
    BY <1>2, <1>5 DEF BuildType, Named
  <2>3. SoleOK(p)'
    <3>1. /\ mode' = mode /\ task'[p][s] = to
          /\ \A r \in Source \ {s} : task'[p][r] = task[p][r]
      BY <2>1, GotoFacts
    <3>2. SUFFICES ASSUME mode.cache, mode.builders = {p} PROVE SoleOK(p)'
      BY <3>1 DEF SoleOK
    <3>3. \A r : Fingerprint(p, r)' = Fingerprint(p, r)
      BY <2>1, SameTexts
    <3>4. \A r \in Source \ {s} : Named(tmp, p, r)' = Named(tmp, p, r) /\ Named(cache, p, r)' = Named(cache, p, r)
      BY <1>5, <3>3 DEF Named
    <3>5. \A e \in cache' : e.writer = "none"
      BY <1>1, <1>2, <1>5, <3>2 DEF SoleOK
    <3>6. ASSUME NEW r \in Source
          PROVE  /\ task'[p][r] = "load" => Named(cache, p, r)' # {}
                 /\ task'[p][r] = "write" => Named(tmp, p, r)' # {} /\ \A x \in Named(tmp, p, r)' : x.writer = p
                 /\ task'[p][r] = "rename" => Named(tmp, p, r)' # {} /\ \A x \in Named(tmp, p, r)' : x.writer = "none"
      <4>1. CASE r = s
        BY <3>1, <4>1
      <4>2. CASE r # s
        BY <1>2, <3>1, <3>2, <3>4, <4>2 DEF SoleOK
      <4>3. QED
        BY <4>1, <4>2
    <3>7. QED
      BY <3>2, <3>5, <3>6 DEF SoleOK
  <2>4. CASE Compiles(p, s)
    BY <1>3, <1>5, <2>2, <2>3, <2>4, StayStep DEF Settled
  <2>5. CASE ~Compiles(p, s)
    BY <1>5, <2>2, <2>3, <2>5, FailStep DEF Working
  <2>6. QED
    BY <2>4, <2>5
<1>6. QED
  BY <1>4, <1>5 DEF Rename

(* A step of one process leaves the trees and the tasks of the others alone.            *)
OnlyOf(p) ==
    \A q \in Proc \ {p} : /\ content'[q] = content[q] /\ stale'[q] = stale[q] /\ cfile'[q] = cfile[q]
                          /\ stage'[q] = stage[q] /\ task'[q] = task[q]

(* To keep the invariant, a step of a process has to keep it for its own      *)
(* tree.                                                                      *)
LEMMA ProcStep ==
    ASSUME BuildInv, BuildType', NEW p \in Proc, p \in mode.builders, mode' = mode, OnlyOf(p),
           \A s \in Source : ModuleOK(p, s)', TreeOK(p)', SoleOK(p)'
    PROVE  BuildInv'
<1>1. ASSUME NEW q \in Proc, NEW s \in Source PROVE ModuleOK(q, s)'
  <2>1. CASE q = p
    BY <2>1
  <2>2. CASE q # p
    <3>1. ModuleOK(q, s)
      BY DEF BuildInv
    <3>2. QED
      BY <2>2, <3>1, ModuleSame DEF OnlyOf
  <2>3. QED
    BY <2>1, <2>2
<1>2. ASSUME NEW q \in Proc PROVE TreeOK(q)'
  <2>1. CASE q = p
    BY <2>1
  <2>2. CASE q # p
    <3>1. TreeOK(q)
      BY DEF BuildInv
    <3>2. QED
      BY <2>2, <3>1, TreeSame DEF OnlyOf
  <2>3. QED
    BY <2>1, <2>2
<1>3. ASSUME NEW q \in Proc PROVE SoleOK(q)'
  BY SoleOther
<1>4. QED
  BY <1>1, <1>2, <1>3 DEF BuildInv

(* Without tasks, nothing is expected of the store but that the process writes nothing.   *)
LEMMA SoleNoTask ==
    ASSUME NEW p \in Proc, \A s \in Source : task'[p][s] \notin {"load", "write", "rename"},
           mode' = mode, SoleOK(p), cache' \subseteq cache
    PROVE  SoleOK(p)'
  BY DEF SoleOK

(* An edit makes every C file stale whose code it changes: all inputs are     *)
(* dependencies.                                                              *)
LEMMA EditStep ==
    ASSUME BuildInv, FactsInDeps, NEW p \in Proc, NEW f \in File, NEW x \in mode.texts, Edit(p, f, x)
    PROVE  BuildInv'
<1>1. /\ p \in mode.builders /\ Idle(p) /\ mode' = mode /\ cfile' = cfile /\ task' = task
      /\ cache' = cache /\ tmp' = tmp
      /\ content' = [content EXCEPT ![p][f] = x] /\ stage' = [stage EXCEPT ![p] = "idle"]
      /\ stale' = [stale EXCEPT ![p] = [s \in Source |-> IF f \in DepsOf[s] THEN stale[p][s] \cup {f} ELSE stale[p][s]]]
  BY DEF Edit, store
<1>2. BuildType /\ SoleOK(p) /\ x \in Text
  BY DEF BuildInv, BuildType, Text
<1>3. /\ content \in [Proc -> [File -> Text]] /\ stale \in [Proc -> [Source -> SUBSET File]]
      /\ stage \in [Proc -> {"idle", "run", "cleanup", "ok", "raised"}]
  BY <1>2 DEF BuildType
<1>4. content' \in [Proc -> [File -> Text]] /\ \A g \in File \ {f} : content'[p][g] = content[p][g]
  BY <1>1, <1>2, <1>3
<1>5. /\ stale' \in [Proc -> [Source -> SUBSET File]]
      /\ \A s \in Source : stale'[p][s] = IF f \in DepsOf[s] THEN stale[p][s] \cup {f} ELSE stale[p][s]
  BY <1>1, <1>3
<1>6. stage' \in [Proc -> {"idle", "run", "cleanup", "ok", "raised"}] /\ stage'[p] = "idle"
  BY <1>1, <1>3
<1>7. OnlyOf(p)
  BY <1>1, <1>3 DEF OnlyOf
<1>8. BuildType'
  BY <1>1, <1>2, <1>4, <1>5, <1>6 DEF BuildType
<1>9. \A s \in Source : task[p][s] = "none"
  BY <1>1 DEF BuildInv, ModuleOK, Idle
<1>10. ASSUME NEW s \in Source PROVE ModuleOK(p, s)'
  <2>1. ModuleOK(p, s)
    BY DEF BuildInv
  <2>2. ASSUME stale'[p][s] = {}, cfile'[p][s] \notin Special PROVE Current(p, s)'
    <3>1. f \notin DepsOf[s] /\ stale[p][s] = {}
      BY <1>5, <2>2
    <3>2. Current(p, s)
      BY <1>1, <2>1, <2>2, <3>1 DEF ModuleOK
    <3>3. \A g \in DepsOf[s] : content'[p][g] = content[p][g]
      BY <1>4, <3>1
    <3>4. Inputs(s) = DepsOf[s]
      BY <1>2, CodeFacts
    <3>5. Compiles(p, s)' <=> Compiles(p, s)
      BY <3>3 DEF Compiles
    <3>6. Code(p, s)' = Code(p, s)
      BY <3>3, <3>4 DEF Code
    <3>7. QED
      BY <1>1, <3>2, <3>5, <3>6 DEF Current
  <2>3. QED
    BY <1>1, <1>6, <1>9, <2>2 DEF ModuleOK
<1>11. TreeOK(p)'
  BY <1>1, <1>6 DEF TreeOK
<1>12. SoleOK(p)'
  BY <1>1, <1>2, <1>9, SoleNoTask
<1>13. QED
  BY <1>1, <1>7, <1>8, <1>10, <1>11, <1>12, ProcStep

(* What is not planned is not out of date.                                    *)
LEMMA PlanStep == ASSUME BuildInv, NEW p \in Proc, NEW force \in BOOLEAN, Plan(p, force) PROVE BuildInv'
<1> DEFINE T == [s \in Source |-> IF s \in mode.modules /\ (force \/ OutOfDate(p, s)) THEN "waiting" ELSE "none"]
<1>1. /\ p \in mode.builders /\ stage' = [stage EXCEPT ![p] = "run"] /\ task' = [task EXCEPT ![p] = T]
      /\ mode' = mode /\ content' = content /\ stale' = stale /\ cfile' = cfile /\ cache' = cache /\ tmp' = tmp
  BY DEF Plan, tree, store
<1>2. BuildType /\ SoleOK(p)
  BY DEF BuildInv
<1>3. /\ stage \in [Proc -> {"idle", "run", "cleanup", "ok", "raised"}]
      /\ task \in [Proc -> [Source -> {"none", "ok", "failed"} \cup Working]]
      /\ T \in [Source -> {"none", "ok", "failed"} \cup Working]
  BY <1>2 DEF BuildType, Working
<1>4. stage' \in [Proc -> {"idle", "run", "cleanup", "ok", "raised"}] /\ stage'[p] = "run"
  BY <1>1, <1>3
<1>5. task' \in [Proc -> [Source -> {"none", "ok", "failed"} \cup Working]] /\ task'[p] = T
  BY <1>1, <1>3
<1>6. OnlyOf(p)
  BY <1>1, <1>3 DEF OnlyOf
<1>7. BuildType'
  BY <1>1, <1>2, <1>4, <1>5 DEF BuildType
<1>8. ASSUME NEW s \in Source PROVE ModuleOK(p, s)'
  <2>1. ModuleOK(p, s)
    BY DEF BuildInv
  <2>2. /\ task'[p][s] \in {"waiting", "none"}
        /\ task'[p][s] = "none" /\ s \in mode.modules => ~OutOfDate(p, s)
    BY <1>5
  <2>3. Current(p, s)' <=> Current(p, s)
    BY <1>1, SameTexts DEF Current
  <2>4. OutOfDate(p, s)' <=> OutOfDate(p, s)
    BY <1>1 DEF OutOfDate
  <2>5. QED
    BY <1>1, <1>4, <2>1, <2>2, <2>3, <2>4 DEF ModuleOK
<1>9. TreeOK(p)'
  BY <1>1, <1>4 DEF TreeOK
<1>10. SoleOK(p)'
  <2>1. \A s \in Source : task'[p][s] \notin {"load", "write", "rename"}
    BY <1>5
  <2>2. QED
    BY <1>1, <1>2, <2>1, SoleNoTask
<1>11. QED
  BY <1>1, <1>6, <1>7, <1>8, <1>9, <1>10, ProcStep

(* Processes stay as they are but for the stage of one, whose tasks have ended.          *)
LEMMA StageStep ==
    ASSUME BuildInv, NEW p \in Proc, p \in mode.builders, NEW to \in {"cleanup", "ok", "raised"},
           stage' = [stage EXCEPT ![p] = to], task' = [task EXCEPT ![p] = [s \in Source |-> "none"]],
           UNCHANGED mode, UNCHANGED tree, cache' \subseteq cache, tmp' \subseteq tmp,
           to \in {"cleanup", "ok"} =>
              /\ \A s \in Answered(p) : Settled(p, s)
              /\ Alone(p) => \A s \in mode.modules : Compiles(p, s) => s \in Answered(p)
    PROVE  BuildInv'
<1>1. content' = content /\ stale' = stale /\ cfile' = cfile
  BY DEF tree
<1>2. BuildType /\ SoleOK(p)
  BY DEF BuildInv
<1>3. /\ stage \in [Proc -> {"idle", "run", "cleanup", "ok", "raised"}]
      /\ task \in [Proc -> [Source -> {"none", "ok", "failed"} \cup Working]]
  BY <1>2 DEF BuildType
<1>4. stage' \in [Proc -> {"idle", "run", "cleanup", "ok", "raised"}] /\ stage'[p] = to
  BY <1>3
<1>5. /\ task' \in [Proc -> [Source -> {"none", "ok", "failed"} \cup Working]]
      /\ \A s \in Source : task'[p][s] = "none"
  BY <1>3
<1>6. OnlyOf(p)
  BY <1>1, <1>3 DEF OnlyOf
<1>7. BuildType'
  BY <1>1, <1>2, <1>4, <1>5 DEF BuildType
<1>8. \A s : (Current(p, s)' <=> Current(p, s)) /\ (Compiles(p, s)' <=> Compiles(p, s))
  BY <1>1, SameTexts DEF Current
<1>9. ASSUME NEW s \in Source PROVE ModuleOK(p, s)'
  <2>1. ModuleOK(p, s)
    BY DEF BuildInv
  <2>2. QED
    BY <1>1, <1>4, <1>5, <1>8, <2>1 DEF ModuleOK
<1>10. TreeOK(p)'
  <2>1. Answered(p)' = Answered(p) /\ Alone(p)' = Alone(p)
    BY <1>1 DEF Answered, Alone
  <2>2. \A s : Settled(p, s)' <=> Settled(p, s)
    BY <1>1, <1>8 DEF Settled
  <2>3. QED
    BY <1>4, <1>8, <2>1, <2>2 DEF TreeOK
<1>11. SoleOK(p)'
  BY <1>2, <1>5, SoleNoTask
<1>12. QED
  BY <1>6, <1>7, <1>9, <1>10, <1>11, ProcStep

(* When nothing is left to do, every module of the call is as it should be.                *)
LEMMA FinishStep == ASSUME BuildInv, FactsInDeps, NEW p \in Proc, Finish(p) PROVE BuildInv'
<1> DEFINE to == IF Failed(p) /\ ~mode.exclude THEN "raised" ELSE IF mode.cache THEN "cleanup" ELSE "ok"
<1>1. /\ stage[p] = "run"
      /\ \A s \in Source : task[p][s] \in Working => task[p][s] = "waiting" /\ Failed(p) /\ ~mode.exclude
      /\ stage' = [stage EXCEPT ![p] = to]
      /\ task' = [task EXCEPT ![p] = [s \in Source |-> "none"]]
      /\ UNCHANGED mode /\ UNCHANGED tree /\ cache' = cache /\ tmp' = tmp
  BY DEF Finish, store
<1>2. BuildType /\ p \in mode.builders
  BY <1>1 DEF BuildInv, TreeOK
<1>3. ASSUME to # "raised", NEW s \in Source, s \in mode.modules
      PROVE  s \in Answered(p) => Settled(p, s)
  <2>1. ModuleOK(p, s)
    BY DEF BuildInv
  <2>2. task[p][s] \in {"none", "ok", "failed"} /\ (task[p][s] = "failed" => mode.exclude)
    BY <1>1, <1>2, <1>3 DEF BuildType, Failed
  <2>3. CASE task[p][s] = "none"
    <3>1. ~OutOfDate(p, s)
      BY <1>1, <1>3, <2>1, <2>3 DEF ModuleOK
    <3>2. QED
      BY <2>1, <3>1 DEF ModuleOK, OutOfDate, Settled, Special
  <2>4. CASE task[p][s] = "ok"
    BY <1>1, <1>3, <2>1, <2>4 DEF ModuleOK
  <2>5. CASE task[p][s] = "failed"
    BY <1>1, <1>3, <2>1, <2>2, <2>5 DEF ModuleOK, Answered
  <2>6. QED
    BY <2>2, <2>3, <2>4, <2>5
<1>4. ASSUME to # "raised", Alone(p), NEW s \in Source, s \in mode.modules, Compiles(p, s)
      PROVE  s \in Answered(p)
  <2>1. ModuleOK(p, s)
    BY DEF BuildInv
  <2>2. task[p][s] \in {"none", "ok", "failed"}
    BY <1>1, <1>2, <1>4 DEF BuildType, Failed
  <2>3. CASE task[p][s] = "none"
    <3>1. ~OutOfDate(p, s)
      BY <1>1, <1>4, <2>1, <2>3 DEF ModuleOK
    <3>2. QED
      BY <1>4, <3>1 DEF OutOfDate, Answered
  <2>4. CASE task[p][s] = "ok"
    <3>1. Settled(p, s)
      BY <1>1, <1>4, <2>1, <2>4 DEF ModuleOK
    <3>2. Code(p, s) \notin Special
      BY <1>2, CodeFacts
    <3>3. cfile[p][s] \notin {Missing, Dead}
      BY <1>4, <3>1, <3>2 DEF Settled, Current, Special
    <3>4. QED
      BY <1>4, <3>3 DEF Answered
  <2>5. CASE task[p][s] = "failed"
    BY <1>1, <1>4, <2>1, <2>5 DEF ModuleOK
  <2>6. QED
    BY <2>2, <2>3, <2>4, <2>5
<1>5. mode.modules \subseteq Source /\ Answered(p) \subseteq mode.modules
  BY <1>2 DEF BuildType, Answered
<1>6. to \in {"cleanup", "ok"} => /\ \A s \in Answered(p) : Settled(p, s)
                                  /\ Alone(p) => \A s \in mode.modules : Compiles(p, s) => s \in Answered(p)
  BY <1>3, <1>4, <1>5
<1>7. to \in {"cleanup", "ok", "raised"} /\ cache' \subseteq cache /\ tmp' \subseteq tmp
  BY <1>1
<1> HIDE DEF to
<1>8. QED
  BY <1>1, <1>2, <1>6, <1>7, StageStep

(* Removing entries disturbs nobody who is alone: his tasks have ended.       *)
LEMMA CleanupStep == ASSUME BuildInv, NEW p \in Proc, Unlink(p) \/ EndCleanup(p) PROVE BuildInv'
<1>1. /\ stage[p] = "cleanup" /\ UNCHANGED <<mode, tree, task>>
      /\ cache' \subseteq cache /\ tmp' \subseteq tmp
  BY DEF Unlink, EndCleanup, store
<1>2. BuildType /\ TreeOK(p) /\ p \in mode.builders
  BY <1>1 DEF BuildInv, TreeOK
<1>3. task[p] = [s \in Source |-> "none"]
  <2>1. \A s \in Source : task[p][s] = "none"
    BY <1>1 DEF BuildInv, ModuleOK
  <2>2. task[p] \in [Source -> {"none", "ok", "failed"} \cup Working]
    BY <1>2 DEF BuildType
  <2>3. QED
    BY <2>1, <2>2
<1>4. task' = [task EXCEPT ![p] = [s \in Source |-> "none"]]
  BY <1>1, <1>2, <1>3 DEF BuildType
<1>5. PICK to \in {"cleanup", "ok", "raised"} : stage' = [stage EXCEPT ![p] = to]
  <2>1. CASE Unlink(p)
    <3>1. stage' = [stage EXCEPT ![p] = "cleanup"]
      BY <1>1, <1>2, <2>1 DEF Unlink, BuildType
    <3>2. QED
      BY <3>1
  <2>2. CASE EndCleanup(p)
    BY <2>2 DEF EndCleanup
  <2>3. QED
    BY <2>1, <2>2
<1>6. /\ \A s \in Answered(p) : Settled(p, s)
      /\ Alone(p) => \A s \in mode.modules : Compiles(p, s) => s \in Answered(p)
  BY <1>1, <1>2 DEF TreeOK
<1>7. QED
  BY <1>1, <1>2, <1>4, <1>5, <1>6, StageStep

(* A kill leaves entries as they are, but for their writer.                   *)
LEMMA AbandonedFacts ==
    ASSUME NEW S \in SUBSET Entries, NEW p \in Proc
    PROVE  /\ Abandoned(S, p) \subseteq Entries
           /\ (\A e \in S : e.writer = "none") => Abandoned(S, p) = S
<1> DEFINE A(e) == IF e.writer = p THEN [e EXCEPT !.writer = "dead"] ELSE e
<1>1. Abandoned(S, p) = {A(e) : e \in S}
  BY DEF Abandoned
<1>2. ASSUME NEW e \in S PROVE A(e) \in Entries /\ (e.writer = "none" => A(e) = e)
  <2>1. e \in [source : Source, key : Codes, code : Codes \cup {Nothing}, writer : Proc \cup {"none", "dead"}]
    BY DEF Entries
  <2>2. /\ A(e) \in [source : Source, key : Codes, code : Codes \cup {Nothing}, writer : Proc \cup {"none", "dead"}]
        /\ A(e).source = e.source /\ A(e).key = e.key /\ A(e).code = e.code
    BY <2>1
  <2>3. A(e) \in Entries
    BY <2>2 DEF Entries
  <2>4. QED
    BY <2>3
<1> HIDE DEF A
<1>3. QED
  BY <1>1, <1>2

(* A killed compilation leaves a torn file, and no task.                      *)
LEMMA KillStep == ASSUME BuildInv, NEW p \in Proc, Kill(p) PROVE BuildInv'
<1>1. PICK torn \in SUBSET {s \in Source : task[p][s] \in {"compile", "load"}} :
          /\ cfile' = [cfile EXCEPT ![p] = [s \in Source |-> IF s \in torn THEN Torn ELSE cfile[p][s]]]
          /\ stale' = [stale EXCEPT ![p] = [s \in Source |-> IF s \in torn THEN {} ELSE stale[p][s]]]
  BY DEF Kill
<1>2. /\ stage' = [stage EXCEPT ![p] = "raised"] /\ task' = [task EXCEPT ![p] = [s \in Source |-> "none"]]
      /\ cache' = Abandoned(cache, p) /\ tmp' = Abandoned(tmp, p) /\ mode' = mode /\ content' = content
  BY DEF Kill
<1>3. BuildType /\ SoleOK(p)
  BY DEF BuildInv
<1>4. p \in mode.builders
  BY DEF Kill, Idle, BuildInv, TreeOK
<1>5. /\ stage \in [Proc -> {"idle", "run", "cleanup", "ok", "raised"}]
      /\ task \in [Proc -> [Source -> {"none", "ok", "failed"} \cup Working]]
      /\ stale \in [Proc -> [Source -> SUBSET File]]
      /\ cfile \in [Proc -> [Source -> Codes \cup Special]]
      /\ cache \in SUBSET Entries /\ tmp \in SUBSET Entries
  BY <1>3 DEF BuildType
<1>6. stage' \in [Proc -> {"idle", "run", "cleanup", "ok", "raised"}] /\ stage'[p] = "raised"
  BY <1>2, <1>5
<1>7. /\ task' \in [Proc -> [Source -> {"none", "ok", "failed"} \cup Working]]
      /\ \A s \in Source : task'[p][s] = "none"
  BY <1>2, <1>5
<1>8. /\ stale' \in [Proc -> [Source -> SUBSET File]]
      /\ \A s \in Source : stale'[p][s] = IF s \in torn THEN {} ELSE stale[p][s]
  BY <1>1, <1>5
<1>9. /\ cfile' \in [Proc -> [Source -> Codes \cup Special]]
      /\ \A s \in Source : cfile'[p][s] = IF s \in torn THEN Torn ELSE cfile[p][s]
  BY <1>1, <1>5 DEF Special
<1>10. OnlyOf(p)
  BY <1>1, <1>2, <1>5 DEF OnlyOf
<1>11. cache' \subseteq Entries /\ tmp' \subseteq Entries
  BY <1>2, <1>5, AbandonedFacts
<1>12. BuildType'
  BY <1>2, <1>3, <1>6, <1>7, <1>8, <1>9, <1>11 DEF BuildType
<1>13. ASSUME NEW s \in Source PROVE ModuleOK(p, s)'
  <2>1. ModuleOK(p, s)
    BY DEF BuildInv
  <2>2. ASSUME stale'[p][s] = {}, cfile'[p][s] \notin Special PROVE Current(p, s)'
    <3>1. s \notin torn
      BY <1>9, <2>2 DEF Special
    <3>2. stale[p][s] = {} /\ cfile'[p][s] = cfile[p][s]
      BY <1>8, <1>9, <2>2, <3>1
    <3>3. Current(p, s)
      BY <2>1, <2>2, <3>2 DEF ModuleOK
    <3>4. QED
      BY <1>2, <3>2, <3>3, SameTexts DEF Current
  <2>3. stale'[p][s] = {} /\ cfile'[p][s] \notin Special => Current(p, s)'
    BY <2>2
  <2>4. QED
    BY <1>6, <1>7, <2>3 DEF ModuleOK
<1>14. TreeOK(p)'
  BY <1>2, <1>4, <1>6 DEF TreeOK
<1>15. SoleOK(p)'
  <2>1. SUFFICES ASSUME mode.cache, mode.builders = {p} PROVE SoleOK(p)'
    BY <1>2 DEF SoleOK
  <2>2. \A e \in cache : e.writer = "none"
    BY <1>3, <2>1 DEF SoleOK
  <2>3. cache' = cache
    BY <1>2, <1>5, <2>2, AbandonedFacts
  <2>4. QED
    BY <1>7, <2>2, <2>3 DEF SoleOK
<1>16. QED
  BY <1>2, <1>4, <1>10, <1>12, <1>13, <1>14, <1>15, ProcStep

LEMMA StutterStep == ASSUME BuildInv, UNCHANGED buildVars PROVE BuildInv'
<1>1. /\ mode' = mode /\ content' = content /\ stale' = stale /\ cfile' = cfile /\ stage' = stage /\ task' = task
      /\ cache' = cache /\ tmp' = tmp
  BY DEF buildVars, tree, store
<1>2. BuildType'
  BY <1>1 DEF BuildInv, BuildType
<1>3. ASSUME NEW p \in Proc PROVE /\ \A s \in Source : ModuleOK(p, s)'
                                  /\ TreeOK(p)' /\ SoleOK(p)'
  <2>1. \A s : /\ Compiles(p, s)' <=> Compiles(p, s)
               /\ Code(p, s)' = Code(p, s)
               /\ Fingerprint(p, s)' = Fingerprint(p, s)
    BY <1>1, SameTexts
  <2>2. ASSUME NEW s \in Source PROVE ModuleOK(p, s)'
    BY <1>1, ModuleSame DEF BuildInv
  <2>3. TreeOK(p)'
    BY <1>1, TreeSame DEF BuildInv
  <2>4. \A s : Named(cache, p, s)' = Named(cache, p, s) /\ Named(tmp, p, s)' = Named(tmp, p, s)
    BY <1>1, <2>1 DEF Named
  <2>5. SoleOK(p)'
    <3>1. SoleOK(p)
      BY DEF BuildInv
    <3>2. QED
      BY <1>1, <2>4, <3>1 DEF SoleOK
  <2>6. QED
    BY <2>2, <2>3, <2>5
<1>4. QED
  BY <1>2, <1>3 DEF BuildInv

(* One case per action.                                                       *)
LEMMA NextBuildInv == ASSUME BuildInv, FactsInDeps, [BuildNext]_buildVars PROVE BuildInv'
<1>1. ASSUME NEW p \in Proc, NEW f \in File, NEW x \in mode.texts, Edit(p, f, x) PROVE BuildInv'
  BY <1>1, EditStep
<1>2. ASSUME NEW p \in Proc, NEW force \in BOOLEAN, Plan(p, force) PROVE BuildInv'
  BY <1>2, PlanStep
<1>3. ASSUME NEW p \in Proc, NEW s \in Source,
             Begin(p, s) \/ Lookup(p, s) \/ Load(p, s) \/ Compile(p, s)
      PROVE  BuildInv'
  BY <1>3, BeginStep, LookupStep, LoadStep, CompileStep
<1>4. ASSUME NEW p \in Proc, NEW s \in Source, OpenTmp(p, s) \/ WriteTmp(p, s) \/ Rename(p, s) PROVE BuildInv'
  BY <1>4, OpenTmpStep, WriteTmpStep, RenameStep
<1>5. ASSUME NEW p \in Proc, Finish(p) \/ Unlink(p) \/ EndCleanup(p) \/ Kill(p) PROVE BuildInv'
  BY <1>5, FinishStep, CleanupStep, KillStep
<1>6. CASE UNCHANGED buildVars
  BY <1>6, StutterStep
<1>7. QED
  BY <1>1, <1>2, <1>3, <1>4, <1>5, <1>6 DEF BuildNext

(* In every state reached, for any processes, trees and texts, when facts are *)
(* those of modules a module depends on.                                      *)
THEOREM BuildInvariant == ASSUME FactsInDeps PROVE BuildSpec => []BuildInv
<1>1. BuildInv /\ [BuildNext]_buildVars => BuildInv'
  BY NextBuildInv
<1>2. QED
  BY <1>1, InitBuildInv, PTL DEF BuildSpec

(* Whoever stored it and whatever happened meanwhile, a complete entry holds  *)
(* what compiling the files with its fingerprint writes.                      *)
THEOREM CacheHoldsCurrentCode == ASSUME FactsInDeps PROVE BuildSpec => []CacheFaithful
<1>1. BuildInv => CacheFaithful
  <2>1. SUFFICES ASSUME BuildInv, NEW p \in Proc, NEW s \in Source, NEW e \in Named(cache, p, s), e.writer = "none"
                 PROVE  e.code = IF Compiles(p, s) THEN Code(p, s) ELSE Nothing
    BY DEF CacheFaithful
  <2>2. cache \in SUBSET Entries
    BY <2>1 DEF BuildInv, BuildType
  <2>3. QED
    BY <2>1, <2>2, EntryFacts
<1>2. QED
  BY <1>1, BuildInvariant, PTL

(* A build that succeeds leaves the code of the files as they are, with the   *)
(* exceptions that SuccessIsCurrent names.                                    *)
THEOREM BuildsAreCurrent == ASSUME FactsInDeps PROVE BuildSpec => []SuccessIsCurrent
<1>1. BuildInv => SuccessIsCurrent
  BY DEF BuildInv, TreeOK, SuccessIsCurrent, Settled, Current
<1>2. QED
  BY <1>1, BuildInvariant, PTL

(* A process that has the cache to itself drops only modules that do not      *)
(* compile.                                                                   *)
THEOREM FailuresAloneAreDropped == ASSUME FactsInDeps PROVE BuildSpec => []OnlyFailuresDropped
<1>1. BuildInv => OnlyFailuresDropped
  BY DEF BuildInv, TreeOK, OnlyFailuresDropped, Alone
<1>2. QED
  BY <1>1, BuildInvariant, PTL
=============================================================================
