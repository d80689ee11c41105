------------------------ MODULE MCNoexceptInference ------------------------
(* Programs of three functions in one or two modules.                         *)
EXTENDS NoexceptInference

MCModule == <<"A", "B">>

Check == [kind |-> "check"]
Call(f, how) == [kind |-> "call", to |-> f, via |-> how]

Def(m, shape, b) ==
    [mod |-> m, body |-> b,
     scope |-> IF shape \in {"final", "method"} THEN shape ELSE "module",
     overridable |-> shape \in {"cpdef", "method"},
     spec |-> IF shape \in Specs THEN shape ELSE "default",
     infer |-> shape # "noinfer", profile |-> shape = "profile", skipped |-> shape = "closure"]

(* Bodies that make at most two calls, or one that is followed by a check.       *)
CallsBy(how) == {Call(f, how) : f \in Fun}
Short(C) == {<<>>, <<Check>>} \cup {<<c>> : c \in C}
Long(C) == Short(C) \cup {<<c, Check>> : c \in C} \cup {<<cd[1], cd[2]>> : cd \in {x \in C \X C : x[1] # x[2]}}

Three(S) == S \X S \X S
Shapes == {"default", "method"}
AllShapes == {"default", "object", "explicit", "noexcept", "cpp", "final", "method", "cpdef",
              "noinfer", "profile", "closure"}
Pair == Short({Call(f, how) : f \in {1, 2}, how \in {"dispatch", "direct", "copy"}})

(* Modules, shapes and bodies: any graph of calls among functions and methods of   *)
(* one module, any use of another module, any two definitions that call one       *)
(* another.                                                                   *)
OneModule == {<<1, 1, 1>>} \X Three(Shapes) \X Three(Long(CallsBy("dispatch")))
TwoModules == {<<1, 2, 1>>} \X Three(Shapes) \X Three(Long(CallsBy("direct")))
TwoShapes == {<<1, 1, 1>>, <<1, 2, 2>>} \X (AllShapes \X AllShapes \X {"default"})
                                      \X (Pair \X Pair \X {<<>>})
Layouts == OneModule \cup TwoModules \cup TwoShapes

MCProgram == {<<Def(x[1][1], x[2][1], x[3][1]), Def(x[1][2], x[2][2], x[3][2]),
                Def(x[1][3], x[2][3], x[3][3])>> : x \in Layouts}
=============================================================================
