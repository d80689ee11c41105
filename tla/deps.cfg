CONSTANTS
    Files = {f1, f2, f3}
    Exts = {e1}
    NoFile = NoFile
    NoExt = NoExt
    ExternHeader = ExternHeader
SPECIFICATION Spec
INVARIANTS DependenciesExact InfoOfDependencies
SYMMETRY Symmetry
CONSTRAINT FewSelfCimports
