SPECIFICATION Spec
CONSTANTS
    Folds = {f1, f2}
    Grows = {g1}
    Files = {a, b}
    CloseShells = TRUE
    Interruptions = {"timeout", "kill"}
INVARIANTS HomeComesBack DockerComesBack HomeDataKept
