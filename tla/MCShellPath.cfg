SPECIFICATION Spec
CONSTANTS
    MaxPid = 3
    MaxLines = 2
    Codes = {1}
    ARGV = 4
    ENVP = 2
    PATHS = 2
    Letters = {"x", "a", "b", "&"}
    Contents <- MCContents
    Lines <- MCPathLines
INVARIANTS PathSearched
CHECK_DEADLOCK FALSE
