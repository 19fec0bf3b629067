SPECIFICATION Spec
CONSTANTS
    MaxPid = 3
    MaxLines = 4
    Codes = {1}
    ARGV = 4
    ENVP = 2
    PATHS = 2
    Letters = {"x", "a", "b", "&"}
    Contents <- MCContents
    Lines <- MCLines
INVARIANTS WordsOfLine ForegroundDone RunsCommand  EnvDelivered PwdExists
PROPERTIES PromptReturns
CHECK_DEADLOCK FALSE
