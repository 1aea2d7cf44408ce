CONSTANTS
    Configs <- MCConfigs
    Importable = {"strategies"}
    ClassesOf <- MCClassesOf
    Whitespace = {"  "}
    None = None
    MaxCalls = 2

SPECIFICATION Spec

INVARIANT TypeOK
INVARIANT CreatedFromLoadableClass
INVARIANT NoSilentNone

\* The caller stops after MaxCalls calls.
CHECK_DEADLOCK FALSE
