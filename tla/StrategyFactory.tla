--------------------------- MODULE StrategyFactory ---------------------------
(***************************************************************************)
(* StrategyFactory.create and ImportableStrategyConfig of                  *)
(* nautilus_trader/trading/config.py, applied by a trader to its list of   *)
(* any configuration, repeatedly, in one interpreter: sys.modules keeps   *)
(* what earlier calls imported, whether they returned or raised.           *)
(*                                                                         *)
(* A path is the list of its ":"-separated parts (Python's                 *)
(* path.rsplit(":")), each part a string from a small set; the empty      *)
(* string and a run of spaces are parts like any other.  sys.modules is    *)
(* the set of imported module names; the interpreter can import the       *)
(* modules in Importable, and a module's classes are ClassesOf[module].    *)
(***************************************************************************)
EXTENDS Integers, Sequences, SequencesExt

CONSTANTS
    Configs,        \* the ImportableStrategyConfig-like values a trader may pass
    Importable,     \* module names the interpreter can import
    ClassesOf,      \* ClassesOf[m]: the class names module m defines
    Whitespace,     \* the non-empty all-space strings among paths and sources
    None,           \* Python's None
    MaxCalls        \* bound: create calls made

VARIABLES
    calls,          \* create calls made so far
    sys_modules,    \* names of the imported modules
    strategies,     \* the strategies created so far
    last,           \* the configuration of the last create call
    outcome         \* what the last create returned or raised

vars == <<calls, sys_modules, strategies, last, outcome>>

Outcomes == {"none", "strategy", "None", "TypeError", "ValueError",
             "AssertionError", "ModuleNotFoundError", "AttributeError"}

\* TradingStrategyConfig: a pydantic model with two str fields and their
\* defaults; an ImportableStrategyConfig's config may also be a plain str.
TradingStrategyConfig(tag, oms) ==
    [kind |-> "TradingStrategyConfig", order_id_tag |-> tag, oms_type |-> oms]

DefaultStrategyConfig == TradingStrategyConfig("000", "HEDGING")

IsStrategyConfig(v) == v.kind = "TradingStrategyConfig"

TypeOK ==
    /\ calls \in 0..MaxCalls
    /\ strategies \in Seq([cls : STRING, module : STRING,
                           config : [kind : STRING, order_id_tag : STRING,
                                     oms_type : STRING] \cup [kind : STRING]])
    /\ last \in Configs \cup {None}
    /\ outcome \in Outcomes

-----------------------------------------------------------------------------
(* ImportableStrategyConfig *)

\* `x is None or x.isspace()`: "" is not blank, a path with a ":" never is.
BlankPath(path) ==
    IF path = None THEN TRUE ELSE Len(path) = 1 /\ path[1] \in Whitespace
BlankSource(source) == source = None \/ source \in Whitespace

\* _check_path: `path` is truthy and contains ":".
PathChecked(c) == c.path # None /\ c.path # <<"">> /\ Len(c.path) >= 2

\* The module and cls properties: path.rsplit(":")[0] and [1].
ModuleOf(c) == c.path[1]
ClsOf(c) == c.path[2]

-----------------------------------------------------------------------------
(* StrategyFactory.create *)

Raise(error) ==
    /\ outcome' = error
    /\ UNCHANGED <<sys_modules, strategies>>

\* Variants of CreateFromPath (for mutation analysis): one without the
\* isinstance assert, one that passes the importable config itself to
\* the strategy class instead of its config field.
CreateFromPathNoAssert(c) ==
    LET m == ModuleOf(c)
    IN CASE m = "" -> Raise("ValueError")
         [] m \notin sys_modules \cup Importable -> Raise("ModuleNotFoundError")
         [] ClsOf(c) \notin ClassesOf[m] ->
                /\ sys_modules' = sys_modules \cup {m}
                /\ outcome' = "AttributeError"
                /\ UNCHANGED strategies
         [] OTHER ->
                /\ sys_modules' = sys_modules \cup {m}
                /\ strategies' = Append(strategies,
                       [cls |-> ClsOf(c), module |-> m, config |-> c.config])
                /\ outcome' = "strategy"

CreateFromPathWholeConfig(c) ==
    LET m == ModuleOf(c)
    IN CASE m = "" -> Raise("ValueError")
         [] m \notin sys_modules \cup Importable -> Raise("ModuleNotFoundError")
         [] ClsOf(c) \notin ClassesOf[m] ->
                /\ sys_modules' = sys_modules \cup {m}
                /\ outcome' = "AttributeError"
                /\ UNCHANGED strategies
         [] ~IsStrategyConfig(c.config) ->
                /\ sys_modules' = sys_modules \cup {m}
                /\ outcome' = "AssertionError"
                /\ UNCHANGED strategies
         [] OTHER ->
                /\ sys_modules' = sys_modules \cup {m}
                /\ strategies' = Append(strategies,
                       [cls |-> ClsOf(c), module |-> m, config |-> c])
                /\ outcome' = "strategy"

\* importlib.import_module(config.module) and what follows it.
CreateFromPath(c) ==
    LET m == ModuleOf(c)
        imported == sys_modules \cup {m}
    IN CASE m = "" -> Raise("ValueError")
         [] m \notin sys_modules \cup Importable -> Raise("ModuleNotFoundError")
         [] ClsOf(c) \notin ClassesOf[m] ->
                /\ sys_modules' = imported
                /\ outcome' = "AttributeError"
                /\ UNCHANGED strategies
         [] ~IsStrategyConfig(c.config) ->
                /\ sys_modules' = imported
                /\ outcome' = "AssertionError"
                /\ UNCHANGED strategies
         [] OTHER ->
                /\ sys_modules' = imported
                /\ strategies' = Append(strategies,
                       [cls |-> ClsOf(c), module |-> m, config |-> c.config])
                /\ outcome' = "strategy"

\* Variant of the source branch that names the module without going
\* through the path check (for mutation analysis).
CreateFromSourceUnchecked(c) ==
    /\ outcome' = "None"
    /\ UNCHANGED <<sys_modules, strategies>>

\* The source branch: config.module is evaluated first, and returns None
\* after registering the executed module when it gets that far.
CreateFromSource(c) ==
    IF PathChecked(c)
    THEN /\ sys_modules' = sys_modules \cup {ModuleOf(c)}
         /\ outcome' = "None"
         /\ UNCHANGED strategies
    ELSE Raise("AssertionError")

create(c) ==
    \/ /\ c.type # "ImportableStrategyConfig"
       /\ Raise("TypeError")
    \/ /\ c.type = "ImportableStrategyConfig"
       /\ BlankPath(c.path) /\ BlankSource(c.source)
       /\ Raise("ValueError")
    \/ /\ c.type = "ImportableStrategyConfig"
       /\ ~(BlankPath(c.path) /\ BlankSource(c.source))
       /\ c.path # None
       /\ IF PathChecked(c) THEN CreateFromPath(c) ELSE Raise("AssertionError")
    \/ /\ c.type = "ImportableStrategyConfig"
       /\ ~(BlankPath(c.path) /\ BlankSource(c.source))
       /\ c.path = None
       /\ CreateFromSource(c)

Init ==
    /\ calls = 0
    /\ sys_modules = {}
    /\ strategies = <<>>
    /\ last = None
    /\ outcome = "none"

\* A caller passes any configuration to create; an exception it raises
\* ends that call only.
Next ==
    /\ calls < MaxCalls
    /\ \E c \in Configs : create(c) /\ last' = c
    /\ calls' = calls + 1

Spec == Init /\ [][Next]_vars

=============================================================================
