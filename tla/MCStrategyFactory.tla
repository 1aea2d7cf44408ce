------------------------- MODULE MCStrategyFactory -------------------------
(***************************************************************************)
(* The strategy factory for TLC: every combination of a path, a source    *)
(* and a config from small sets, passed to up to MaxCalls create calls,   *)
(* against an interpreter that can import one module defining one         *)
(* strategy class.                                                        *)
(***************************************************************************)
EXTENDS StrategyFactory

\* Paths as their ":"-separated parts: None, "  ", "", "strategies",
\* "strategies:EMACross", "strategies:Missing", "missing:EMACross",
\* ":EMACross" and "strategies:EMACross:run".
MCPaths ==
    {None, <<"  ">>, <<"">>, <<"strategies">>, <<"strategies", "EMACross">>,
     <<"strategies", "Missing">>, <<"missing", "EMACross">>, <<"", "EMACross">>,
     <<"strategies", "EMACross", "run">>}

\* Sources: None, blank bytes and strategy source text.
MCSources == {None, "  ", "class EMACross(TradingStrategy): ..."}

MCStrategyConfigs ==
    {DefaultStrategyConfig, TradingStrategyConfig("001", "NETTING"), [kind |-> "str"]}

MCConfigs ==
    {[type |-> "ImportableStrategyConfig", path |-> p, source |-> s, config |-> c]
        : p \in MCPaths, s \in MCSources, c \in MCStrategyConfigs}
    \cup {[type |-> "TradingStrategyConfig"]}

MCClassesOf == [m \in {"strategies"} |-> {"EMACross"}]

-----------------------------------------------------------------------------

\* Every strategy the trader holds was instantiated from a class that the
\* module named by its path defines, with a TradingStrategyConfig: create's
\* import, getattr and isinstance checks together admit nothing else.
CreatedFromLoadableClass ==
    \A i \in 1..Len(strategies) :
        /\ strategies[i].module \in Importable
        /\ strategies[i].cls \in ClassesOf[strategies[i].module]
        /\ IsStrategyConfig(strategies[i].config)

\* create either returns a strategy or raises: it never returns None, as
\* the end of its source branch would.
NoSilentNone == outcome # "None"

\* Spec section 6: a configuration with inline source text and no path
\* (None, or blank as create's own ValueError test counts it) is executed
\* to produce the strategy.
SourceConfigCreatesStrategy ==
    (/\ last # None
     /\ last.type = "ImportableStrategyConfig"
     /\ BlankPath(last.path)
     /\ ~BlankSource(last.source)
     /\ IsStrategyConfig(last.config))
    => outcome = "strategy"

\* _check_path's message: a path has the form path.to.module:class, so a
\* strategy is only created from a path of exactly two parts.
ReferenceOfDocumentedForm ==
    outcome = "strategy" => Len(last.path) = 2

=============================================================================
