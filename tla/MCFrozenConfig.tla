--------------------------- MODULE MCFrozenConfig ---------------------------
EXTENDS FrozenConfig, TLC

CONSTANTS g1, g2, naming, decorating

plain ==
  [IndentionStep |-> 0, EscapeHTML |-> TRUE, UseNumber |-> FALSE,
   DisallowUnknownFields |-> FALSE, others |-> "default"]

\* ConfigDefault, and an API the program froze from another Config and
\* registered two extensions on
MCBases == <<plain, [plain EXCEPT !.others = "compatible", !.EscapeHTML = FALSE]>>
MCBaseExtensions == <<<<>>, <<naming, decorating>>>>

Symmetry == Permutations({g1, g2})
\* ... or two APIs of one Config, and extensions registered at any time
MCTwins == <<plain, plain>>
MCTwinExtensions == <<<<>>, <<naming>>>>
=============================================================================
