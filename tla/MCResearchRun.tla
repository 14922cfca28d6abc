--------------------------- MODULE MCResearchRun ---------------------------
(***************************************************************************)
(* The instance of MCSelectionRisk behind the command line: experiments on *)
(* one family and on all, under both kinds of names, a portfolio on both   *)
(* calendars, every legacy mode, and requests that are refused.  The       *)
(* family of the first has one candidate, so that what its earlier stages  *)
(* leave does not multiply too many experiments.                           *)
(***************************************************************************)
EXTENDS ResearchRun, MCSelectionRisk

LOCAL Config ==
  [strategy |-> {2}, prefixed |-> FALSE, allocates |-> FALSE, valuation |-> "intersection",
   schema |-> 2, mode |-> "serial", threads |-> 1, sound |-> TRUE]

LOCAL Run ==
  [command |-> "run", options |-> <<"--config">>, missing |-> FALSE, mode |-> "", threads |-> 0,
   legacy |-> "", config |-> Config]

LOCAL Legacy(mode) == [Run EXCEPT !.command = "legacy", !.options = <<"--mode">>, !.legacy = mode]

LOCAL Union == [Config EXCEPT !.allocates = TRUE, !.valuation = "union", !.schema = 3]
LOCAL Threads == <<"--config", "--threads", "--execution-mode">>

MCRequests ==
  {Run, [Run EXCEPT !.config.strategy = {1, 2}],
   [Run EXCEPT !.config.strategy = {1, 2}, !.config.prefixed = TRUE],
   [Run EXCEPT !.config = Union], [Run EXCEPT !.config.allocates = TRUE]}
  \cup {[Run EXCEPT !.config = config] :
          config \in {[Config EXCEPT !.strategy = {}], [Config EXCEPT !.sound = FALSE],
                      [Config EXCEPT !.schema = 3], [Config EXCEPT !.threads = 4]}}
  \cup {[Run EXCEPT !.command = name, !.options = options] :
          name \in {"run", "validate-config", "print-resolved-config", "help", "unknown"},
          options \in {<<>>, <<"--config", "--dry-run">>, <<"--config", "--config">>}}
  \cup {[Run EXCEPT !.command = "validate-config"]}
  \cup {[Run EXCEPT !.options = Threads, !.threads = 4, !.config = Union, !.mode = mode] :
          mode \in {"serial", "parallel"}}
  \cup {Legacy(mode) : mode \in LegacyModes \cup {"single", "unknown"}}
  \cup {[Legacy("grid") EXCEPT !.options = <<"--mode", "--ticker", "--strategy">>],
        [Legacy("grid") EXCEPT !.missing = TRUE]}
=============================================================================
