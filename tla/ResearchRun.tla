---------------------------- MODULE ResearchRun ----------------------------
(***************************************************************************)
(* One command of quant_cli: its options, the configuration it loads and   *)
(* validates, and the stages Application runs, each of which writes its    *)
(* files below the output directory, where an earlier run of the same      *)
(* request has left its own.  The stage of selection risk is played out    *)
(* step by step (SelectionRisk); the others return or raise.               *)
(*                                                                         *)
(* A request is a command, the keys of its options in their order, the     *)
(* values of the two that override the configuration, a legacy mode, and   *)
(* a configuration.  The fields that are checked on their own are one      *)
(* field here, `sound`.                                                    *)
(***************************************************************************)
EXTENDS SelectionRisk

CONSTANT Requests

VARIABLES
  request,
  stages,     \* the stages still to run
  outputs,    \* stage: who wrote its files last
  status      \* "start", "running", or the exit status: "ok" or "error"

command == <<request, stages, outputs, status>>
runVars == <<vars, command>>

-----------------------------------------------------------------------------
(* The command line and the configuration *)

Quiet == {"help", "version", "list-strategies", "list-allocation-policies"}

(* A flag takes no value; `missing` stands for the value of the last key.  *)
Allowed(name) ==
  CASE name = "run" -> {"--config", "--execution-mode", "--threads", "--dry-run"}
    [] name = "legacy" -> {"--mode", "--ticker", "--strategy", "--capital"}
    [] OTHER -> {"--config"}

ParseOptions(r) ==
  /\ ~ r.missing
  /\ \A i \in DOMAIN r.options :
       /\ r.options[i] \in Allowed(r.command)
       /\ \A j \in 1 .. i - 1 : r.options[j] # r.options[i]

Has(r, option) == \E i \in DOMAIN r.options : r.options[i] = option

All(config) == config.strategy = Family

Valid(config) ==
  /\ config.sound
  /\ All(config) \/ \E family \in Family : config.strategy = {family}
  /\ config.schema = (IF config.valuation = "union" THEN 3 ELSE 2)
  /\ config.mode \in {"serial", "parallel"}
  /\ config.threads \in 1 .. 64
  /\ config.mode = "serial" => config.threads = 1

(* An empty mode and zero threads, given or not, override nothing.         *)
Overridden(r) ==
  [r.config EXCEPT !.mode = IF r.mode = "" THEN @ ELSE r.mode,
                   !.threads = IF r.threads = 0 THEN @ ELSE r.threads]

-----------------------------------------------------------------------------
(* The stages *)

LegacyModes ==
  {"compare", "cross-asset", "grid", "walk-forward", "cost", "regime", "benchmark", "all"}

LegacyStages(mode) ==
  CASE mode = "compare" -> <<"backtests", "comparison">>
    [] mode = "cross-asset" -> <<"cross_asset">>
    [] mode = "walk-forward" -> <<"walk_forward">>
    [] mode = "all" -> <<"cross_asset", "grid", "walk_forward", "cost", "regime", "benchmark">>
    [] OTHER -> <<mode>>

(* A ticker and a strategy ask for a single backtest in every mode.        *)
Single(r) == r.legacy = "single" \/ (Has(r, "--ticker") /\ Has(r, "--strategy"))

LegacyRouting(r) ==
  IF Single(r) THEN <<"backtests", "comparison">> ELSE LegacyStages(r.legacy)

PortfolioRouting(config) ==
  <<"portfolio">> \o IF config.schema >= 3 THEN <<"attribution", "statistics">> ELSE <<>>

ResearchRouting(config) ==
  <<"resolved_config">>
  \o (IF All(config) \/ config.prefixed THEN <<>>
      ELSE <<"grid", "walk_forward", "cost", "regime">>)
  \o <<"selection_risk">>
  \o IF config.prefixed THEN <<>> ELSE <<"bootstrap">>

Routing(r) ==
  (IF r.command = "legacy" THEN LegacyRouting(r)
   ELSE IF r.config.allocates THEN PortfolioRouting(r.config)
   ELSE ResearchRouting(r.config)) \o <<"metadata">>

Stages ==
  {"backtests", "comparison", "cross_asset", "grid", "walk_forward", "cost", "regime",
   "benchmark", "portfolio", "attribution", "statistics", "resolved_config",
   "selection_risk", "bootstrap", "metadata"}

RunInit ==
  /\ Init
  /\ request \in Requests
  /\ chosen = IF request.command = "run" THEN request.config.strategy ELSE Family
  /\ stages = <<>>
  /\ outputs = [stage \in Stages |-> "earlier"]
  /\ status = "start"

Admitted(r) ==
  CASE r.command \in Quiet -> TRUE
    [] r.command = "legacy" ->
         ParseOptions(r) /\ (Single(r) \/ r.legacy \in LegacyModes)
    [] r.command = "run" ->
         ParseOptions(r) /\ Has(r, "--config") /\ Valid(r.config) /\ Valid(Overridden(r))
    [] r.command \in {"validate-config", "print-resolved-config"} ->
         ParseOptions(r) /\ Has(r, "--config") /\ Valid(r.config)
    [] OTHER -> FALSE

Runs(r) == r.command = "legacy" \/ (r.command = "run" /\ ~ Has(r, "--dry-run"))

Dispatch ==
  /\ status = "start"
  /\ CASE ~ Admitted(request) -> status' = "error" /\ UNCHANGED stages
       [] Admitted(request) /\ ~ Runs(request) -> status' = "ok" /\ UNCHANGED stages
       [] OTHER -> status' = "running" /\ stages' = Routing(request)
  /\ UNCHANGED <<vars, request, outputs>>

At(stage) == status = "running" /\ Head(stages) = stage

(* The bootstrap has no strategy to run when all are configured.           *)
MaySucceed ==
  /\ At("selection_risk") => phase = "done"
  /\ At("bootstrap") => ~ All(request.config)

(* The stages that write through an std::ofstream nobody asks whether it   *)
(* opened, as it does not below a missing directory; the legacy grid is    *)
(* written by the exporter.                                                *)
Unchecked(r, stage) ==
  \/ stage \in {"walk_forward", "cost", "regime", "benchmark"}
  \/ stage = "grid" /\ r.command # "legacy"

(* What a stage that returns may leave.  Everybody else's streams must     *)
(* open, but none is asked after its last bytes are flushed: the exporter  *)
(* asks before, and not at all for the statistics.                         *)
Left(r, stage) ==
  {"this", "partial"} \cup (IF Unchecked(r, stage) THEN {outputs[stage]} ELSE {})

Return ==
  /\ status = "running" /\ MaySucceed
  /\ \E left \in Left(request, Head(stages)) : outputs' = [outputs EXCEPT ![Head(stages)] = left]
  /\ stages' = Tail(stages)
  /\ status' = IF Tail(stages) = <<>> THEN "ok" ELSE "running"
  /\ UNCHANGED <<vars, request>>

(* Mutant of Raise: an exception of a stage is caught there.               *)
RaiseAndGoOn ==
  /\ status = "running"
  /\ stages' = Tail(stages)
  /\ status' = IF Tail(stages) = <<>> THEN "ok" ELSE "running"
  /\ UNCHANGED <<vars, request, outputs>>

(* The exception ends the command; the stage's files are those of the      *)
(* earlier run or, once it has opened them, partly written.  A stage may   *)
(* raise wherever it makes a directory or opens a file; selection risk     *)
(* opens none before its windows are done.                                 *)
Raise ==
  /\ status = "running"
  /\ At("selection_risk") => phase \in {"load", "regimes", "deploy", "done", "failed"}
  /\ \E left \in {outputs[Head(stages)], "partial"} :
       outputs' = [outputs EXCEPT ![Head(stages)] = left]
  /\ stages' = <<>>
  /\ status' = "error"
  /\ UNCHANGED <<vars, request>>

SelectionRiskStep == At("selection_risk") /\ Next /\ UNCHANGED command

RunNext == Dispatch \/ Return \/ Raise \/ SelectionRiskStep

RunSpec == RunInit /\ [][RunNext]_runVars

-----------------------------------------------------------------------------
(* Properties *)

Touched(stage) == outputs[stage] # "earlier"

(* Which files an exit status vouches for.  A command that is refused or   *)
(* only asks writes none.  Any other leaves files of a first part of its   *)
(* route, up to the stage it stopped in: before that one every stage has   *)
(* written, those excepted whose streams nobody checks.  The metadata come *)
(* last, with status 0 and with no other.  All strategies succeed only     *)
(* under a selection-risk name, although every name passes validation.     *)
FilesInOrder ==
  /\ IF Admitted(request) /\ Runs(request)
     THEN LET route == Routing(request)
          IN \E n \in 0 .. Len(route) - 1 :
               /\ \A i \in 1 .. n : Touched(route[i]) \/ Unchecked(request, route[i])
               /\ \A stage \in Stages : Touched(stage) => \E i \in 1 .. n + 1 : route[i] = stage
     ELSE \A stage \in Stages : ~ Touched(stage)
  /\ status = "ok" => (Touched("metadata") <=> Runs(request))
  /\ status = "error" => outputs["metadata"] # "this"
  /\ status = "ok" /\ Touched("selection_risk") /\ All(request.config) =>
       request.config.prefixed

(* The bootstraps of an experiment draw every index below any bound with   *)
(* the same number of words, and every observation equally often at every  *)
(* place of a sample, whatever the length of the blocks.                   *)
DrawsEven ==
  At("resolved_config") =>
    /\ \A bound \in 1 .. 2 ^ Bits : Uniform(bound)
    /\ \A n \in 1 .. 5 : \A block \in 1 .. n : EvenSample(n, block)
=============================================================================
