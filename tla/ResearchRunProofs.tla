------------------------- MODULE ResearchRunProofs -------------------------
(***************************************************************************)
(* Proofs about a command: what its stages leave behind, whatever the      *)
(* request, and about the parts its experiments are made of: the draws of  *)
(* the bootstrap, the regimes, the ranks and the panels.                   *)
(***************************************************************************)
EXTENDS ResearchRun, CommonLemmas

(* The stages but the last one, and those of the commands without an       *)
(* experiment.                                                             *)
Bodies == Stages \ {"metadata"}
Others == Bodies \ {"selection_risk"}

LEMMA LegacyBody ==
  ASSUME NEW r, Single(r) \/ r.legacy \in LegacyModes
  PROVE  LegacyRouting(r) \in Seq(Others)
<1>1. <<"backtests", "comparison">> \in Seq(Others)
  BY DEF Others, Bodies, Stages
<1>2. CASE Single(r)
  BY <1>1, <1>2 DEF LegacyRouting
<1>3. CASE ~ Single(r)
  <2>1. r.legacy \in LegacyModes
    BY <1>3
  <2>2. LegacyStages(r.legacy) \in Seq(Others)
    <3>1. CASE r.legacy = "compare"
      BY <1>1, <3>1 DEF LegacyStages
    <3>2. CASE r.legacy = "cross-asset"
      BY <3>2 DEF LegacyStages, Others, Bodies, Stages
    <3>3. CASE r.legacy = "walk-forward"
      BY <3>3 DEF LegacyStages, Others, Bodies, Stages
    <3>4. CASE r.legacy = "all"
      BY <3>4 DEF LegacyStages, Others, Bodies, Stages
    <3>5. CASE r.legacy \in {"grid", "cost", "regime", "benchmark"}
      <4>1. LegacyStages(r.legacy) = <<r.legacy>>
        BY <3>5 DEF LegacyStages
      <4> QED
        BY <3>5, <4>1 DEF Others, Bodies, Stages
    <3> QED
      BY <2>1, <3>1, <3>2, <3>3, <3>4, <3>5 DEF LegacyModes
  <2> QED
    BY <1>3, <2>2 DEF LegacyRouting
<1> QED
  BY <1>2, <1>3

LEMMA PortfolioBody ==
  ASSUME NEW config
  PROVE  PortfolioRouting(config) \in Seq(Others)
<1>1. <<"portfolio">> \in Seq(Others) /\ <<"attribution", "statistics">> \in Seq(Others) /\ <<>> \in Seq(Others)
  BY DEF Others, Bodies, Stages
<1>2. (IF config.schema >= 3 THEN <<"attribution", "statistics">> ELSE <<>>) \in Seq(Others)
  BY <1>1
<1> QED
  BY <1>1, <1>2 DEF PortfolioRouting

(* An experiment without a selection-risk name ends with the bootstrap.    *)
LEMMA ResearchBody ==
  ASSUME NEW config
  PROVE  /\ ResearchRouting(config) \in Seq(Bodies)
         /\ ~ config.prefixed =>
              \E i \in 1 .. Len(ResearchRouting(config)) : ResearchRouting(config)[i] = "bootstrap"
<1> DEFINE first == <<"resolved_config">>
           tables == IF All(config) \/ config.prefixed THEN <<>>
                     ELSE <<"grid", "walk_forward", "cost", "regime">>
           last == IF config.prefixed THEN <<>> ELSE <<"bootstrap">>
           begin == first \o tables \o <<"selection_risk">>
<1>1. first \in Seq(Bodies) /\ <<"selection_risk">> \in Seq(Bodies)
  BY DEF Bodies, Stages
<1>2. tables \in Seq(Bodies) /\ last \in Seq(Bodies)
  <2>1. <<>> \in Seq(Bodies) /\ <<"bootstrap">> \in Seq(Bodies)
    BY DEF Bodies, Stages
  <2>2. <<"grid", "walk_forward", "cost", "regime">> \in Seq(Bodies)
    BY DEF Bodies, Stages
  <2> QED
    BY <2>1, <2>2
<1>3. last \in Seq(Bodies)
  BY <1>2
<1>4. ResearchRouting(config) = begin \o last
  BY DEF ResearchRouting
<1> HIDE DEF first, tables, last
<1>5. begin \in Seq(Bodies)
  BY <1>1, <1>2
<1> HIDE DEF begin
<1>6. ASSUME ~ config.prefixed
      PROVE  \E i \in 1 .. Len(begin \o last) : (begin \o last)[i] = "bootstrap"
  <2>1. last = <<"bootstrap">>
    BY <1>6 DEF last
  <2>2. Len(begin \o last) = Len(begin) + 1 /\ (begin \o last)[Len(begin) + 1] = "bootstrap"
    BY <1>5, <2>1
  <2> QED
    BY <1>5, <2>2
<1> QED
  BY <1>3, <1>4, <1>5, <1>6

(* The metadata are the last stage of every command that runs, and only    *)
(* that.                                                                   *)
LEMMA RoutesEnd ==
  ASSUME NEW r, Admitted(r), Runs(r)
  PROVE  /\ Routing(r) \in Seq(Stages)
         /\ Len(Routing(r)) \in Nat \ {0}
         /\ \A i \in 1 .. Len(Routing(r)) : Routing(r)[i] = "metadata" <=> i = Len(Routing(r))
         /\ \A i \in 1 .. Len(Routing(r)) : Routing(r)[i] = "selection_risk" =>
              \/ r.config.prefixed
              \/ \E j \in 1 .. Len(Routing(r)) : Routing(r)[j] = "bootstrap"
<1> DEFINE body == IF r.command = "legacy" THEN LegacyRouting(r)
                   ELSE IF r.config.allocates THEN PortfolioRouting(r.config)
                   ELSE ResearchRouting(r.config)
           Last(i) == i \in 1 .. Len(body) /\ body[i] = "bootstrap"
<1>1. Routing(r) = body \o <<"metadata">>
  BY DEF Routing
<1>2. \/ body \in Seq(Others)
      \/ body \in Seq(Bodies) /\ (~ r.config.prefixed => \E i : Last(i))
  <2>1. CASE r.command = "legacy"
    <3>1. Single(r) \/ r.legacy \in LegacyModes
      BY <2>1 DEF Admitted, Quiet
    <3> QED
      BY <2>1, <3>1, LegacyBody
  <2>2. CASE r.command # "legacy" /\ r.config.allocates
    BY <2>2, PortfolioBody
  <2>3. CASE r.command # "legacy" /\ ~ r.config.allocates
    BY <2>3, ResearchBody
  <2> QED
    BY <2>1, <2>2, <2>3
<1> HIDE DEF body
<1>3. body \in Seq(Bodies)
  <2>1. body \in Seq(Others) => body \in Seq(Bodies)
    BY DEF Others
  <2> QED
    BY <1>2, <2>1
<1>4. /\ Len(body \o <<"metadata">>) = Len(body) + 1 /\ Len(body) \in Nat
      /\ (body \o <<"metadata">>)[Len(body) + 1] = "metadata"
      /\ \A i \in 1 .. Len(body) : (body \o <<"metadata">>)[i] = body[i]
  BY <1>3
<1>5. \A i \in 1 .. Len(body) : body[i] \in Stages /\ body[i] # "metadata"
  BY <1>3 DEF Bodies
<1>6. body \o <<"metadata">> \in Seq(Stages)
  <2>1. body \in Seq(Stages)
    BY <1>3 DEF Bodies
  <2>2. <<"metadata">> \in Seq(Stages)
    BY DEF Stages
  <2> QED
    BY <2>1, <2>2
<1>7. \A i \in 1 .. Len(body) + 1 : i \in 1 .. Len(body) \/ i = Len(body) + 1
  BY <1>4
<1>8. \A i \in 1 .. Len(body) + 1 :
        (body \o <<"metadata">>)[i] = "metadata" <=> i = Len(body) + 1
  BY <1>4, <1>5, <1>7
<1>9. ASSUME NEW i \in 1 .. Len(body) + 1, (body \o <<"metadata">>)[i] = "selection_risk",
             ~ r.config.prefixed
      PROVE  \E j \in 1 .. Len(body) + 1 : (body \o <<"metadata">>)[j] = "bootstrap"
  <2>1. i \in 1 .. Len(body) /\ body[i] = "selection_risk"
    BY <1>4, <1>7, <1>9
  <2>2. body \notin Seq(Others)
    BY <2>1 DEF Others
  <2>3. PICK j : Last(j)
    BY <1>2, <1>9, <2>2
  <2> QED
    BY <1>4, <2>3
<1> QED
  BY <1>1, <1>4, <1>6, <1>8, <1>9

-----------------------------------------------------------------------------
(* Stages *)

Route == Routing(request)

Untouched == \A stage \in Stages : ~ Touched(stage)

(* The first n stages have written, those excepted that nobody checks.     *)
Written(n) == \A i \in 1 .. n : Touched(Route[i]) \/ Unchecked(request, Route[i])

(* No stage after the first n has written.                                 *)
NoneAfter(n) == \A stage \in Stages : Touched(stage) => \E i \in 1 .. n : Route[i] = stage

(* What is there once the first n stages have returned.                    *)
Returned(n) ==
  /\ Written(n) /\ NoneAfter(n)
  /\ \A i \in 1 .. n : Route[i] = "bootstrap" => ~ All(request.config)

StagesInv ==
  /\ status \in {"start", "running", "ok", "error"}
  /\ outputs \in [Stages -> {"earlier", "partial", "this"}]
  /\ status = "start" => Untouched
  /\ ~ (Admitted(request) /\ Runs(request)) => Untouched /\ status # "running"
  /\ status = "running" =>
       /\ stages \in Seq(Stages) /\ Len(stages) \in 1 .. Len(Route)
       /\ \A i \in 1 .. Len(stages) : stages[i] = Route[Len(Route) - Len(stages) + i]
       /\ Returned(Len(Route) - Len(stages))
  /\ status = "ok" /\ Runs(request) => Admitted(request) /\ Returned(Len(Route))
  /\ status = "ok" /\ ~ Runs(request) => Untouched
  /\ status = "error" =>
       /\ outputs["metadata"] # "this"
       /\ Admitted(request) /\ Runs(request) =>
            \E n \in 0 .. Len(Route) - 1 : Written(n) /\ NoneAfter(n + 1)

LEMMA StagesInvInit == RunInit => StagesInv
BY DEF RunInit, StagesInv, Untouched, Touched

LEMMA StagesInvDispatch ==
  ASSUME StagesInv, Dispatch
  PROVE  StagesInv'
<1>1. /\ status = "start" /\ request' = request /\ outputs' = outputs /\ Untouched
      /\ outputs \in [Stages -> {"earlier", "partial", "this"}]
  BY DEF Dispatch, StagesInv
<1>2. Untouched' /\ outputs'["metadata"] # "this"
  BY <1>1 DEF Untouched, Touched, Stages
<1>3. CASE ~ Admitted(request)
  <2>1. status' = "error"
    BY <1>3 DEF Dispatch
  <2> QED
    BY <1>1, <1>2, <1>3, <2>1 DEF StagesInv
<1>4. CASE Admitted(request) /\ ~ Runs(request)
  <2>1. status' = "ok"
    BY <1>4 DEF Dispatch
  <2> QED
    BY <1>1, <1>2, <1>4, <2>1 DEF StagesInv
<1>5. CASE Admitted(request) /\ Runs(request)
  <2>1. status' = "running" /\ stages' = Route /\ Route' = Route
    BY <1>1, <1>5 DEF Dispatch, Route
  <2>2. Route \in Seq(Stages) /\ Len(Route) \in Nat \ {0}
    BY <1>5, RoutesEnd DEF Route
  <2>3. Returned(0)'
    BY <1>2 DEF Returned, Written, NoneAfter, Untouched
  <2>4. Len(Route) - Len(Route) = 0
    BY <2>2
  <2> QED
    BY <1>1, <1>2, <1>5, <2>1, <2>2, <2>3, <2>4 DEF StagesInv
<1> QED
  BY <1>3, <1>4, <1>5

LEMMA Rest ==
  ASSUME NEW S, NEW s \in Seq(S), s # <<>>
  PROVE  /\ Tail(s) \in Seq(S) /\ Len(Tail(s)) = Len(s) - 1
         /\ \A i \in 1 .. Len(Tail(s)) : Tail(s)[i] = s[i + 1]
         /\ Tail(s) = <<>> <=> Len(s) = 1
<1>1. /\ Tail(s) \in Seq(S) /\ Len(Tail(s)) = Len(s) - 1
      /\ \A i \in 1 .. Len(Tail(s)) : Tail(s)[i] = s[i + 1]
  OBVIOUS
<1>2. Tail(s) = <<>> <=> Len(s) = 1
  BY <1>1
<1> QED
  BY <1>1, <1>2

LEMMA StagesInvReturn ==
  ASSUME StagesInv, Return
  PROVE  StagesInv'
<1> DEFINE n == Len(Route) - Len(stages)
<1>1. /\ status = "running" /\ request' = request /\ Route' = Route
      /\ Admitted(request) /\ Runs(request)
      /\ stages \in Seq(Stages) /\ Len(stages) \in 1 .. Len(Route) /\ Len(stages) \in Nat
      /\ \A i \in 1 .. Len(stages) : stages[i] = Route[n + i]
      /\ Returned(n)
      /\ outputs \in [Stages -> {"earlier", "partial", "this"}]
  BY DEF Return, StagesInv, Route
<1>2. /\ Route \in Seq(Stages) /\ Len(Route) \in Nat \ {0}
      /\ \A i \in 1 .. Len(Route) : Route[i] = "metadata" <=> i = Len(Route)
  BY <1>1, RoutesEnd DEF Route
<1>3. PICK m : m = n
  OBVIOUS
<1>4. m \in Nat /\ m + 1 \in 1 .. Len(Route) /\ Head(stages) = Route[m + 1] /\ Head(stages) \in Stages
  BY <1>1, <1>2, <1>3
<1>5. PICK left \in Left(request, Route[m + 1]) :
        outputs' = [outputs EXCEPT ![Route[m + 1]] = left]
  BY <1>4 DEF Return
<1>6. /\ outputs' \in [Stages -> {"earlier", "partial", "this"}]
      /\ Route[m + 1] \in Stages /\ outputs'[Route[m + 1]] = left
      /\ left # "earlier" \/ Unchecked(request, Route[m + 1])
  BY <1>1, <1>4, <1>5 DEF Left
<1>7. Route[m + 1] = "bootstrap" => ~ All(request.config)
  BY <1>1, <1>4 DEF Return, MaySucceed, At
<1>8. Returned(m + 1)'
  <2>1. Returned(m)
    BY <1>1, <1>3
  <2>2. ASSUME NEW i \in 1 .. m + 1
        PROVE  /\ outputs'[Route[i]] # "earlier" \/ Unchecked(request, Route[i])
               /\ Route[i] = "bootstrap" => ~ All(request.config)
    <3>1. CASE i = m + 1
      BY <1>6, <1>7, <3>1
    <3>2. CASE i # m + 1
      <4>1. i \in 1 .. m /\ i \in 1 .. Len(Route)
        BY <1>4, <3>2
      <4>2. /\ outputs[Route[i]] # "earlier" \/ Unchecked(request, Route[i])
            /\ Route[i] = "bootstrap" => ~ All(request.config)
        BY <2>1, <4>1 DEF Returned, Written, Touched
      <4>3. CASE Route[i] = Route[m + 1]
        BY <1>6, <1>7, <4>3
      <4>4. CASE Route[i] # Route[m + 1]
        BY <1>2, <1>5, <4>1, <4>2, <4>4
      <4> QED
        BY <4>3, <4>4
    <3> QED
      BY <3>1, <3>2
  <2>3. ASSUME NEW stage \in Stages, outputs'[stage] # "earlier"
        PROVE  \E i \in 1 .. m + 1 : Route[i] = stage
    <3>1. CASE stage = Route[m + 1]
      BY <1>4, <3>1
    <3>2. CASE stage # Route[m + 1]
      <4>1. outputs[stage] # "earlier"
        BY <1>1, <1>5, <2>3, <3>2
      <4>2. \E i \in 1 .. m : Route[i] = stage
        BY <2>1, <4>1 DEF Returned, NoneAfter, Touched
      <4> QED
        BY <1>4, <4>2
    <3> QED
      BY <3>1, <3>2
  <2> QED
    BY <1>1, <2>2, <2>3 DEF Returned, Written, NoneAfter, Touched
<1>9. /\ stages' = Tail(stages) /\ stages' \in Seq(Stages) /\ Len(stages') = Len(stages) - 1
      /\ \A i \in 1 .. Len(stages') : stages'[i] = stages[i + 1]
      /\ Tail(stages) = <<>> <=> Len(stages) = 1
  <2>1. stages' = Tail(stages)
    BY DEF Return
  <2>2. stages \in Seq(Stages) /\ Len(stages) \in Nat \ {0} /\ stages # <<>>
    BY <1>1
  <2>3. /\ Tail(stages) \in Seq(Stages) /\ Len(Tail(stages)) = Len(stages) - 1
        /\ \A i \in 1 .. Len(Tail(stages)) : Tail(stages)[i] = stages[i + 1]
        /\ Tail(stages) = <<>> <=> Len(stages) = 1
    BY <2>2, Rest
  <2> QED
    BY <2>1, <2>3, Zenon
<1>10. CASE Len(stages) = 1
  <2>1. status' = "ok" /\ m + 1 = Len(Route)
    BY <1>1, <1>2, <1>3, <1>9, <1>10 DEF Return
  <2>2. Returned(Len(Route))'
    BY <1>1, <1>8, <2>1
  <2> QED
    BY <1>1, <1>6, <2>1, <2>2 DEF StagesInv
<1>11. CASE Len(stages) # 1
  <2>1. status' = "running" /\ Len(Route) - Len(stages') = m + 1 /\ Len(stages') \in 1 .. Len(Route)
    BY <1>1, <1>2, <1>3, <1>9, <1>11 DEF Return
  <2>2. Returned(Len(Route) - Len(stages))'
    BY <1>1, <1>8, <2>1
  <2>3. \A i \in 1 .. Len(stages') : stages'[i] = Route[m + 1 + i]
    BY <1>1, <1>2, <1>3, <1>9, <1>11
  <2> QED
    BY <1>1, <1>6, <1>9, <2>1, <2>2, <2>3 DEF StagesInv
<1> QED
  BY <1>10, <1>11

LEMMA StagesInvRaise ==
  ASSUME StagesInv, Raise
  PROVE  StagesInv'
<1> DEFINE n == Len(Route) - Len(stages)
<1>1. /\ status = "running" /\ request' = request /\ status' = "error" /\ Route' = Route
      /\ Admitted(request) /\ Runs(request)
      /\ stages \in Seq(Stages) /\ Len(stages) \in 1 .. Len(Route) /\ Len(stages) \in Nat
      /\ \A i \in 1 .. Len(stages) : stages[i] = Route[n + i]
      /\ Returned(n)
      /\ outputs \in [Stages -> {"earlier", "partial", "this"}]
  BY DEF Raise, StagesInv, Route
<1>2. /\ Route \in Seq(Stages) /\ Len(Route) \in Nat \ {0}
      /\ \A i \in 1 .. Len(Route) : Route[i] = "metadata" <=> i = Len(Route)
  BY <1>1, RoutesEnd DEF Route
<1>3. PICK m : m = n
  OBVIOUS
<1>4. m \in 0 .. Len(Route) - 1 /\ Head(stages) = Route[m + 1] /\ Returned(m)
  BY <1>1, <1>2, <1>3
<1>5. "metadata" \in Stages
  BY DEF Stages
<1>6. outputs["metadata"] # "this"
  <2>1. ASSUME NEW i \in 1 .. m PROVE Route[i] # "metadata"
    BY <1>2, <1>4
  <2> QED
    BY <1>4, <1>5, <2>1 DEF Returned, NoneAfter, Touched
<1>7. PICK left \in {outputs[Route[m + 1]], "partial"} :
        outputs' = [outputs EXCEPT ![Route[m + 1]] = left]
  BY <1>4 DEF Raise
<1>8. outputs' \in [Stages -> {"earlier", "partial", "this"}] /\ outputs'["metadata"] # "this"
  BY <1>1, <1>5, <1>6, <1>7
<1>9. Written(m)'
  <2> SUFFICES ASSUME NEW i \in 1 .. m
               PROVE  outputs'[Route[i]] # "earlier" \/ Unchecked(request, Route[i])
    BY <1>1 DEF Written, Touched
  <2>1. i \in 1 .. Len(Route)
    BY <1>2, <1>4
  <2>2. outputs[Route[i]] # "earlier" \/ Unchecked(request, Route[i])
    BY <1>4 DEF Returned, Written, Touched
  <2>3. outputs'[Route[i]] \in {outputs[Route[i]], "partial"}
    BY <1>1, <1>2, <1>7, <2>1
  <2> QED
    BY <2>2, <2>3
<1>10. NoneAfter(m + 1)'
  <2> SUFFICES ASSUME NEW stage \in Stages, outputs'[stage] # "earlier"
               PROVE  \E i \in 1 .. m + 1 : Route[i] = stage
    BY <1>1 DEF NoneAfter, Touched
  <2>1. CASE stage = Route[m + 1]
    BY <1>2, <1>4, <2>1
  <2>2. CASE stage # Route[m + 1]
    <3>1. outputs[stage] # "earlier"
      BY <1>1, <1>7, <2>2
    <3>2. \E i \in 1 .. m : Route[i] = stage
      BY <1>4, <3>1 DEF Returned, NoneAfter, Touched
    <3> QED
      BY <1>2, <1>4, <3>2
  <2> QED
    BY <2>1, <2>2
<1> QED
  BY <1>1, <1>4, <1>8, <1>9, <1>10 DEF StagesInv

LEMMA StagesInvSame == StagesInv /\ UNCHANGED command => StagesInv'
BY DEF StagesInv, command, Route, Returned, Written, NoneAfter, Untouched, Touched

THEOREM CommandInvariant == RunSpec => []StagesInv
<1>1. StagesInv /\ [RunNext]_runVars => StagesInv'
  <2> SUFFICES ASSUME StagesInv, [RunNext]_runVars PROVE StagesInv'
    OBVIOUS
  <2>1. CASE Dispatch
    BY <2>1, StagesInvDispatch
  <2>2. CASE Return
    BY <2>2, StagesInvReturn
  <2>3. CASE Raise
    BY <2>3, StagesInvRaise
  <2>4. CASE SelectionRiskStep
    BY <2>4, StagesInvSame DEF SelectionRiskStep
  <2>5. CASE UNCHANGED runVars
    BY <2>5, StagesInvSame DEF runVars
  <2> QED
    BY <2>1, <2>2, <2>3, <2>4, <2>5 DEF RunNext
<1> QED
  BY StagesInvInit, <1>1, PTL DEF RunSpec

(* Whatever is asked, whichever stage raises and whatever the unchecked    *)
(* streams lost: the files a command leaves are of a first part of its     *)
(* route, with the metadata last, and a command that is refused or only    *)
(* asks leaves none.                                                       *)
THEOREM CommandFilesInOrder == RunSpec => []FilesInOrder
<1>1. StagesInv => FilesInOrder
  <2> SUFFICES ASSUME StagesInv PROVE FilesInOrder
    OBVIOUS
  <2>1. "metadata" \in Stages /\ "selection_risk" \in Stages
    BY DEF Stages
  <2>2. status = "error" => outputs["metadata"] # "this"
    BY DEF StagesInv
  <2>3. CASE ~ (Admitted(request) /\ Runs(request))
    <3>1. Untouched
      BY <2>3 DEF StagesInv
    <3>2. status = "ok" => ~ Runs(request)
      BY <2>3 DEF StagesInv
    <3> QED
      BY <2>1, <2>2, <2>3, <3>1, <3>2 DEF FilesInOrder, Untouched
  <2>4. CASE Admitted(request) /\ Runs(request)
    <3>1. /\ Len(Route) \in Nat \ {0}
          /\ \A i \in 1 .. Len(Route) : Route[i] = "metadata" <=> i = Len(Route)
          /\ \A i \in 1 .. Len(Route) : Route[i] = "selection_risk" =>
               \/ request.config.prefixed
               \/ \E j \in 1 .. Len(Route) : Route[j] = "bootstrap"
      BY <2>4, RoutesEnd DEF Route
    <3>2. Len(Route) \in Nat \ {0}
      BY <3>1, Zenon
    <3>3. status = "ok" => Returned(Len(Route))
      BY <2>4 DEF StagesInv
    <3>4. \E n \in 0 .. Len(Route) - 1 : Written(n) /\ NoneAfter(n + 1)
      <4>1. CASE status = "start"
        <5>1. Untouched
          BY <4>1 DEF StagesInv
        <5>2. Written(0) /\ NoneAfter(0 + 1)
          BY <5>1 DEF Written, NoneAfter, Untouched
        <5> QED
          BY <3>2, <5>2
      <4>2. CASE status = "running"
        <5>1. PICK n : n = Len(Route) - Len(stages)
          OBVIOUS
        <5>2. Returned(n) /\ n \in 0 .. Len(Route) - 1
          BY <3>2, <4>2, <5>1 DEF StagesInv
        <5>3. \A i \in 1 .. n : i \in 1 .. n + 1
          BY <5>2
        <5>4. Written(n) /\ NoneAfter(n + 1)
          BY <5>2, <5>3 DEF Returned, NoneAfter
        <5> QED
          BY <5>2, <5>4
      <4>3. CASE status = "ok"
        <5>1. PICK n : n = Len(Route) - 1
          OBVIOUS
        <5>2. n \in 0 .. Len(Route) - 1 /\ n + 1 = Len(Route) /\ \A i \in 1 .. n : i \in 1 .. Len(Route)
          BY <3>2, <5>1
        <5>3. Written(n) /\ NoneAfter(n + 1)
          BY <3>3, <4>3, <5>2 DEF Returned, Written
        <5> QED
          BY <5>2, <5>3
      <4>4. CASE status = "error"
        BY <2>4, <4>4 DEF StagesInv
      <4> QED
        BY <4>1, <4>2, <4>3, <4>4 DEF StagesInv
    <3>5. ASSUME status = "ok" PROVE Touched("metadata")
      <4>1. Len(Route) \in 1 .. Len(Route)
        BY <3>2
      <4>2. Route[Len(Route)] = "metadata"
        BY <3>1, <4>1, Zenon
      <4>3. ~ Unchecked(request, "metadata")
        BY DEF Unchecked
      <4> QED
        BY <3>3, <3>5, <4>1, <4>2, <4>3 DEF Returned, Written
    <3>6. ASSUME status = "ok", Touched("selection_risk"), All(request.config)
          PROVE  request.config.prefixed
      <4>1. PICK i \in 1 .. Len(Route) : Route[i] = "selection_risk"
        BY <2>1, <3>3, <3>6 DEF Returned, NoneAfter
      <4>2. \A j \in 1 .. Len(Route) : Route[j] # "bootstrap"
        BY <3>3, <3>6 DEF Returned
      <4> QED
        BY <3>1, <4>1, <4>2
    <3> QED
      BY <2>2, <2>4, <3>4, <3>5, <3>6 DEF FilesInOrder, Written, NoneAfter, Route
  <2> QED
    BY <2>3, <2>4
<1> QED
  BY CommandInvariant, <1>1, PTL

-----------------------------------------------------------------------------
(* Division *)

LEMMA ProductsInOrder ==
  ASSUME NEW b \in Nat \ {0}, NEW x \in Int, NEW y \in Int
  PROVE  /\ x <= y <=> b * x <= b * y
         /\ x < y <=> b * x < b * y
         /\ b * x \in Int
OBVIOUS

LEMMA Quotient ==
  ASSUME NEW b \in Nat \ {0}, NEW q \in Int, NEW r \in 0 .. b - 1
  PROVE  (b * q + r) \div b = q /\ (b * q + r) % b = r
OBVIOUS

LEMMA QuotientExists ==
  ASSUME NEW a \in Nat, NEW b \in Nat \ {0}
  PROVE  \E q \in Nat, r \in 0 .. b - 1 : a = b * q + r
<1> DEFINE S == {n \in Nat : \E q \in Nat, r \in 0 .. b - 1 : n = b * q + r}
<1>1. 0 \in S
  <2>1. 0 = b * 0 + 0 /\ 0 \in 0 .. b - 1 /\ 0 \in Nat
    OBVIOUS
  <2> QED
    BY <2>1
<1>2. ASSUME NEW n \in Nat, n \in S PROVE n + 1 \in S
  <2>1. PICK q \in Nat, r \in 0 .. b - 1 : n = b * q + r
    BY <1>2
  <2>2. CASE r < b - 1
    <3>1. r + 1 \in 0 .. b - 1 /\ n + 1 = b * q + (r + 1)
      BY <2>1, <2>2
    <3> QED
      BY <3>1
  <2>3. CASE r = b - 1
    <3>1. n + 1 = b * (q + 1) + 0 /\ 0 \in 0 .. b - 1 /\ q + 1 \in Nat
      BY <2>1, <2>3
    <3>2. \E p \in Nat, s \in 0 .. b - 1 : n + 1 = b * p + s
      BY <3>1, Zenon
    <3> QED
      BY <3>2
  <2>4. r < b - 1 \/ r = b - 1
    OBVIOUS
  <2> QED
    BY <2>2, <2>3, <2>4
<1> HIDE DEF S
<1>3. \A n \in Nat : n \in S
  BY <1>1, <1>2, InductionOnSets
<1> QED
  BY <1>3 DEF S

-----------------------------------------------------------------------------
(* bounded *)

(* The threshold is what is left of the words when every value has as many *)
(* of them as there can be.                                                *)
LEMMA ThresholdIsRemainder ==
  ASSUME NEW M \in Nat \ {0}, NEW bound \in 1 .. M,
         NEW q \in Nat, NEW r \in 0 .. bound - 1, M = bound * q + r
  PROVE  ((0 - bound) % M) % bound = r /\ q >= 1
<1>1. q >= 1
  <2>1. q = 0 => M = r
    OBVIOUS
  <2> QED
    BY <2>1
<1>2. CASE bound < M
  <2>1. (0 - bound) % M = M - bound
    <3>1. 0 - bound = M * (-1) + (M - bound) /\ M - bound \in 0 .. M - 1
      BY <1>2
    <3> QED
      BY <3>1, Quotient
  <2>2. M - bound = bound * (q - 1) + r
    OBVIOUS
  <2>3. (bound * (q - 1) + r) % bound = r
    BY Quotient
  <2> QED
    BY <1>1, <2>1, <2>2, <2>3
<1>3. CASE bound = M
  <2>1. (0 - bound) % M = 0
    <3>1. 0 - bound = M * (-1) + 0 /\ 0 \in 0 .. M - 1
      BY <1>3
    <3> QED
      BY <3>1, Quotient
  <2>2. M = bound * 1 + 0 /\ 0 \in 0 .. bound - 1
    BY <1>3
  <2>3. M % bound = 0 /\ M % bound = r
    BY <2>2, Quotient
  <2>4. 0 = bound * 0 + 0
    OBVIOUS
  <2>5. 0 % bound = 0
    BY <2>2, <2>4, Quotient
  <2> QED
    BY <1>1, <2>1, <2>3, <2>5
<1> QED
  BY <1>2, <1>3

(* A word's product with the bound, by its high and its low half.          *)
LEMMA HalvesOfProduct ==
  ASSUME NEW bound \in 1 .. 2 ^ Bits, 2 ^ Bits \in Nat \ {0}, NEW word \in Words,
         NEW r, RejectionThreshold(bound) = r, r \in 0 .. bound - 1,
         NEW value \in Nat
  PROVE  Accepted(word, bound) /\ Bounded(word, bound) = value
           <=> /\ 2 ^ Bits * value + r <= bound * word
               /\ bound * word < 2 ^ Bits * (value + 1)
<1> DEFINE M == 2 ^ Bits
           product == bound * word
<1>1. word \in Nat /\ bound \in Nat \ {0} /\ M \in Nat \ {0}
  BY DEF Words
<1>2. product \in Nat /\ word * bound = product
  BY <1>1
<1> HIDE DEF M, product
<1>3. PICK high \in Nat, low \in 0 .. M - 1 : product = M * high + low
  BY <1>1, <1>2, QuotientExists
<1>4. product \div M = high /\ product % M = low
  <2>1. (M * high + low) \div M = high /\ (M * high + low) % M = low
    BY <1>1, Quotient
  <2> QED
    BY <1>3, <2>1, Zenon
<1>5. (Accepted(word, bound) <=> low >= r) /\ Bounded(word, bound) = high
  BY <1>2, <1>4 DEF Accepted, Bounded, M
<1>6. /\ M * value \in Int /\ M * high \in Int /\ M * (value + 1) = M * value + M
      /\ M * (high + 1) = M * high + M
  BY <1>1
<1>7. CASE high = value
  BY <1>1, <1>3, <1>5, <1>6, <1>7 DEF M, product
<1>8. CASE high < value
  <2>1. M * (high + 1) <= M * value
    <3>1. high + 1 \in Int /\ high + 1 <= value
      BY <1>8
    <3> QED
      BY <1>1, <3>1, ProductsInOrder
  <2>2. product < M * value
    BY <1>1, <1>3, <1>6, <2>1
  <2> QED
    BY <1>1, <1>2, <1>5, <1>6, <1>8, <2>2 DEF M, product
<1>9. CASE value < high
  <2>1. M * (value + 1) <= M * high
    <3>1. value + 1 \in Int /\ value + 1 <= high
      BY <1>9
    <3> QED
      BY <1>1, <3>1, ProductsInOrder
  <2>2. ~ (product < M * (value + 1))
    BY <1>1, <1>3, <1>6, <2>1
  <2> QED
    BY <1>5, <1>9, <2>2 DEF M, product
<1> QED
  BY <1>7, <1>8, <1>9

(* The words of a value are consecutive, as many as there can be.          *)
LEMMA WordsOfValue ==
  ASSUME NEW bound \in 1 .. 2 ^ Bits, 2 ^ Bits \in Nat \ {0}, NEW value \in 0 .. bound - 1,
         NEW q \in Nat, NEW r \in 0 .. bound - 1, 2 ^ Bits = bound * q + r
  PROVE  \E first \in Nat :
           {word \in Words : Accepted(word, bound) /\ Bounded(word, bound) = value}
             = first .. first + q - 1
<1> DEFINE M == 2 ^ Bits
<1>1. /\ bound \in Nat \ {0} /\ M \in Nat \ {0} /\ value \in Nat /\ value + 1 <= bound
      /\ M = bound * q + r /\ q >= 1
  BY ThresholdIsRemainder
<1>2. RejectionThreshold(bound) = r
  BY ThresholdIsRemainder DEF RejectionThreshold
<1>3. \A word \in Words :
        Accepted(word, bound) /\ Bounded(word, bound) = value
          <=> M * value + r <= bound * word /\ bound * word < M * (value + 1)
  BY <1>1, <1>2, HalvesOfProduct
<1>4. Words = 0 .. M - 1
  BY DEF Words
<1> HIDE DEF M
<1>5. /\ M * value \in Nat /\ M * (value + 1) = M * value + M /\ M * (value + 1) \in Nat
      /\ bound * q \in Nat
  BY <1>1
<1>6. PICK first \in Nat, s \in 0 .. bound - 1 : M * value + r + bound - 1 = bound * first + s
  <2>1. M * value + r + bound - 1 \in Nat
    BY <1>1, <1>5
  <2> QED
    BY <1>1, <2>1, QuotientExists
<1>7. /\ bound * first \in Nat /\ bound * (first - 1) = bound * first - bound
      /\ bound * (first + q) = bound * first + bound * q
      /\ bound * (first + q - 1) = bound * first + bound * q - bound
  BY <1>1
<1>8. ASSUME NEW word \in Nat
      PROVE  /\ M * value + r <= bound * word <=> first <= word
             /\ bound * word < M * (value + 1) <=> word <= first + q - 1
  <2>1. bound * word \in Nat
    BY <1>1
  <2>2. M * value + r <= bound * word <=> bound * (first - 1) < bound * word
    <3>1. CASE first <= word
      <4>1. bound * first <= bound * word
        BY <1>1, <1>8, <3>1, ProductsInOrder
      <4> QED
        BY <1>1, <1>5, <1>6, <1>7, <2>1, <4>1
    <3>2. CASE word < first
      <4>1. word <= first - 1 /\ first - 1 \in Int
        BY <1>8, <3>2
      <4>2. bound * word <= bound * (first - 1)
        BY <1>1, <1>8, <4>1, ProductsInOrder
      <4> QED
        BY <1>1, <1>5, <1>6, <1>7, <2>1, <4>2
    <3> QED
      BY <3>1, <3>2
  <2>3. bound * word < M * (value + 1) <=> bound * word < bound * (first + q)
    <3>1. CASE word < first + q
      <4>1. word <= first + q - 1 /\ first + q - 1 \in Int
        BY <3>1
      <4>2. bound * word <= bound * (first + q - 1)
        BY <1>1, <1>8, <4>1, ProductsInOrder
      <4> QED
        BY <1>1, <1>5, <1>6, <1>7, <2>1, <4>2
    <3>2. CASE first + q <= word
      <4>1. bound * (first + q) <= bound * word
        BY <1>1, <1>8, <3>2, ProductsInOrder
      <4> QED
        BY <1>1, <1>5, <1>6, <1>7, <2>1, <4>1
    <3> QED
      BY <3>1, <3>2
  <2>4. bound * (first - 1) < bound * word <=> first - 1 < word
    BY <1>1, ProductsInOrder
  <2>5. bound * word < bound * (first + q) <=> word < first + q
    BY <1>1, ProductsInOrder
  <2>6. (first - 1 < word <=> first <= word) /\ (word < first + q <=> word <= first + q - 1)
    OBVIOUS
  <2> QED
    BY <2>2, <2>3, <2>4, <2>5, <2>6
<1>9. ASSUME NEW word \in first .. first + q - 1 PROVE word \in Words
  <2>1. word \in Nat /\ word <= first + q - 1
    OBVIOUS
  <2>2. bound * word < M * (value + 1)
    BY <1>8, <2>1
  <2>3. M * (value + 1) <= M * bound /\ M * bound = bound * M
    BY <1>1, ProductsInOrder
  <2>4. bound * word < bound * M
    BY <1>1, <1>5, <2>1, <2>2, <2>3
  <2>5. word < M
    BY <1>1, <2>1, <2>4, ProductsInOrder
  <2> QED
    BY <1>1, <1>4, <2>1, <2>5
<1>10. \A word \in Words : word \in Nat
  BY <1>4
<1>11. \A word \in Nat :
         word \in first .. first + q - 1 <=> first <= word /\ word <= first + q - 1
  OBVIOUS
<1>12. \A word \in Words :
         Accepted(word, bound) /\ Bounded(word, bound) = value
           <=> word \in first .. first + q - 1
  BY <1>3, <1>8, <1>10, <1>11, Zenon
<1> QED
  BY <1>9, <1>12, Zenon

(* Every value below any bound is made by the same number of words.        *)
LEMMA BoundedIsUniform ==
  ASSUME 2 ^ Bits \in Nat \ {0}, NEW bound \in 1 .. 2 ^ Bits
  PROVE  Uniform(bound)
<1> DEFINE M == 2 ^ Bits
<1>1. M \in Nat \ {0} /\ bound \in Nat \ {0} /\ bound \in 1 .. M /\ Words = 0 .. M - 1
  BY DEF Words
<1>2. RejectionThreshold(bound) = ((0 - bound) % M) % bound
  BY DEF RejectionThreshold
<1>3. \A word : Bounded(word, bound) = (word * bound) \div M
  BY DEF Bounded
<1> HIDE DEF M
<1>4. PICK q \in Nat, r \in 0 .. bound - 1 : M = bound * q + r
  BY <1>1, QuotientExists
<1>5. M \div bound = q
  <2>1. bound \in Nat \ {0} /\ q \in Int /\ r \in 0 .. bound - 1
    BY <1>1, <1>4
  <2>2. (bound * q + r) \div bound = q
    BY <2>1, Quotient, Zenon
  <2> QED
    BY <1>4, <2>2, Zenon
<1>6. q >= 1
  BY <1>1, <1>4, ThresholdIsRemainder
<1>7. ASSUME NEW value \in 0 .. bound - 1
      PROVE  Cardinality({word \in Words : Accepted(word, bound) /\ Bounded(word, bound) = value}) = q
  <2>1. PICK first \in Nat :
          {word \in Words : Accepted(word, bound) /\ Bounded(word, bound) = value}
            = first .. first + q - 1
    BY <1>4, WordsOfValue DEF M
  <2>2. Cardinality(first .. first + q - 1) = q
    <3>1. first \in Int /\ first + q - 1 \in Int /\ ~ (first > first + q - 1)
      BY <1>6
    <3>2. Cardinality(first .. first + q - 1) = (first + q - 1) - first + 1
      BY <3>1, FS_Interval
    <3> QED
      BY <3>2
  <2> QED
    BY <2>1, <2>2
<1>8. ASSUME NEW word \in Words PROVE Bounded(word, bound) < bound
  <2>1. word \in Nat /\ word < M
    BY <1>1
  <2>2. word * bound = bound * word /\ bound * word \in Nat /\ M * bound = bound * M
    BY <1>1, <2>1
  <2>3. PICK high \in Nat, low \in 0 .. M - 1 : bound * word = M * high + low
    BY <1>1, <2>2, QuotientExists
  <2>4. (word * bound) \div M = high
    <3>1. M \in Nat \ {0} /\ high \in Int /\ low \in 0 .. M - 1
      BY <1>1, <2>3
    <3>2. (M * high + low) \div M = high
      BY <3>1, Quotient, Zenon
    <3> QED
      BY <2>2, <2>3, <3>2, Zenon
  <2>5. bound * word < bound * M
    BY <1>1, <2>1, ProductsInOrder
  <2>6. M * high < M * bound
    <3>1. M * high \in Int /\ M * bound \in Int
      BY <1>1
    <3> QED
      BY <1>1, <2>2, <2>3, <2>5, <3>1
  <2>7. high < bound
    BY <1>1, <2>6, ProductsInOrder
  <2> QED
    BY <1>3, <2>4, <2>7
<1>9. 2 ^ Bits \div bound = q
  BY <1>5 DEF M
<1> QED
  BY <1>7, <1>8, <1>9 DEF Uniform

-----------------------------------------------------------------------------
(* sample_indices *)

(* The functions from finitely many places into a finite set are finitely  *)
(* many.                                                                   *)
LEMMA FiniteFunctions ==
  ASSUME NEW T, IsFiniteSet(T)
  PROVE  \A m \in Nat : IsFiniteSet([1 .. m -> T])
<1> DEFINE S == {m \in Nat : IsFiniteSet([1 .. m -> T])}
<1>1. 0 \in S
  <2>1. \A f, g \in [1 .. 0 -> T] : f = g
    OBVIOUS
  <2>2. [1 .. 0 -> T] = {} \/ \E f : [1 .. 0 -> T] = {f}
    BY <2>1, Zenon
  <2>3. CASE [1 .. 0 -> T] = {}
    BY <2>3, FS_EmptySet
  <2>4. CASE \E f : [1 .. 0 -> T] = {f}
    <3>1. PICK f : [1 .. 0 -> T] = {f}
      BY <2>4
    <3>2. IsFiniteSet({f})
      BY FS_Singleton
    <3> QED
      BY <3>1, <3>2
  <2> QED
    BY <2>2, <2>3, <2>4
<1>2. ASSUME NEW m \in Nat, m \in S PROVE m + 1 \in S
  <2> DEFINE From == [1 .. m -> T] \X T
             To   == [1 .. m + 1 -> T]
             extend == [x \in From |-> [i \in 1 .. m + 1 |-> IF i = m + 1 THEN x[2] ELSE x[1][i]]]
  <2>1. IsFiniteSet(From)
    BY <1>2, FS_Product
  <2>2. extend \in [From -> To]
    <3> SUFFICES ASSUME NEW x \in From
                 PROVE  [i \in 1 .. m + 1 |-> IF i = m + 1 THEN x[2] ELSE x[1][i]] \in To
      OBVIOUS
    <3>1. x[2] \in T /\ x[1] \in [1 .. m -> T]
      OBVIOUS
    <3>2. \A i \in 1 .. m + 1 : i # m + 1 => i \in 1 .. m
      OBVIOUS
    <3> QED
      BY <3>1, <3>2
  <2>3. ASSUME NEW t \in To PROVE \E x \in From : extend[x] = t
    <3> DEFINE s == [i \in 1 .. m |-> t[i]]
               x == <<s, t[m + 1]>>
    <3>1. m + 1 \in 1 .. m + 1 /\ 1 .. m \subseteq 1 .. m + 1
      OBVIOUS
    <3>2. s \in [1 .. m -> T] /\ t[m + 1] \in T
      BY <3>1
    <3>3. x \in From /\ x[1] = s /\ x[2] = t[m + 1]
      BY <3>2
    <3>4. extend[x] = [i \in 1 .. m + 1 |-> IF i = m + 1 THEN t[m + 1] ELSE s[i]]
      <4> HIDE DEF s, x
      <4>1. extend[x] = [i \in 1 .. m + 1 |-> IF i = m + 1 THEN x[2] ELSE x[1][i]]
        BY <3>3, Zenon
      <4> QED
        BY <3>3, <4>1, Zenon
    <3>5. \A i \in 1 .. m + 1 : i # m + 1 => s[i] = t[i]
      OBVIOUS
    <3>6. t = [i \in 1 .. m + 1 |-> t[i]]
      OBVIOUS
    <3>7. extend[x] = t
      <4> HIDE DEF extend, s, x
      <4> QED
        BY <3>4, <3>5, <3>6
    <3> QED
      BY <3>3, <3>7
  <2> HIDE DEF extend
  <2>4. extend \in Surjection(From, To)
    BY <2>2, <2>3 DEF Surjection
  <2>5. IsFiniteSet(To)
    BY <2>1, <2>4, FS_Surjection
  <2> QED
    BY <2>5
<1> HIDE DEF S
<1>3. \A m \in Nat : m \in S
  BY <1>1, <1>2, InductionOnSets
<1> QED
  BY <1>3 DEF S

(* As many functions take one value at a place as another: together they   *)
(* are one for each pair of such a function and a value.                   *)
LEMMA PlaceIsFree ==
  ASSUME NEW m \in Nat, NEW n \in Nat \ {0}, NEW j \in 1 .. m, NEW v \in 0 .. n - 1
  PROVE  Cardinality({s \in [1 .. m -> 0 .. n - 1] : s[j] = v}) * n
           = Cardinality([1 .. m -> 0 .. n - 1])
<1> DEFINE T == 0 .. n - 1
           Tuples == [1 .. m -> T]
           Fixed == {s \in Tuples : s[j] = v}
           put == [x \in Fixed \X T |-> [x[1] EXCEPT ![j] = x[2]]]
<1>1. IsFiniteSet(T) /\ Cardinality(T) = n
  <2>1. 0 \in Int /\ n - 1 \in Int /\ ~ (0 > n - 1)
    OBVIOUS
  <2>2. IsFiniteSet(0 .. n - 1) /\ Cardinality(0 .. n - 1) = n - 1 - 0 + 1
    BY <2>1, FS_Interval
  <2> QED
    BY <2>2
<1>2. IsFiniteSet(Tuples)
  BY <1>1, FiniteFunctions
<1> HIDE DEF T
<1>3. v \in T
  BY DEF T
<1>4. IsFiniteSet(Fixed)
  BY <1>2, FS_Subset
<1>5. IsFiniteSet(Fixed \X T) /\ Cardinality(Fixed \X T) = Cardinality(Fixed) * n
  BY <1>1, <1>4, FS_Product
<1>6. put \in [Fixed \X T -> Tuples]
  OBVIOUS
<1>7. ASSUME NEW x \in Fixed \X T, NEW y \in Fixed \X T, put[x] = put[y] PROVE x = y
  <2>1. /\ x[1] \in Tuples /\ y[1] \in Tuples /\ x[1][j] = v /\ y[1][j] = v
        /\ x = <<x[1], x[2]>> /\ y = <<y[1], y[2]>>
    OBVIOUS
  <2>2. [x[1] EXCEPT ![j] = x[2]] = [y[1] EXCEPT ![j] = y[2]]
    BY <1>7
  <2>3. x[2] = y[2]
    BY <2>1, <2>2
  <2>4. \A i \in 1 .. m : x[1][i] = y[1][i]
    BY <2>1, <2>2
  <2>5. x[1] = y[1]
    BY <2>1, <2>4
  <2> QED
    BY <2>1, <2>3, <2>5
<1>8. ASSUME NEW t \in Tuples PROVE \E x \in Fixed \X T : put[x] = t
  <2> DEFINE s == [t EXCEPT ![j] = v]
             x == <<s, t[j]>>
  <2>1. s \in Fixed /\ t[j] \in T
    BY <1>3
  <2>2. x \in Fixed \X T /\ put[x] = [s EXCEPT ![j] = t[j]]
    BY <2>1
  <2>3. [s EXCEPT ![j] = t[j]] = t
    OBVIOUS
  <2> QED
    BY <2>2, <2>3
<1> HIDE DEF put
<1>9. put \in Injection(Fixed \X T, Tuples) /\ put \in Surjection(Fixed \X T, Tuples)
  BY <1>6, <1>7, <1>8 DEF Injection, IsInjective, Surjection
<1>10. Cardinality(Tuples) = Cardinality(Fixed \X T)
  BY <1>5, <1>9, FS_Surjection
<1> QED
  BY <1>5, <1>10 DEF T

(* Moved around the circle by a constant, every place comes from one.      *)
LEMMA OnePlaceBefore ==
  ASSUME NEW n \in Nat \ {0}, NEW off \in Nat, NEW value \in 0 .. n - 1
  PROVE  \E v \in 0 .. n - 1 : \A u \in 0 .. n - 1 : (u + off) % n = value <=> u = v
<1>1. PICK q \in Nat, r \in 0 .. n - 1 : off = n * q + r
  BY QuotientExists
<1>2. n * q \in Nat /\ n * (q + 1) = n * q + n
  BY <1>1
<1>3. ASSUME NEW u \in 0 .. n - 1
      PROVE  (u + off) % n = IF u + r < n THEN u + r ELSE u + r - n
  <2>1. CASE u + r < n
    <3>1. u + off = n * q + (u + r) /\ u + r \in 0 .. n - 1
      BY <1>1, <1>2, <2>1
    <3>2. (n * q + (u + r)) % n = u + r
      BY <1>1, <3>1, Quotient
    <3>3. (u + off) % n = u + r
      BY <3>1, <3>2, Zenon
    <3> QED
      BY <2>1, <3>3
  <2>2. CASE ~ (u + r < n)
    <3>1. u + off = n * (q + 1) + (u + r - n) /\ u + r - n \in 0 .. n - 1 /\ q + 1 \in Int
      BY <1>1, <1>2, <2>2
    <3>2. (n * (q + 1) + (u + r - n)) % n = u + r - n
      BY <3>1, Quotient
    <3>3. (u + off) % n = u + r - n
      BY <3>1, <3>2, Zenon
    <3> QED
      BY <2>2, <3>3
  <2> QED
    BY <2>1, <2>2
<1> DEFINE v == IF value >= r THEN value - r ELSE value - r + n
<1>4. v \in 0 .. n - 1
  BY <1>1
<1>5. ASSUME NEW u \in 0 .. n - 1 PROVE (u + off) % n = value <=> u = v
  BY <1>1, <1>3
<1> QED
  BY <1>4, <1>5

(* Every index is drawn equally often at every place of a sample.          *)
LEMMA SamplesAreEven ==
  ASSUME NEW n \in Nat \ {0}, NEW block \in 1 .. n
  PROVE  EvenSample(n, block)
<1> DEFINE m == ((n - 1) \div block) + 1
           starts == [1 .. m -> 0 .. n - 1]
<1> SUFFICES ASSUME NEW i \in 1 .. n, NEW value \in 0 .. n - 1
             PROVE  Cardinality({s \in starts : SampleIndices(n, block, s)[i] = value}) * n
                      = Cardinality(starts)
  BY DEF EvenSample
<1>1. block \in Nat \ {0} /\ i - 1 \in Nat /\ n - 1 \in Nat
  OBVIOUS
<1>2. PICK q \in Nat, r \in 0 .. block - 1 : i - 1 = block * q + r
  BY <1>1, QuotientExists
<1>3. PICK p \in Nat, z \in 0 .. block - 1 : n - 1 = block * p + z
  BY <1>1, QuotientExists
<1>4. (i - 1) \div block = q /\ (i - 1) % block = r
  <2>1. (block * q + r) \div block = q /\ (block * q + r) % block = r
    BY <1>1, <1>2, Quotient
  <2> QED
    BY <1>2, <2>1, Zenon
<1>5. (n - 1) \div block = p
  <2>1. (block * p + z) \div block = p
    BY <1>1, <1>3, Quotient
  <2> QED
    BY <1>3, <2>1, Zenon
<1>6. q <= p
  <2>1. block * q <= n - 1
    BY <1>1, <1>2
  <2>2. block * q < block * p + block /\ block * (p + 1) = block * p + block
    BY <1>1, <1>3, <2>1
  <2>3. q < p + 1
    BY <1>1, <1>2, <1>3, <2>2, ProductsInOrder
  <2> QED
    BY <1>2, <1>3, <2>3
<1>7. q + 1 \in 1 .. m /\ m \in Nat
  BY <1>2, <1>3, <1>5, <1>6
<1>8. \A s \in starts : SampleIndices(n, block, s)[i] = (s[q + 1] + r) % n
  BY <1>4 DEF SampleIndices
<1>9. PICK v \in 0 .. n - 1 : \A u \in 0 .. n - 1 : (u + r) % n = value <=> u = v
  <2>1. r \in Nat
    BY <1>1, <1>2
  <2> QED
    BY <2>1, OnePlaceBefore
<1> HIDE DEF m
<1>10. {s \in starts : SampleIndices(n, block, s)[i] = value} = {s \in starts : s[q + 1] = v}
  BY <1>7, <1>8, <1>9
<1>11. Cardinality({s \in starts : s[q + 1] = v}) * n = Cardinality(starts)
  BY <1>7, <1>9, PlaceIsFree
<1> QED
  BY <1>10, <1>11, Zenon

-----------------------------------------------------------------------------
(* Draws *)

(* A power of two counts the subsets of a set.                             *)
LEMMA PowerOfTwo ==
  ASSUME NEW n \in Nat
  PROVE  2 ^ n \in Nat \ {0}
<1>1. IsFiniteSet(1 .. n) /\ Cardinality(1 .. n) = n
  BY FS_Interval
<1>2. IsFiniteSet(SUBSET (1 .. n)) /\ Cardinality(SUBSET (1 .. n)) = 2 ^ n
  BY <1>1, FS_SUBSET
<1>3. SUBSET (1 .. n) # {}
  OBVIOUS
<1> QED
  BY <1>2, <1>3, FS_CardinalityType, FS_EmptySet

(* For words of any width: an experiment's bootstraps draw every index     *)
(* below any bound, and every observation at every place, equally often.   *)
THEOREM CommandDrawsEven == RunSpec => []DrawsEven
<1>1. 2 ^ Bits \in Nat \ {0}
  BY SamplingAssumption, PowerOfTwo
<1>2. \A bound \in 1 .. 2 ^ Bits : Uniform(bound)
  BY <1>1, BoundedIsUniform
<1>3. \A n \in 1 .. 5 : \A block \in 1 .. n : EvenSample(n, block)
  BY SamplesAreEven
<1>4. DrawsEven
  BY <1>2, <1>3 DEF DrawsEven
<1> QED
  BY <1>4, PTL

-----------------------------------------------------------------------------
(* Regimes *)

Agree(a, b, k) == \A j \in 1 .. k : a[j] = b[j]

LEMMA VolatilityAgrees ==
  ASSUME NEW a, NEW b, NEW k \in Nat, Agree(a, b, k), NEW i \in 1 .. k, i > VolatilityWindow
  PROVE  Volatility(a, i) = Volatility(b, i)
<1> DEFINE window == i - VolatilityWindow + 1 .. i
           move(c) == [j \in window |-> c[j] - c[j - 1]]
<1>1. VolatilityWindow \in Nat \ {0}
  BY RegimeAssumption
<1>2. \A j \in window : a[j] = b[j] /\ a[j - 1] = b[j - 1]
  <2>1. \A j \in window : j \in 1 .. k /\ j - 1 \in 1 .. k
    BY <1>1
  <2> QED
    BY <2>1 DEF Agree
<1>3. move(a) = move(b)
  BY <1>2
<1> QED
  BY <1>3 DEF Volatility

LEMMA RegimeAgrees ==
  ASSUME NEW a, NEW b, NEW k \in Nat, Agree(a, b, k), NEW i \in 1 .. k
  PROVE  RegimeAt(a, i) = RegimeAt(b, i)
<1>1. CASE ~ Ready(i)
  BY <1>1 DEF RegimeAt
<1>2. CASE Ready(i)
  <2>1. VolatilityWindow \in Nat \ {0} /\ TrendWindow \in Nat \ {0} /\ ReturnWindow \in Nat \ {0}
    BY RegimeAssumption
  <2>2. i > VolatilityWindow /\ i >= TrendWindow /\ i > ReturnWindow
    BY <1>2 DEF Ready, HasVolatility
  <2>3. Volatility(a, i) = Volatility(b, i)
    BY <2>2, VolatilityAgrees
  <2>4. Prior(a, i) = Prior(b, i)
    <3>1. ASSUME NEW n \in 1 .. i - 1 - VolatilityWindow
          PROVE  Volatility(a, VolatilityWindow + n) = Volatility(b, VolatilityWindow + n)
      <4>1. VolatilityWindow + n \in 1 .. k /\ VolatilityWindow + n > VolatilityWindow
        BY <2>1, <2>2
      <4> QED
        BY <4>1, VolatilityAgrees
    <3> QED
      BY <3>1 DEF Prior
  <2>5. Trend(a, i) = Trend(b, i)
    <3> DEFINE window == i - TrendWindow + 1 .. i
    <3>1. \A j \in window : j \in 1 .. k
      BY <2>1, <2>2
    <3>2. [j \in window |-> a[j]] = [j \in window |-> b[j]]
      BY <3>1 DEF Agree
    <3>3. i - ReturnWindow \in 1 .. k
      BY <2>1, <2>2
    <3>4. a[i] = b[i] /\ a[i - ReturnWindow] = b[i - ReturnWindow]
      BY <3>3 DEF Agree
    <3> QED
      BY <3>2, <3>4 DEF Trend
  <2> QED
    BY <1>2, <2>3, <2>4, <2>5 DEF RegimeAt
<1> QED
  BY <1>1, <1>2

(* The last of some sessions up to one is one of them.                     *)
LEMMA LastOfSome ==
  ASSUME NEW to \in Nat, NEW known, known \subseteq 1 .. to, known # {}
  PROVE  (CHOOSE i \in known : \A j \in known : j <= i) \in known
<1> DEFINE distances == {to - i : i \in known}
<1>1. distances \subseteq Nat /\ distances # {}
  OBVIOUS
<1>2. PICK x \in distances : \A y \in distances : x <= y
  BY <1>1, LeastOfSet
<1>3. PICK last \in known : x = to - last
  BY <1>2
<1>4. ASSUME NEW j \in known PROVE j <= last
  <2>1. x <= to - j
    BY <1>2
  <2> QED
    BY <1>3, <2>1
<1>5. \E i \in known : \A j \in known : j <= i
  BY <1>4
<1> QED
  BY <1>5, Zenon

LEMMA LastAvailableAgrees ==
  ASSUME NEW a, NEW b, NEW k \in Nat, Agree(a, b, k), NEW to \in 0 .. k
  PROVE  LastAvailable(a, to) = LastAvailable(b, to)
<1> DEFINE known == {i \in 1 .. to : Ready(i)}
           last == CHOOSE i \in known : \A j \in known : j <= i
<1>1. CASE known = {}
  BY <1>1 DEF LastAvailable
<1>2. CASE known # {}
  <2>1. last \in known
    <3>1. to \in Nat /\ known \subseteq 1 .. to
      OBVIOUS
    <3> HIDE DEF known
    <3> QED
      BY <1>2, <3>1, LastOfSome
  <2>2. last \in 1 .. k
    BY <2>1
  <2>3. RegimeAt(a, last) = RegimeAt(b, last)
    BY <2>2, RegimeAgrees
  <2> QED
    BY <1>2, <2>3 DEF LastAvailable
<1> QED
  BY <1>1, <1>2

LEMMA KnownAtSession ==
  ASSUME closes \in Seq(Int), NEW now \in 1 .. Len(closes), NEW to \in 0 .. now,
         NEW later \in [now + 1 .. Len(closes) -> {closes[i] : i \in DOMAIN closes}]
  PROVE  LastAvailable([i \in DOMAIN closes |-> IF i > now THEN later[i] ELSE closes[i]], to)
           = LastAvailable(closes, to)
<1> DEFINE series == [i \in DOMAIN closes |-> IF i > now THEN later[i] ELSE closes[i]]
<1>1. now \in Nat /\ Len(closes) \in Nat
  OBVIOUS
<1>2. Agree(series, closes, now)
  BY <1>1 DEF Agree
<1> QED
  BY <1>1, <1>2, LastAvailableAgrees

LEMMA AtSession ==
  ASSUME closes \in Seq(Int), NEW s \in 2 .. Len(closes),
         NEW later \in [s - 1 + 1 .. Len(closes) -> {closes[i] : i \in DOMAIN closes}]
  PROVE  LastAvailable([i \in DOMAIN closes |-> IF i > s - 1 THEN later[i] ELSE closes[i]], s - 1)
           = LastAvailable(closes, s - 1)
<1>1. Len(closes) \in Nat
  OBVIOUS
<1>2. s - 1 \in 1 .. Len(closes) /\ s - 1 \in 0 .. s - 1
  BY <1>1
<1> QED
  BY <1>2, KnownAtSession

(* A return is counted with the trades at its end's open, and once.        *)
LEMMA CountedTogether ==
  ASSUME closes \in Seq(Int), NEW held, NEW trades, DOMAIN trades = DOMAIN closes,
         \A s \in DOMAIN closes : trades[s].session = s, NEW regime
  PROVE  /\ Evaluation(closes, held, trades, regime).days
              = Evaluation(closes, held, trades, regime).trades \ {1}
         /\ Evaluation(closes, held, trades, regime).winners
              \subseteq Evaluation(closes, held, trades, regime).closed
<1>1. DOMAIN closes = 1 .. Len(closes) /\ Len(closes) \in Nat
  OBVIOUS
<1>2. 2 .. Len(closes) = DOMAIN closes \ {1}
  BY <1>1
<1> QED
  BY <1>2 DEF Evaluation, RegimeForReturnInterval, RegimeForExecution

LEMMA CountedOnce ==
  ASSUME NEW held, NEW trades, NEW regime, NEW other, regime # other
  PROVE  Evaluation(closes, held, trades, regime).days
           \cap Evaluation(closes, held, trades, other).days = {}
BY DEF Evaluation

ClosesInv == closes \in Seq(Int)

THEOREM CommandRegimesCausal == RunSpec => []RegimesCausal
<1>1. RunInit => ClosesInv
  BY DEF RunInit, Init, ClosesInv
<1>2. ClosesInv /\ [RunNext]_runVars => ClosesInv'
  <2> SUFFICES ASSUME ClosesInv, [RunNext]_runVars PROVE ClosesInv'
    OBVIOUS
  <2>1. CASE Load
    BY <2>1, SelectionRiskAssumption DEF Load, ClosesInv
  <2>2. CASE Next /\ ~ Load
    <3>1. closes' = closes
      BY <2>2 DEF Next, StartTraining, Rank, Collect, Train, Evaluate, RegimePanels, OutOfSampleRanks,
         Deploy, StartPanels, FamilyPanel, CrossFamilyPanel, Finish, data
    <3> QED
      BY <3>1 DEF ClosesInv
  <2>3. CASE closes' = closes
    BY <2>3 DEF ClosesInv
  <2>4. Next \/ closes' = closes
    BY DEF RunNext, Dispatch, Return, Raise, SelectionRiskStep, runVars, vars, data
  <2> QED
    BY <2>1, <2>2, <2>3, <2>4
<1>3. ClosesInv => RegimesCausal
  <2> SUFFICES ASSUME closes \in Seq(Int) PROVE RegimesCausal
    BY DEF ClosesInv
  <2> DEFINE trades == [s \in DOMAIN closes |-> [session |-> s, sell |-> s > 3, profit |-> closes[s] - 5]]
             counted(regime) == Evaluation(closes, 1 .. 7, trades, regime)
             AtOpen(s, series)  == RegimeForExecution(series, s)
             AtStart(s, series) == RegimeForReturnInterval(series, s - 1)
  <2>1. ASSUME NEW s \in 2 .. Len(closes),
               NEW later \in [s - 1 + 1 .. Len(closes) -> {closes[i] : i \in DOMAIN closes}]
        PROVE  LET series == [i \in DOMAIN closes |-> IF i > s - 1 THEN later[i] ELSE closes[i]]
               IN /\ RegimeForExecution(series, s) = RegimeForExecution(closes, s)
                  /\ RegimeForReturnInterval(series, s - 1) = RegimeForReturnInterval(closes, s - 1)
    BY <2>1, AtSession DEF RegimeForExecution, RegimeForReturnInterval
  <2>3. ASSUME NEW regime
        PROVE  /\ counted(regime).days = counted(regime).trades \ {1}
               /\ counted(regime).winners \subseteq counted(regime).closed
    <3>1. DOMAIN trades = DOMAIN closes /\ \A s \in DOMAIN closes : trades[s].session = s
      OBVIOUS
    <3> HIDE DEF trades
    <3> QED
      BY <3>1, CountedTogether
  <2>4. ASSUME NEW regime, NEW other, regime # other
        PROVE  counted(regime).days \cap counted(other).days = {}
    BY <2>4, CountedOnce
  <2>5. \A s \in 2 .. Len(closes) :
          \A later \in [s - 1 + 1 .. Len(closes) -> {closes[i] : i \in DOMAIN closes}] :
             LET series == [i \in DOMAIN closes |-> IF i > s - 1 THEN later[i] ELSE closes[i]]
             IN /\ RegimeForExecution(series, s) = RegimeForExecution(closes, s)
                /\ RegimeForReturnInterval(series, s - 1) = RegimeForReturnInterval(closes, s - 1)
    BY <2>1
  <2> HIDE DEF trades
  <2>6. /\ \A regime : /\ counted(regime).days = counted(regime).trades \ {1}
                       /\ counted(regime).winners \subseteq counted(regime).closed
        /\ \A regime, other : regime # other => counted(regime).days \cap counted(other).days = {}
    BY <2>3, <2>4
  <2> QED
    BY <2>5, <2>6 DEF RegimesCausal, KnownAt, trades
<1> QED
  BY <1>1, <1>2, <1>3, PTL DEF RunSpec

-----------------------------------------------------------------------------
(* The rows *)

(* The rows of a row's window and family ahead of it.                      *)
RowsAhead(table, i) ==
  {j \in DOMAIN table : /\ j < i /\ table[j].window = table[i].window
                        /\ Grid[table[j].candidate] = Grid[table[i].candidate]}

RowSet ==
  [window : Nat, candidate : Candidates, eligible : BOOLEAN, training_rank : Nat,
   selected : BOOLEAN, active : Int, oos_rank : Nat]

SoundRow(table, i, now) ==
  /\ table[i].window < now
  /\ table[i].training_rank = 1 + Cardinality(RowsAhead(table, i))
  /\ table[i].selected <=> table[i].eligible /\ \A j \in RowsAhead(table, i) : ~ table[j].eligible
  /\ table[i].eligible => table[i].active # Unset

SoundTable(table, now) ==
  /\ now \in Nat
  /\ table \in Seq(RowSet)
  /\ \A i \in DOMAIN table : SoundRow(table, i, now)
  /\ \A i, j \in DOMAIN table :
       table[i].window = table[j].window /\ table[i].candidate = table[j].candidate => i = j

Trained ==
  /\ scores \in [Candidates -> Int]
  /\ phase = "evaluate" =>
       /\ ranked \in [1 .. Cardinality(Configured) -> Configured]
       /\ \A r, s \in DOMAIN ranked : ranked[r] = ranked[s] => r = s
       /\ tested \in [DOMAIN ranked -> Int]
       /\ \A r \in DOMAIN ranked \ pending : Eligible(ranked[r]) => tested[r] # Unset

OutOfSampleRanked ==
  phase = "deploy" =>
    \A i \in DOMAIN rows : rows[i].eligible =>
      rows[i].oos_rank = 1 + Cardinality({j \in DOMAIN rows : Beats(rows[j], rows[i])})

SelectionInv == SoundTable(rows, w) /\ Trained /\ OutOfSampleRanked

LEMMA CandidatesFinite ==
  /\ Len(Grid) \in Nat \ {0} /\ Candidates = 1 .. Len(Grid)
  /\ IsFiniteSet(Candidates)
  /\ IsFiniteSet(Configured) /\ Cardinality(Configured) \in Nat /\ Configured \subseteq Candidates
<1>1. Len(Grid) \in Nat \ {0} /\ Candidates = 1 .. Len(Grid)
  BY SelectionRiskAssumption DEF Candidates
<1>2. IsFiniteSet(Candidates)
  BY <1>1, FS_Interval
<1>3. Configured \in SUBSET Candidates
  BY DEF Configured
<1>4. IsFiniteSet(Configured)
  BY <1>2, <1>3, FS_Subset
<1> QED
  BY <1>1, <1>2, <1>3, <1>4, FS_CardinalityType

LEMMA AheadFinite ==
  ASSUME NEW table \in Seq(RowSet), NEW i \in DOMAIN table
  PROVE  IsFiniteSet(RowsAhead(table, i)) /\ Cardinality(RowsAhead(table, i)) \in Nat
<1>1. DOMAIN table = 1 .. Len(table) /\ Len(table) \in Nat
  OBVIOUS
<1>2. IsFiniteSet(1 .. Len(table))
  BY <1>1, FS_Interval
<1>3. RowsAhead(table, i) \in SUBSET (1 .. Len(table))
  BY <1>1 DEF RowsAhead
<1> QED
  BY <1>2, <1>3, FS_Subset, FS_CardinalityType

LEMMA RowFields ==
  ASSUME NEW r
  PROVE  /\ Row(r).window = w /\ Row(r).candidate = ranked[r]
         /\ Row(r).eligible <=> Eligible(ranked[r])
         /\ Row(r).selected <=> Selected(r)
         /\ Row(r).training_rank = Cardinality(FamilyAhead(r)) + 1
         /\ Row(r).active = tested[r]
<1>1. Eligible(ranked[r]) \in BOOLEAN /\ Selected(r) \in BOOLEAN
  BY DEF Eligible, Selected
<1> QED
  BY <1>1 DEF Row

(* Collecting a window's rows adds its candidates in the order of their    *)
(* ranks.                                                                  *)
LEMMA Collected ==
  ASSUME SoundTable(rows, w), Trained, phase = "evaluate", pending = {}
  PROVE  SoundTable(rows \o [rank \in DOMAIN ranked |-> Row(rank)], w + 1)
<1> DEFINE n == Cardinality(Configured)
           L == Len(rows)
           new == [rank \in DOMAIN ranked |-> Row(rank)]
           table == rows \o new
<1>1. /\ n \in Nat /\ L \in Nat /\ w \in Nat
      /\ DOMAIN ranked = 1 .. n /\ \A r \in 1 .. n : ranked[r] \in Candidates
      /\ rows \in Seq(RowSet) /\ DOMAIN rows = 1 .. L
  <2>1. ranked \in [1 .. n -> Configured]
    BY DEF Trained
  <2>2. rows \in Seq(RowSet) /\ w \in Nat
    BY DEF SoundTable
  <2>3. \A r \in 1 .. n : ranked[r] \in Candidates
    BY <2>1, CandidatesFinite
  <2>4. L \in Nat /\ DOMAIN rows = 1 .. L
    BY <2>2
  <2>5. n \in Nat
    BY CandidatesFinite
  <2>6. DOMAIN ranked = 1 .. n
    BY <2>1
  <2> QED
    BY <2>2, <2>3, <2>4, <2>5, <2>6
<1>2. ASSUME NEW r \in 1 .. n
      PROVE  /\ IsFiniteSet(FamilyAhead(r)) /\ Cardinality(FamilyAhead(r)) \in Nat
             /\ Row(r) \in RowSet
  <2>1. FamilyAhead(r) \in SUBSET (1 .. n) /\ IsFiniteSet(1 .. n)
    BY <1>1, FS_Interval DEF FamilyAhead
  <2>2. IsFiniteSet(FamilyAhead(r)) /\ Cardinality(FamilyAhead(r)) \in Nat
    BY <2>1, FS_Subset, FS_CardinalityType
  <2>3. Selected(r) \in BOOLEAN /\ Eligible(ranked[r]) \in BOOLEAN
    BY DEF Selected, Eligible
  <2>4. tested[r] \in Int
    BY <1>1 DEF Trained
  <2> QED
    BY <1>1, <2>2, <2>3, <2>4 DEF Row, RowSet
<1>3. new \in Seq(RowSet) /\ Len(new) = n /\ \A r \in 1 .. n : new[r] = Row(r)
  BY <1>1, <1>2
<1>4. /\ table \in Seq(RowSet) /\ DOMAIN table = 1 .. L + n
      /\ \A i \in 1 .. L : table[i] = rows[i]
      /\ \A r \in 1 .. n : table[L + r] = Row(r)
  <2> HIDE DEF new
  <2>1. table \in Seq(RowSet) /\ Len(table) = L + n
    BY <1>1, <1>3
  <2>2. \A i \in 1 .. L : table[i] = rows[i]
    BY <1>1, <1>3
  <2>3. \A r \in 1 .. n : table[L + r] = new[r]
    BY <1>1, <1>3
  <2> QED
    BY <1>1, <1>3, <2>1, <2>2, <2>3
<1>a. \A i \in 1 .. L : rows[i] \in RowSet
  BY <1>1
<1> HIDE DEF table, new, n, L
<1>5. \A i \in DOMAIN table : i \in 1 .. L \/ \E r \in 1 .. n : i = L + r
  <2> SUFFICES ASSUME NEW i \in DOMAIN table, i \notin 1 .. L PROVE \E r \in 1 .. n : i = L + r
    OBVIOUS
  <2>1. i - L \in 1 .. n /\ i = L + (i - L)
    BY <1>1, <1>4
  <2> QED
    BY <2>1
<1>6. \A i \in 1 .. L : SoundRow(rows, i, w) /\ rows[i].window \in Nat
  BY <1>1, <1>a DEF SoundTable, RowSet
<1>7. ASSUME NEW i \in 1 .. L PROVE SoundRow(table, i, w + 1)
  <2>1. RowsAhead(table, i) = RowsAhead(rows, i)
    BY <1>1, <1>4 DEF RowsAhead
  <2>2. \A j \in RowsAhead(rows, i) : j \in 1 .. L
    BY <1>1 DEF RowsAhead
  <2> QED
    BY <1>1, <1>4, <1>6, <2>1, <2>2 DEF SoundRow
<1>8. ASSUME NEW r \in 1 .. n PROVE SoundRow(table, L + r, w + 1)
  <2>1. \A i \in 1 .. L : table[i].window # w
    BY <1>1, <1>4, <1>6 DEF SoundRow
  <2>2. \A s \in 1 .. n : /\ table[L + s].window = w /\ table[L + s].candidate = ranked[s]
                          /\ (table[L + s].eligible <=> Eligible(ranked[s]))
                          /\ (table[L + s].selected <=> Selected(s))
                          /\ table[L + s].training_rank = Cardinality(FamilyAhead(s)) + 1
                          /\ table[L + s].active = tested[s]
    BY <1>4, RowFields
  <2>3. \A s \in FamilyAhead(r) : s \in 1 .. n /\ L + s \in RowsAhead(table, L + r)
    <3>1. \A s \in FamilyAhead(r) : s \in 1 .. n /\ s < r /\ Grid[ranked[s]] = Grid[ranked[r]]
      BY <1>1 DEF FamilyAhead
    <3> QED
      BY <1>1, <1>4, <2>2, <3>1 DEF RowsAhead
  <2>4. \A j \in RowsAhead(table, L + r) : \E s \in FamilyAhead(r) : j = L + s
    <3> SUFFICES ASSUME NEW j \in RowsAhead(table, L + r) PROVE \E s \in FamilyAhead(r) : j = L + s
      OBVIOUS
    <3>1. /\ j \in DOMAIN table /\ j < L + r /\ table[j].window = w
          /\ Grid[table[j].candidate] = Grid[ranked[r]]
      BY <2>2 DEF RowsAhead
    <3>2. PICK s \in 1 .. n : j = L + s
      BY <1>5, <2>1, <3>1
    <3>3. s \in 1 .. r - 1 /\ Grid[ranked[s]] = Grid[ranked[r]]
      BY <1>1, <2>2, <3>1, <3>2
    <3> QED
      BY <3>2, <3>3 DEF FamilyAhead
  <2>5. Cardinality(RowsAhead(table, L + r)) = Cardinality(FamilyAhead(r))
    <3> DEFINE pair == [s \in FamilyAhead(r) |-> L + s]
    <3>1. pair \in [FamilyAhead(r) -> RowsAhead(table, L + r)]
      BY <2>3
    <3>2. \A x, y \in FamilyAhead(r) : pair[x] = pair[y] => x = y
      BY <1>1, <2>3
    <3>3. \A z \in RowsAhead(table, L + r) : \E x \in FamilyAhead(r) : pair[x] = z
      BY <2>4
    <3> HIDE DEF pair
    <3> QED
      BY <1>2, <3>1, <3>2, <3>3, PairedSets
  <2>6. Selected(r) <=> Eligible(ranked[r]) /\ \A j \in RowsAhead(table, L + r) : ~ table[j].eligible
    BY <2>2, <2>3, <2>4 DEF Selected
  <2>7. Eligible(ranked[r]) => tested[r] # Unset
    BY <1>1 DEF Trained
  <2>8. /\ table[L + r].window = w
        /\ table[L + r].training_rank = Cardinality(FamilyAhead(r)) + 1
        /\ table[L + r].eligible => table[L + r].active # Unset
    BY <2>2, <2>7
  <2>9. table[L + r].window < w + 1
    BY <1>1, <2>8
  <2>10. table[L + r].training_rank = 1 + Cardinality(RowsAhead(table, L + r))
    BY <1>2, <2>5, <2>8
  <2>11. table[L + r].selected
           <=> table[L + r].eligible /\ \A j \in RowsAhead(table, L + r) : ~ table[j].eligible
    BY <2>2, <2>6
  <2> QED
    BY <2>8, <2>9, <2>10, <2>11 DEF SoundRow
<1>9. ASSUME NEW i \in DOMAIN table, NEW j \in DOMAIN table,
             table[i].window = table[j].window, table[i].candidate = table[j].candidate
      PROVE  i = j
  <2>1. \A k \in 1 .. L : table[k].window # w
    <3>1. \A k \in 1 .. L : table[k] = rows[k]
      BY <1>4
    <3>2. \A k \in 1 .. L : rows[k].window < w /\ rows[k].window \in Nat
      BY <1>6 DEF SoundRow
    <3> QED
      BY <1>1, <3>1, <3>2
  <2>2. \A s \in 1 .. n : table[L + s].window = w /\ table[L + s].candidate = ranked[s]
    BY <1>4, RowFields
  <2>3. CASE i \in 1 .. L /\ j \in 1 .. L
    BY <1>1, <1>4, <1>9, <2>3 DEF SoundTable
  <2>4. CASE \E r \in 1 .. n, s \in 1 .. n : i = L + r /\ j = L + s
    <3>1. PICK r \in 1 .. n, s \in 1 .. n : i = L + r /\ j = L + s
      BY <2>4
    <3>2. ranked[r] = ranked[s]
      BY <1>9, <2>2, <3>1
    <3> QED
      BY <1>1, <3>1, <3>2 DEF Trained
  <2> QED
    BY <1>5, <1>9, <2>1, <2>2, <2>3, <2>4
<1>10. \A i \in DOMAIN table : SoundRow(table, i, w + 1)
  BY <1>5, <1>7, <1>8
<1>11. w + 1 \in Nat
  BY <1>1
<1>12. SoundTable(table, w + 1)
  BY <1>4, <1>9, <1>10, <1>11 DEF SoundTable
<1> QED
  BY <1>12 DEF table, new

(* A table whose out-of-sample ranks change only is as sound.              *)
SameBut(table, other) ==
  /\ DOMAIN other = DOMAIN table
  /\ \A i \in DOMAIN table :
       /\ other[i].window = table[i].window /\ other[i].candidate = table[i].candidate
       /\ other[i].eligible = table[i].eligible /\ other[i].selected = table[i].selected
       /\ other[i].training_rank = table[i].training_rank /\ other[i].active = table[i].active

LEMMA SoundWithRanks ==
  ASSUME NEW table, NEW other \in Seq(RowSet), NEW now, SoundTable(table, now), SameBut(table, other)
  PROVE  SoundTable(other, now)
<1>1. \A i \in DOMAIN table : RowsAhead(other, i) = RowsAhead(table, i) /\ RowsAhead(table, i) \subseteq DOMAIN table
  BY DEF RowsAhead, SameBut
<1>2. \A i \in DOMAIN table : SoundRow(other, i, now)
  BY <1>1 DEF SoundRow, SoundTable, SameBut
<1> QED
  BY <1>2 DEF SoundTable, SameBut

LEMMA RanksGiven ==
  ASSUME SelectionInv, OutOfSampleRanks
  PROVE  /\ rows' \in Seq(RowSet) /\ SameBut(rows, rows')
         /\ \A i \in DOMAIN rows : rows[i].eligible =>
              rows'[i].oos_rank = 1 + Cardinality({j \in DOMAIN rows : Beats(rows[j], rows[i])})
<1> DEFINE rank(i) == 1 + Cardinality({j \in DOMAIN rows : Beats(rows[j], rows[i])})
<1>1. rows \in Seq(RowSet) /\ DOMAIN rows = 1 .. Len(rows) /\ Len(rows) \in Nat
  <2>1. rows \in Seq(RowSet)
    BY DEF SelectionInv, SoundTable
  <2> QED
    BY <2>1
<1>2. \A i \in DOMAIN rows : rank(i) \in Nat
  <2> SUFFICES ASSUME NEW i \in DOMAIN rows PROVE rank(i) \in Nat
    OBVIOUS
  <2>1. IsFiniteSet(1 .. Len(rows))
    BY <1>1, FS_Interval
  <2>2. {j \in DOMAIN rows : Beats(rows[j], rows[i])} \in SUBSET (1 .. Len(rows))
    BY <1>1
  <2>3. Cardinality({j \in DOMAIN rows : Beats(rows[j], rows[i])}) \in Nat
    BY <2>1, <2>2, FS_Subset, FS_CardinalityType
  <2> QED
    BY <2>3
<1> HIDE DEF rank
<1>3. rows' = [i \in DOMAIN rows |-> IF rows[i].eligible THEN [rows[i] EXCEPT !.oos_rank = rank(i)] ELSE rows[i]]
  BY DEF OutOfSampleRanks, rank
<1>4. DOMAIN rows' = DOMAIN rows
  BY <1>3
<1>5. ASSUME NEW i \in DOMAIN rows
      PROVE  /\ rows'[i] \in RowSet
             /\ rows'[i].window = rows[i].window /\ rows'[i].candidate = rows[i].candidate
             /\ rows'[i].eligible = rows[i].eligible /\ rows'[i].selected = rows[i].selected
             /\ rows'[i].training_rank = rows[i].training_rank /\ rows'[i].active = rows[i].active
             /\ rows[i].eligible => rows'[i].oos_rank = rank(i)
  <2>1. rows[i] \in RowSet /\ rank(i) \in Nat
    BY <1>1, <1>2
  <2>2. CASE rows[i].eligible
    <3>1. rows'[i] = [rows[i] EXCEPT !.oos_rank = rank(i)]
      BY <1>3, <2>2
    <3> QED
      BY <2>1, <3>1 DEF RowSet
  <2>3. CASE ~ rows[i].eligible
    <3>1. rows'[i] = rows[i]
      BY <1>3, <2>3
    <3> QED
      BY <2>1, <2>3, <3>1
  <2> QED
    BY <2>2, <2>3
<1>6. rows' \in Seq(RowSet)
  <2>1. rows' = [i \in 1 .. Len(rows) |-> rows'[i]]
    BY <1>1, <1>3
  <2>2. \A i \in 1 .. Len(rows) : rows'[i] \in RowSet
    BY <1>1, <1>5
  <2> QED
    BY <1>1, <2>1, <2>2
<1> QED
  BY <1>4, <1>5, <1>6 DEF SameBut, rank

LEMMA SoundTableStep ==
  ASSUME SelectionInv, [Next]_vars
  PROVE  SoundTable(rows', w')
<1>1. CASE Collect
  BY <1>1, Collected DEF Collect, SelectionInv
<1>2. CASE OutOfSampleRanks
  <2>1. w' = w
    BY <1>2 DEF OutOfSampleRanks
  <2> QED
    BY <1>2, <2>1, RanksGiven, SoundWithRanks DEF SelectionInv
<1>3. CASE rows' = rows /\ w' = w
  BY <1>3 DEF SelectionInv
<1>4. Collect \/ OutOfSampleRanks \/ (rows' = rows /\ w' = w)
  BY DEF Next, Load, StartTraining, Rank, Train, Evaluate, RegimePanels, Deploy, StartPanels,
     FamilyPanel, CrossFamilyPanel, Finish, made, vars
<1> QED
  BY <1>1, <1>2, <1>3, <1>4

LEMMA TrainedStep ==
  ASSUME SelectionInv, [Next]_vars
  PROVE  Trained'
<1> USE DEF SelectionInv
<1>1. CASE Rank
  <2>1. scores' = scores /\ Configured' = Configured
    BY <1>1 DEF Rank, Configured, data
  <2>2. ranked' \in [1 .. Cardinality(Configured) -> Configured] /\ Sorted(ranked')
    BY <1>1 DEF Rank
  <2>3. \A a \in Configured : scores[a] \in Int /\ a \in Int
    BY CandidatesFinite DEF Trained
  <2>4. ASSUME NEW r \in DOMAIN ranked', NEW s \in DOMAIN ranked', ranked'[r] = ranked'[s] PROVE r = s
    <3>1. r \in Int /\ s \in Int
      BY <2>2, CandidatesFinite
    <3>2. ~ Ahead(ranked'[r], ranked'[s]) /\ ~ Ahead(ranked'[s], ranked'[r])
      <4>1. ranked'[r] \in Configured
        BY <2>2
      <4> QED
        BY <2>3, <2>4, <4>1 DEF Ahead
    <3> QED
      BY <2>2, <3>1, <3>2 DEF Sorted
  <2>5. phase' = "evaluate" => tested' = [rank \in DOMAIN ranked' |-> Unset] /\ pending' = DOMAIN ranked'
    BY <1>1 DEF Rank, Fail
  <2>6. Unset \in Int
    BY DEF Unset
  <2> QED
    BY <2>1, <2>2, <2>4, <2>5, <2>6 DEF Trained
<1>2. CASE \E n \in Candidates : Train(n)
  <2>1. PICK n \in Candidates : Train(n)
    BY <1>2
  <2>2. phase' = "train"
    BY <2>1 DEF Train
  <2>3. scores' \in [Candidates -> Int]
    BY <2>1, SelectionRiskAssumption DEF Train, Trained, Ineligible
  <2> QED
    BY <2>2, <2>3 DEF Trained
<1>3. CASE \E n \in Candidates : Evaluate(n)
  <2>1. PICK n \in Candidates : Evaluate(n)
    BY <1>3
  <2>2. /\ scores' = scores /\ Configured' = Configured /\ ranked' = ranked /\ phase = "evaluate"
        /\ pending' = pending \ {n}
    BY <2>1 DEF Evaluate, Configured, data
  <2>3. PICK active \in IF Eligible(ranked[n]) THEN Returns ELSE {Unset} : tested' = [tested EXCEPT ![n] = active]
    BY <2>1 DEF Evaluate
  <2>4. active \in Int /\ (Eligible(ranked[n]) => active # Unset)
    <3>1. Returns \subseteq Nat
      BY SelectionRiskAssumption
    <3>2. Unset \in Int /\ \A x \in Nat : x # Unset
      BY DEF Unset
    <3> QED
      BY <2>3, <3>1, <3>2
  <2>5. \A r : Eligible(r)' <=> Eligible(r)
    BY <2>2 DEF Eligible
  <2>6. tested \in [DOMAIN ranked -> Int] /\ \A r \in DOMAIN ranked \ pending : Eligible(ranked[r]) => tested[r] # Unset
    BY <2>2 DEF Trained
  <2>7. tested' \in [DOMAIN ranked -> Int]
    BY <2>3, <2>4, <2>6
  <2>8. \A r \in DOMAIN ranked \ pending' : Eligible(ranked[r]) => tested'[r] # Unset
    BY <2>2, <2>3, <2>4, <2>6
  <2>9. scores \in [Candidates -> Int] /\ ranked \in [1 .. Cardinality(Configured) -> Configured]
        /\ \A r, s \in DOMAIN ranked : ranked[r] = ranked[s] => r = s
    BY <2>2 DEF Trained
  <2> QED
    BY <2>2, <2>7, <2>8, <2>9 DEF Trained, Eligible
<1>4. CASE Collect
  BY <1>4 DEF Collect, Trained, Unset
<1>5. CASE Load \/ StartTraining \/ RegimePanels \/ OutOfSampleRanks \/ Deploy \/ StartPanels \/ FamilyPanel \/ CrossFamilyPanel \/ Finish
  <2>1. scores' = scores
    BY <1>5 DEF Load, StartTraining, RegimePanels, OutOfSampleRanks, Deploy, StartPanels, FamilyPanel, CrossFamilyPanel, Finish, maps
  <2>2. phase' # "evaluate"
    BY <1>5 DEF Load, StartTraining, RegimePanels, OutOfSampleRanks, Deploy, StartPanels, FamilyPanel, CrossFamilyPanel, Finish, Fail, Check
  <2> QED
    BY <2>1, <2>2 DEF Trained
<1>6. CASE UNCHANGED vars
  BY <1>6 DEF vars, data, maps, Trained, Configured, Eligible
<1> QED
  BY <1>1, <1>2, <1>3, <1>4, <1>5, <1>6 DEF Next

LEMMA OutOfSampleRankedStep ==
  ASSUME SelectionInv, [Next]_vars
  PROVE  OutOfSampleRanked'
<1>1. CASE OutOfSampleRanks
  <2>1. \A i, j \in DOMAIN rows : Beats(rows'[j], rows'[i]) <=> Beats(rows[j], rows[i])
    BY <1>1, RanksGiven DEF Beats, SameBut
  <2>2. DOMAIN rows' = DOMAIN rows
    BY <1>1, RanksGiven DEF SameBut
  <2>3. \A i \in DOMAIN rows :
          {j \in DOMAIN rows : Beats(rows'[j], rows'[i])} = {j \in DOMAIN rows : Beats(rows[j], rows[i])}
    BY <2>1
  <2>4. \A i \in DOMAIN rows : rows'[i].eligible = rows[i].eligible
    BY <1>1, RanksGiven DEF SameBut
  <2>5. \A i \in DOMAIN rows : rows[i].eligible =>
          rows'[i].oos_rank = 1 + Cardinality({j \in DOMAIN rows : Beats(rows[j], rows[i])})
    BY <1>1, RanksGiven
  <2> QED
    BY <2>2, <2>3, <2>4, <2>5 DEF OutOfSampleRanked, Beats
<1>2. CASE phase = phase' /\ rows' = rows
  BY <1>2 DEF SelectionInv, OutOfSampleRanked, Beats
<1>3. CASE phase' # "deploy"
  BY <1>3 DEF OutOfSampleRanked
<1>4. OutOfSampleRanks \/ (phase = phase' /\ rows' = rows) \/ phase' # "deploy"
  <2>1. Load \/ StartTraining \/ RegimePanels \/ StartPanels \/ Finish \/ Rank \/ Collect => phase' # "deploy"
    <3>1. Load \/ StartTraining \/ RegimePanels => phase' # "deploy"
      BY DEF Load, StartTraining, RegimePanels, Fail
    <3>2. StartPanels \/ Finish => phase' # "deploy"
      BY DEF StartPanels, Finish
    <3>3. Rank => phase' # "deploy"
      BY DEF Rank, Fail
    <3>4. Collect => phase' # "deploy"
      BY DEF Collect
    <3> QED
      BY <3>1, <3>2, <3>3, <3>4
  <2>2. Deploy \/ (\E n \in Candidates : Train(n) \/ Evaluate(n)) => phase' = phase /\ rows' = rows
    BY DEF Deploy, Train, Evaluate, made
  <2>3. FamilyPanel \/ CrossFamilyPanel => phase' # "deploy"
    BY DEF FamilyPanel, CrossFamilyPanel, Fail, Check
  <2>4. UNCHANGED vars => phase' = phase /\ rows' = rows
    BY DEF vars, made
  <2> QED
    BY <2>1, <2>2, <2>3, <2>4 DEF Next
<1> QED
  BY <1>1, <1>2, <1>3, <1>4

LEMMA SelectionInvInit == Init => SelectionInv
<1> SUFFICES ASSUME Init PROVE SelectionInv
  OBVIOUS
<1>1. rows = <<>> /\ w = 1 /\ phase = "load" /\ scores = [candidate \in Candidates |-> Unset]
  BY DEF Init
<1>2. SoundTable(rows, w)
  BY <1>1 DEF SoundTable
<1> QED
  BY <1>1, <1>2 DEF SelectionInv, Trained, OutOfSampleRanked, Unset

LEMMA SelectionInvStep == SelectionInv /\ [Next]_vars => SelectionInv'
<1> SUFFICES ASSUME SelectionInv, [Next]_vars PROVE SelectionInv'
  OBVIOUS
<1>1. SoundTable(rows, w)'
  BY SoundTableStep DEF SoundTable, SoundRow, RowsAhead
<1> QED
  BY <1>1, TrainedStep, OutOfSampleRankedStep DEF SelectionInv

-----------------------------------------------------------------------------
(* The ranks of a window's rows *)

(* Ranks by a strict and total order, given as a function.                 *)
LEMMA RanksLeaveNoGap ==
  ASSUME NEW S, IsFiniteSet(S), NEW R, Orders(R, S),
         NEW rank, \A x \in S : rank[x] = RankIn(S, R, x)
  PROVE  {rank[x] : x \in S} = 1 .. Cardinality(S)
<1>1. \A x \in S : RankIn(S, R, x) \in 1 .. Cardinality(S)
  BY RankBounds
<1>2. \A n \in 1 .. Cardinality(S) : \E x \in S : RankIn(S, R, x) = n
  BY RanksOnce
<1> QED
  BY <1>1, <1>2

IndicesOf(window, family) ==
  {j \in DOMAIN rows : rows[j].window = window /\ Grid[rows[j].candidate] = family}

LEMMA Indices ==
  ASSUME SelectionInv, NEW window, NEW family
  PROVE  /\ IsFiniteSet(IndicesOf(window, family)) /\ IndicesOf(window, family) \subseteq Nat
         /\ IndicesOf(window, family) \subseteq DOMAIN rows
         /\ \A i \in IndicesOf(window, family) : rows[i] \in RowSet /\ SoundRow(rows, i, w)
         /\ \A i \in IndicesOf(window, family) :
              RowsAhead(rows, i) = {j \in IndicesOf(window, family) : j < i}
         /\ \A i, j \in IndicesOf(window, family) : rows[i].candidate = rows[j].candidate => i = j
         /\ RowsOf(window, family) = {rows[i] : i \in IndicesOf(window, family)}
<1>1. rows \in Seq(RowSet)
  BY DEF SelectionInv, SoundTable
<1>2. Len(rows) \in Nat /\ DOMAIN rows = 1 .. Len(rows) /\ \A i \in DOMAIN rows : rows[i] \in RowSet
  BY <1>1
<1>3. IsFiniteSet(1 .. Len(rows))
  BY <1>2, FS_Interval
<1>4. IndicesOf(window, family) \in SUBSET (1 .. Len(rows))
  BY <1>2 DEF IndicesOf
<1>5. IsFiniteSet(IndicesOf(window, family))
  BY <1>3, <1>4, FS_Subset
<1>6. \A i \in IndicesOf(window, family) : RowsAhead(rows, i) = {j \in IndicesOf(window, family) : j < i}
  BY DEF RowsAhead, IndicesOf
<1>7. \A i, j \in IndicesOf(window, family) : rows[i].candidate = rows[j].candidate => i = j
  BY DEF SelectionInv, SoundTable, IndicesOf
<1>8. RowsOf(window, family) = {rows[i] : i \in IndicesOf(window, family)}
  BY DEF RowsOf, IndicesOf
<1>9. \A i \in IndicesOf(window, family) : SoundRow(rows, i, w)
  BY <1>2, <1>4 DEF SelectionInv, SoundTable
<1> QED
  BY <1>2, <1>4, <1>5, <1>6, <1>7, <1>8, <1>9

(* As many rows as indices, for any part of a family's.                    *)
LEMMA AsManyRows ==
  ASSUME SelectionInv, NEW window, NEW family, NEW part \in SUBSET IndicesOf(window, family)
  PROVE  /\ IsFiniteSet(part)
         /\ Cardinality({rows[i] : i \in part}) = Cardinality(part)
<1>1. IsFiniteSet(part)
  BY Indices, FS_Subset
<1> DEFINE pair == [i \in part |-> rows[i]]
<1>2. pair \in [part -> {rows[i] : i \in part}]
  OBVIOUS
<1>3. \A x, y \in part : pair[x] = pair[y] => x = y
  BY Indices
<1>4. \A z \in {rows[i] : i \in part} : \E x \in part : pair[x] = z
  OBVIOUS
<1> HIDE DEF pair
<1>5. Cardinality({rows[i] : i \in part}) = Cardinality(part)
  BY <1>1, <1>2, <1>3, <1>4, PairedSets
<1> QED
  BY <1>1, <1>5

LEMMA TrainingRanksOnce ==
  ASSUME SelectionInv, NEW window, NEW family
  PROVE  {row.training_rank : row \in RowsOf(window, family)} = 1 .. Cardinality(RowsOf(window, family))
<1> DEFINE I == IndicesOf(window, family)
           R == {pair \in I \X I : pair[1] < pair[2]}
           rank == [i \in I |-> rows[i].training_rank]
<1>1. /\ IsFiniteSet(I) /\ I \subseteq Nat
      /\ \A i \in I : SoundRow(rows, i, w)
      /\ \A i \in I : RowsAhead(rows, i) = {j \in I : j < i}
      /\ RowsOf(window, family) = {rows[i] : i \in I}
  BY Indices
<1> HIDE DEF I
<1>2. Orders(R, I)
  BY <1>1 DEF Orders
<1>3. \A i \in I : rank[i] = RankIn(I, R, i)
  <2> SUFFICES ASSUME NEW i \in I PROVE rank[i] = RankIn(I, R, i)
    OBVIOUS
  <2>1. {j \in I : <<j, i>> \in R} = {j \in I : j < i}
    OBVIOUS
  <2>2. rank[i] = 1 + Cardinality(RowsAhead(rows, i))
    BY <1>1 DEF SoundRow
  <2> QED
    BY <1>1, <2>1, <2>2 DEF RankIn
<1>4. {rank[i] : i \in I} = 1 .. Cardinality(I)
  <2> HIDE DEF R, rank
  <2>1. IsFiniteSet(I)
    BY <1>1
  <2> QED
    BY <2>1, <1>2, <1>3, RanksLeaveNoGap
<1>5. Cardinality(RowsOf(window, family)) = Cardinality(I)
  BY <1>1, AsManyRows DEF I
<1>6. {row.training_rank : row \in RowsOf(window, family)} = {rank[i] : i \in I}
  BY <1>1
<1> QED
  BY <1>4, <1>5, <1>6

(* One is selected, the first that is eligible.                            *)
LEMMA OneSelected ==
  ASSUME SelectionInv, NEW window, NEW family
  PROVE  LET all      == RowsOf(window, family)
             eligible == {row \in all : row.eligible}
             selected == {row \in all : row.selected}
         IN /\ Cardinality(selected) = (IF eligible = {} THEN 0 ELSE 1)
            /\ \A row \in selected, other \in eligible :
                 row.eligible /\ row.training_rank <= other.training_rank
<1> DEFINE I == IndicesOf(window, family)
           all      == RowsOf(window, family)
           eligible == {row \in all : row.eligible}
           selected == {row \in all : row.selected}
           E == {i \in I : rows[i].eligible}
<1>1. /\ I \subseteq Nat /\ all = {rows[i] : i \in I}
      /\ \A i \in I : SoundRow(rows, i, w) /\ i \in DOMAIN rows
      /\ \A i \in I : RowsAhead(rows, i) = {j \in I : j < i}
  BY Indices
<1> HIDE DEF I
<1>2. \A i \in I : rows[i].selected <=> i \in E /\ \A j \in E : ~ j < i
  BY <1>1 DEF SoundRow
<1>3. CASE E = {}
  <2>1. eligible = {} /\ selected = {}
    BY <1>1, <1>2, <1>3
  <2> QED
    BY <2>1, FS_EmptySet
<1>4. CASE E # {}
  <2>1. PICK first \in E : \A j \in E : first <= j
    <3>1. E \subseteq Nat
      BY <1>1
    <3> HIDE DEF E
    <3> QED
      BY <1>4, <3>1, LeastOfSet
  <2>2. \A i \in I : rows[i].selected <=> i = first
    <3>1. E \subseteq Nat
      BY <1>1
    <3>2. \A i \in E : (\A j \in E : ~ j < i) => i = first
      <4> SUFFICES ASSUME NEW i \in E, ~ first < i PROVE i = first
        BY <2>1
      <4> QED
        BY <2>1, <3>1
    <3>3. \A j \in E : ~ j < first
      BY <2>1, <3>1
    <3> HIDE DEF E
    <3> QED
      BY <1>2, <2>1, <3>2, <3>3
  <2>3. selected = {rows[first]} /\ rows[first] \in eligible
    BY <1>1, <2>1, <2>2
  <2>4. Cardinality(selected) = 1
    BY <2>3, FS_Singleton
  <2>5. ASSUME NEW i \in E PROVE rows[first].training_rank <= rows[i].training_rank
    <3>1. first \in I /\ i \in I /\ first <= i
      BY <2>1
    <3>2. RowsAhead(rows, first) \in SUBSET RowsAhead(rows, i)
      BY <1>1, <3>1
    <3>3. rows \in Seq(RowSet)
      BY DEF SelectionInv, SoundTable
    <3>4. IsFiniteSet(RowsAhead(rows, i)) /\ Cardinality(RowsAhead(rows, i)) \in Nat
          /\ Cardinality(RowsAhead(rows, first)) \in Nat
      BY <1>1, <3>1, <3>3, AheadFinite
    <3>5. Cardinality(RowsAhead(rows, first)) <= Cardinality(RowsAhead(rows, i))
      BY <3>2, <3>4, FS_Subset
    <3>6. /\ rows[first].training_rank = 1 + Cardinality(RowsAhead(rows, first))
          /\ rows[i].training_rank = 1 + Cardinality(RowsAhead(rows, i))
      BY <1>1, <3>1 DEF SoundRow
    <3> QED
      BY <3>4, <3>5, <3>6
  <2>6. \A row \in selected, other \in eligible : row.eligible /\ row.training_rank <= other.training_rank
    BY <1>1, <2>1, <2>3, <2>5
  <2> QED
    BY <2>3, <2>4, <2>6
<1> QED
  BY <1>3, <1>4

LEMMA OutOfSampleRanksOnce ==
  ASSUME SelectionInv, phase = "deploy", NEW window, NEW family
  PROVE  LET eligible == {row \in RowsOf(window, family) : row.eligible}
         IN {row.oos_rank : row \in eligible} = 1 .. Cardinality(eligible)
<1> DEFINE I == IndicesOf(window, family)
           E == {i \in I : rows[i].eligible}
           eligible == {row \in RowsOf(window, family) : row.eligible}
           R == {pair \in E \X E : Beats(rows[pair[1]], rows[pair[2]])}
           rank == [i \in E |-> rows[i].oos_rank]
<1>1. /\ I \subseteq DOMAIN rows
      /\ \A i \in I : rows[i] \in RowSet
      /\ \A i, j \in I : rows[i].candidate = rows[j].candidate => i = j
      /\ RowsOf(window, family) = {rows[i] : i \in I}
      /\ \A i \in DOMAIN rows : i \in I <=> rows[i].window = window /\ Grid[rows[i].candidate] = family
  <2>1. \A i \in DOMAIN rows : i \in I <=> rows[i].window = window /\ Grid[rows[i].candidate] = family
    BY DEF IndicesOf
  <2> QED
    BY <2>1, Indices
<1>2. eligible = {rows[i] : i \in E} /\ E \in SUBSET I
  BY <1>1
<1>3. IsFiniteSet(E) /\ Cardinality(eligible) = Cardinality(E)
  BY <1>2, AsManyRows
<1> HIDE DEF I
<1>4. \A i \in E : rows[i].active \in Int /\ rows[i].candidate \in Int
  BY <1>1, CandidatesFinite DEF RowSet
<1>5. \A i, j \in E : Beats(rows[j], rows[i])
         <=> \/ rows[j].active > rows[i].active
             \/ rows[j].active = rows[i].active /\ rows[j].candidate < rows[i].candidate
  BY <1>1 DEF Beats
<1>6. Orders(R, E)
  <2> DEFINE Q(j, i) == \/ rows[j].active > rows[i].active
                        \/ rows[j].active = rows[i].active /\ rows[j].candidate < rows[i].candidate
  <2>1. \A i \in E : ~ Q(i, i)
    BY <1>4
  <2>2. \A i, j \in E : i # j => Q(i, j) \/ Q(j, i)
    BY <1>1, <1>4
  <2>3. \A i, j, k \in E : Q(i, j) /\ Q(j, k) => Q(i, k)
    BY <1>4
  <2>4. \A i, j \in E : <<i, j>> \in R <=> Q(i, j)
    BY <1>5
  <2> HIDE DEF Q, R, E
  <2> QED
    BY <2>1, <2>2, <2>3, <2>4, Zenon DEF Orders
<1>7. \A i \in E : rank[i] = RankIn(E, R, i)
  <2> SUFFICES ASSUME NEW i \in E PROVE rank[i] = RankIn(E, R, i)
    OBVIOUS
  <2>1. \A j \in DOMAIN rows : Beats(rows[j], rows[i]) => j \in E
    BY <1>1 DEF Beats
  <2>2. {j \in E : <<j, i>> \in R} = {j \in DOMAIN rows : Beats(rows[j], rows[i])}
    BY <1>1, <2>1
  <2>3. rank[i] = 1 + Cardinality({j \in DOMAIN rows : Beats(rows[j], rows[i])})
    BY <1>1 DEF SelectionInv, OutOfSampleRanked
  <2> QED
    BY <2>2, <2>3 DEF RankIn
<1>8. {rank[i] : i \in E} = 1 .. Cardinality(E)
  <2> HIDE DEF E, R, rank
  <2> QED
    BY <1>3, <1>6, <1>7, RanksLeaveNoGap
<1>9. {row.oos_rank : row \in eligible} = {rank[i] : i \in E}
  BY <1>2
<1> QED
  BY <1>3, <1>8, <1>9

-----------------------------------------------------------------------------
(* The tables *)

LEMMA SumOfIs ==
  ASSUME NEW f
  PROVE  \E sum : IsSum(sum, 0, f, Len(Grid)) /\ SumOf(f) = sum[Len(Grid)]
<1> DEFINE loop == CHOOSE sum : sum = [n \in 0 .. Len(Grid) |-> IF n = 0 THEN 0 ELSE sum[n - 1] + f[n]]
<1>1. \E sum : sum = [n \in 0 .. Len(Grid) |-> IF n = 0 THEN 0 ELSE sum[n - 1] + f[n]]
  <2>1. Len(Grid) \in Nat
    BY CandidatesFinite
  <2>2. \E sum : IsSum(sum, 0, f, Len(Grid))
    BY <2>1, SumExists
  <2> QED
    BY <2>2 DEF IsSum
<1>2. loop = [n \in 0 .. Len(Grid) |-> IF n = 0 THEN 0 ELSE loop[n - 1] + f[n]]
  BY <1>1, Zenon
<1>3. SumOf(f) = loop[Len(Grid)]
  BY DEF SumOf
<1> HIDE DEF loop
<1> QED
  BY <1>2, <1>3 DEF IsSum

(* As many as each candidate has, over all of them.                        *)
LEMMA SumOfLabels ==
  ASSUME NEW S, IsFiniteSet(S), NEW label \in [S -> Candidates]
  PROVE  SumOf([n \in Candidates |-> Cardinality({x \in S : label[x] = n})]) = Cardinality(S)
<1> DEFINE f == [n \in Candidates |-> Cardinality({x \in S : label[x] = n})]
<1>1. PICK sum : IsSum(sum, 0, f, Len(Grid)) /\ SumOf(f) = sum[Len(Grid)]
  BY SumOfIs
<1>2. Candidates = 1 .. Len(Grid) /\ Len(Grid) \in Nat
  BY CandidatesFinite
<1>3. sum[Len(Grid)] = Cardinality(S)
  BY <1>1, <1>2, CountByLabel
<1> QED
  BY <1>1, <1>3

Picks(family) == {i \in DOMAIN rows : rows[i].selected /\ Grid[rows[i].candidate] = family}

LEMMA PicksInOrder ==
  ASSUME SelectionInv, NEW family
  PROVE  /\ IsFiniteSet(Picks(family)) /\ Picks(family) \subseteq DOMAIN rows
         /\ Cardinality(Picks(family)) \in Nat
         /\ \A i \in Picks(family) : rows[i] \in RowSet /\ rows[i].eligible
         /\ FamilyFrequency(family) = Cardinality(Picks(family))
         /\ \E order \in [1 .. Cardinality(Picks(family)) -> Picks(family)] :
              /\ SelectedRows(family) = [n \in 1 .. Cardinality(Picks(family)) |-> rows[order[n]]]
              /\ \A n, k \in 1 .. Cardinality(Picks(family)) : order[n] = order[k] => n = k
              /\ \A i \in Picks(family) : \E n \in 1 .. Cardinality(Picks(family)) : order[n] = i
<1> DEFINE K == Picks(family)
           m == Cardinality(K)
           order == InOrder(K)
<1>1. rows \in Seq(RowSet)
  BY DEF SelectionInv, SoundTable
<1>2. Len(rows) \in Nat /\ DOMAIN rows = 1 .. Len(rows) /\ \A i \in DOMAIN rows : rows[i] \in RowSet
  BY <1>1
<1>3. K \in SUBSET (1 .. Len(rows)) /\ IsFiniteSet(1 .. Len(rows))
  BY <1>2, FS_Interval DEF Picks
<1>4. IsFiniteSet(K) /\ m \in Nat
  BY <1>3, FS_Subset, FS_CardinalityType
<1>5. \A i \in K : rows[i] \in RowSet /\ rows[i].eligible
  BY <1>2 DEF Picks, SelectionInv, SoundTable, SoundRow
<1>6. K \subseteq Int
  BY <1>2, <1>3
<1>7. /\ DOMAIN order = 1 .. m
      /\ \A n \in DOMAIN order : order[n] \in K
      /\ \A n, k \in DOMAIN order : n < k <=> order[n] < order[k]
      /\ \A i \in K : \E n \in DOMAIN order : order[n] = i
  <2> HIDE DEF K
  <2> QED
    BY <1>4, <1>6, InOrderOfSet
<1>8. SelectedRows(family) = [n \in 1 .. m |-> rows[order[n]]]
  BY <1>7 DEF SelectedRows, Picks
<1>9. order \in [1 .. m -> K]
  <2>1. order = [n \in 1 .. m |-> order[n]]
    BY <1>7 DEF InOrder
  <2> HIDE DEF order
  <2> QED
    BY <1>7, <2>1
<1>10. \A n, k \in 1 .. m : order[n] = order[k] => n = k
  <2>1. \A n \in 1 .. m : order[n] \in Int
    BY <1>6, <1>7
  <2> HIDE DEF order
  <2> QED
    BY <1>4, <1>7, <2>1
<1>11. FamilyFrequency(family) = m
  <2> HIDE DEF m, order
  <2> QED
    BY <1>4, <1>8 DEF FamilyFrequency
<1> HIDE DEF order
<1>12. \E o \in [1 .. m -> K] :
         /\ SelectedRows(family) = [n \in 1 .. m |-> rows[o[n]]]
         /\ \A n, k \in 1 .. m : o[n] = o[k] => n = k
         /\ \A i \in K : \E n \in 1 .. m : o[n] = i
  BY <1>7, <1>8, <1>9, <1>10
<1>13. K \subseteq DOMAIN rows
  BY DEF Picks
<1> QED
  BY <1>4, <1>5, <1>11, <1>12, <1>13

Times(family) ==
  [n \in Candidates |-> IF Grid[n] = family THEN Frequency(n).selected ELSE 0]

LEMMA TimesCount ==
  ASSUME SelectionInv, NEW family, NEW n \in Candidates
  PROVE  Times(family)[n] = Cardinality({i \in Picks(family) : rows[i].candidate = n})
<1>1. CASE Grid[n] = family
  <2>1. {i \in EligibleRows(n) : rows[i].selected} = {i \in Picks(family) : rows[i].candidate = n}
    <3>1. \A i \in DOMAIN rows : rows[i].selected => rows[i].eligible
      BY PicksInOrder DEF SelectionInv, SoundTable, SoundRow
    <3> QED
      BY <1>1, <3>1 DEF EligibleRows, Picks
  <2> QED
    BY <1>1, <2>1 DEF Times, Frequency
<1>2. CASE Grid[n] # family
  <2>1. {i \in Picks(family) : rows[i].candidate = n} = {}
    BY <1>2 DEF Picks
  <2> QED
    BY <1>2, <2>1, FS_EmptySet DEF Times
<1> QED
  BY <1>1, <1>2

LEMMA TimesAddUp ==
  ASSUME SelectionInv, NEW family
  PROVE  SumOf(Times(family)) = FamilyFrequency(family)
<1> DEFINE K == Picks(family)
           label == [i \in K |-> rows[i].candidate]
<1>1. IsFiniteSet(K) /\ \A i \in K : rows[i].candidate \in Candidates
  BY PicksInOrder DEF RowSet
<1>2. label \in [K -> Candidates]
  BY <1>1
<1>3. \A n \in Candidates : {i \in K : rows[i].candidate = n} = {i \in K : label[i] = n}
  OBVIOUS
<1>4. Times(family) = [n \in Candidates |-> Cardinality({i \in K : label[i] = n})]
  <2>1. Times(family) = [n \in Candidates |-> Times(family)[n]]
    BY DEF Times
  <2>2. \A n \in Candidates : Times(family)[n] = Cardinality({i \in K : label[i] = n})
    <3> SUFFICES ASSUME NEW n \in Candidates
                 PROVE  Times(family)[n] = Cardinality({i \in K : label[i] = n})
      OBVIOUS
    <3>1. Times(family)[n] = Cardinality({i \in K : rows[i].candidate = n})
      BY TimesCount
    <3>2. {i \in K : rows[i].candidate = n} = {i \in K : label[i] = n}
      BY <1>3
    <3> HIDE DEF label, K
    <3> QED
      BY <3>1, <3>2, Zenon
  <2> HIDE DEF label, K
  <2> QED
    BY <2>1, <2>2
<1> HIDE DEF label
<1>5. SumOf(Times(family)) = Cardinality(K)
  BY <1>1, <1>2, <1>4, SumOfLabels
<1> QED
  BY <1>5, PicksInOrder

LEMMA TransitionsAddUp ==
  ASSUME SelectionInv, NEW family, NEW from \in Candidates
  PROVE  LET selected == SelectedRows(family)
             ends     == selected # <<>> /\ selected[Len(selected)].candidate = from
         IN SumOf([to \in Candidates |-> Transitions(family, from, to)]) + (IF ends THEN 1 ELSE 0)
              = Times(family)[from]
<1> DEFINE K == Picks(family)
           m == Cardinality(K)
           S == SelectedRows(family)
           A == {i \in 2 .. m : S[i - 1].candidate = from}
           P == {i \in 1 .. m : S[i].candidate = from}
           B == {i \in 1 .. m - 1 : S[i].candidate = from}
           label == [i \in A |-> S[i].candidate]
           ends == S # <<>> /\ S[Len(S)].candidate = from
<1>1. PICK order \in [1 .. m -> K] :
              /\ S = [n \in 1 .. m |-> rows[order[n]]]
              /\ \A n, k \in 1 .. m : order[n] = order[k] => n = k
              /\ \A i \in K : \E n \in 1 .. m : order[n] = i
  BY PicksInOrder
<1>2. m \in Nat /\ FamilyFrequency(family) = m /\ \A i \in K : rows[i].candidate \in Candidates
  BY PicksInOrder DEF RowSet
<1>3. \A i \in 1 .. m : S[i] = rows[order[i]] /\ S[i].candidate \in Candidates
  BY <1>1, <1>2
<1>4. Len(S) = m /\ (S = <<>> <=> m = 0)
  <2>1. S = [n \in 1 .. m |-> S[n]] /\ DOMAIN S = 1 .. m
    BY <1>1
  <2>2. Len(S) = m
    BY <1>2 DEF FamilyFrequency
  <2>3. m = 0 => S = <<>>
    <3>1. m = 0 => DOMAIN S = {}
      BY <2>1
    <3> QED
      BY <2>1, <3>1
  <2>4. S = <<>> => m = 0
    BY <2>2
  <2> QED
    BY <2>2, <2>3, <2>4
<1> HIDE DEF S, m, K
<1>5. IsFiniteSet(1 .. m)
  BY <1>2, FS_Interval
<1>6. /\ IsFiniteSet(A) /\ IsFiniteSet(B) /\ IsFiniteSet(P)
      /\ Cardinality(A) \in Nat /\ Cardinality(B) \in Nat /\ Cardinality(P) \in Nat
  <2>1. A \in SUBSET (1 .. m) /\ B \in SUBSET (1 .. m) /\ P \in SUBSET (1 .. m)
    BY <1>2
  <2> QED
    BY <1>5, <2>1, FS_Subset, FS_CardinalityType
<1>7. SumOf([to \in Candidates |-> Transitions(family, from, to)]) = Cardinality(A)
  <2>1. label \in [A -> Candidates]
    BY <1>2, <1>3
  <2>2. \A to : {i \in A : label[i] = to}
                  = {i \in 2 .. m : S[i - 1].candidate = from /\ S[i].candidate = to}
    OBVIOUS
  <2>3. \A to \in Candidates : Transitions(family, from, to) = Cardinality({i \in A : label[i] = to})
    BY <1>2, <2>2 DEF Transitions, S
  <2>4. [to \in Candidates |-> Transitions(family, from, to)]
          = [to \in Candidates |-> Cardinality({i \in A : label[i] = to})]
    <3> HIDE DEF label, A
    <3> QED
      BY <2>3
  <2> HIDE DEF label, A
  <2> QED
    BY <1>6, <2>1, <2>4, SumOfLabels
<1>8. Cardinality(A) = Cardinality(B)
  <2> DEFINE pair == [i \in B |-> i + 1]
  <2>1. pair \in [B -> A]
    <3>1. \A i \in B : i + 1 \in 2 .. m /\ (i + 1) - 1 = i
      BY <1>2
    <3> QED
      BY <3>1
  <2>2. \A x, y \in B : pair[x] = pair[y] => x = y
    BY <1>2
  <2>3. \A z \in A : \E x \in B : pair[x] = z
    <3>1. \A z \in A : z - 1 \in B /\ (z - 1) + 1 = z
      BY <1>2
    <3> QED
      BY <3>1
  <2> HIDE DEF pair, A, B
  <2> QED
    BY <1>6, <2>1, <2>2, <2>3, PairedSets
<1>9. Cardinality(P) = Cardinality(B) + (IF ends THEN 1 ELSE 0)
  <2>1. m \notin B
    BY <1>2
  <2>2. CASE ends
    <3>1. m # 0 /\ S[m].candidate = from
      BY <1>4, <2>2
    <3>2. P = B \cup {m}
      BY <1>2, <3>1
    <3> HIDE DEF P, B, ends
    <3> QED
      BY <1>6, <2>1, <2>2, <3>2, FS_AddElement
  <2>3. CASE ~ ends
    <3>1. m # 0 => S[m].candidate # from
      BY <1>4, <2>3
    <3>2. P = B
      BY <1>2, <3>1
    <3> HIDE DEF P, B, ends
    <3> QED
      BY <1>6, <2>3, <3>2
  <2> QED
    BY <2>2, <2>3
<1>10. Times(family)[from] = Cardinality(P)
  <2> DEFINE Q == {i \in K : rows[i].candidate = from}
             pair == [n \in P |-> order[n]]
  <2>1. pair \in [P -> Q]
    BY <1>1, <1>3
  <2>2. \A x, y \in P : pair[x] = pair[y] => x = y
    BY <1>1
  <2>3. \A z \in Q : \E x \in P : pair[x] = z
    BY <1>1, <1>3
  <2>4. Times(family)[from] = Cardinality(Q)
    BY TimesCount DEF K
  <2> HIDE DEF pair, P, Q
  <2>5. Cardinality(Q) = Cardinality(P)
    BY <1>6, <2>1, <2>2, <2>3, PairedSets
  <2> QED
    BY <2>4, <2>5
<1> HIDE DEF A, B, P, ends
<1>11. SumOf([to \in Candidates |-> Transitions(family, from, to)]) + (IF ends THEN 1 ELSE 0)
         = Times(family)[from]
  BY <1>7, <1>8, <1>9, <1>10
<1> QED
  BY <1>11 DEF ends, S

LEMMA TablesDoAgree ==
  ASSUME SelectionInv, NEW family
  PROVE  TablesAgree(family)
<1>1. SumOf(Times(family)) = FamilyFrequency(family)
  BY TimesAddUp
<1>2. \A from \in {n \in Candidates : Grid[n] = family} :
        LET selected == SelectedRows(family)
            ends     == selected # <<>> /\ selected[Len(selected)].candidate = from
        IN SumOf([to \in Candidates |-> Transitions(family, from, to)]) + (IF ends THEN 1 ELSE 0)
             = Times(family)[from]
  BY TransitionsAddUp
<1>3. \A row : \A j \in Neighbours(row) : rows[j].active # Unset
  BY DEF Neighbours, SelectionInv, SoundTable, SoundRow
<1> QED
  BY <1>1, <1>2, <1>3 DEF TablesAgree, Times

LEMMA SelectionIsSound ==
  ASSUME SelectionInv
  PROVE  SelectionSound
<1>1. \A family : TablesAgree(family)
  BY TablesDoAgree
<1>2. \A window, family :
      LET all      == RowsOf(window, family)
          eligible == {row \in all : row.eligible}
          selected == {row \in all : row.selected}
      IN /\ Cardinality(selected) = (IF eligible = {} THEN 0 ELSE 1)
         /\ \A row \in selected, other \in eligible :
              row.eligible /\ row.training_rank <= other.training_rank
         /\ {row.training_rank : row \in all} = 1 .. Cardinality(all)
         /\ phase = "deploy" => {row.oos_rank : row \in eligible} = 1 .. Cardinality(eligible)
  BY OneSelected, TrainingRanksOnce, OutOfSampleRanksOnce
<1> QED
  BY <1>1, <1>2 DEF SelectionSound, RankedOnce

-----------------------------------------------------------------------------
(* The panels *)

WindowsInv ==
  /\ step \in Steps
  /\ phase # "load" => IsHistory(bars) /\ windows = CalendarDurations(bars, Years, Months, step)
  /\ phase = "load" => w = 1 /\ observations = {}
  /\ phase \in {"window", "train", "evaluate"} => w \in DOMAIN windows

(* An observation is of a return of its window's test and of a candidate   *)
(* that was eligible there.                                                *)
ObservationsInv ==
  \A o \in observations :
    /\ o = [window |-> o.window, session |-> o.session, candidate |-> o.candidate]
    /\ o.window \in DOMAIN windows /\ o.window < w
    /\ o.session \in Observed(windows[o.window].test)
    /\ \A i \in DOMAIN rows :
         rows[i].window = o.window /\ rows[i].candidate = o.candidate => rows[i].eligible

PanelsInv ==
  /\ phase \in {"load", "window", "train", "evaluate"} => panels = {}
  /\ \A panel \in panels :
       /\ panel.dates = CommonDates(panel.candidates, observations)
       /\ ~ Duplicated(panel.candidates, observations)
  /\ step >= Months => failure # "data"

PanelInv == WindowsInv /\ ObservationsInv /\ PanelsInv

LEMMA WindowNumbers ==
  ASSUME WindowsInv, phase # "load"
  PROVE  /\ Len(windows) \in Nat /\ DOMAIN windows = 1 .. Len(windows)
         /\ step >= Months =>
              \A v, u \in DOMAIN windows :
                v # u => Observed(windows[v].test) \cap Observed(windows[u].test) = {}
<1>1. /\ IsHistory(bars) /\ windows = CalendarDurations(bars, Years, Months, step)
      /\ step \in Nat \ {0} /\ Years \in Nat /\ Months \in Nat
  BY SelectionRiskAssumption DEF WindowsInv
<1>2. /\ \E n \in Nat : DOMAIN windows = 1 .. n
      /\ \A v \in DOMAIN windows : windows[v].test[1] \in Nat /\ windows[v].test[2] \in Int
      /\ Months <= step =>
           \A v, u \in DOMAIN windows : v < u => windows[v].test[2] <= windows[u].test[1]
  <2> DEFINE Every == CalendarDurations(bars, Years, Months, step)
  <2>1. \E n \in Nat : DOMAIN Every = 1 .. n
    BY <1>1, TestsApart
  <2>2. \A v \in DOMAIN Every : Every[v].test[1] \in Nat /\ Every[v].test[2] \in Int
    BY <1>1, TestsApart
  <2>3. Months <= step =>
          \A v, u \in DOMAIN Every : v < u => Every[v].test[2] <= Every[u].test[1]
    BY <1>1, TestsApart
  <2>4. windows = Every
    BY <1>1
  <2> HIDE DEF Every
  <2> QED
    BY <2>1, <2>2, <2>3, <2>4
<1>3. PICK n \in Nat : DOMAIN windows = 1 .. n
  BY <1>2
<1>4. windows = [v \in 1 .. n |-> windows[v]]
  <2>1. windows = [v \in DOMAIN windows |-> windows[v]]
    BY <1>1 DEF CalendarDurations
  <2> QED
    BY <1>3, <2>1
<1>5. Len(windows) = n
  BY <1>3, <1>4
<1>6. ASSUME NEW v \in DOMAIN windows, NEW s \in Observed(windows[v].test)
      PROVE  s \in Int /\ windows[v].test[1] < s /\ s <= windows[v].test[2]
  <2>1. s \in windows[v].test[1] .. windows[v].test[2] /\
        \E earlier \in windows[v].test[1] .. windows[v].test[2] : earlier < s
    BY <1>6 DEF Observed, ReturnSessions
  <2> QED
    BY <1>2, <2>1
<1>7. ASSUME Months <= step, NEW v \in DOMAIN windows, NEW u \in DOMAIN windows, v < u,
             NEW s \in Observed(windows[v].test), s \in Observed(windows[u].test)
      PROVE  FALSE
  <2>1. s <= windows[v].test[2] /\ windows[v].test[2] <= windows[u].test[1] /\ windows[u].test[1] < s
    BY <1>2, <1>6, <1>7
  <2>2. s \in Int /\ windows[v].test[2] \in Int /\ windows[u].test[1] \in Nat
    BY <1>2, <1>6
  <2> QED
    BY <2>1, <2>2
<1>8. \A v, u \in DOMAIN windows : v # u => v < u \/ u < v
  BY <1>3
<1>9. ASSUME step >= Months, NEW v \in DOMAIN windows, NEW u \in DOMAIN windows, v # u
      PROVE  Observed(windows[v].test) \cap Observed(windows[u].test) = {}
  <2>1. Months <= step
    BY <1>1, <1>9
  <2>2. SUFFICES ASSUME NEW s, s \in Observed(windows[v].test), s \in Observed(windows[u].test) PROVE FALSE
    OBVIOUS
  <2>3. v < u \/ u < v
    BY <1>8, <1>9
  <2> QED
    BY <1>7, <2>1, <2>2, <2>3
<1> QED
  BY <1>3, <1>5, <1>9

(* With a step as long as a test, the observations on a session are of one *)
(* window, and a candidate has one at most.                                *)
LEMMA OneWindow ==
  ASSUME WindowsInv, ObservationsInv, step >= Months, NEW x \in observations, NEW y \in observations,
         x.session = y.session
  PROVE  /\ x.window = y.window
         /\ x.candidate = y.candidate => x = y
<1>1. phase # "load"
  BY DEF WindowsInv
<1>2. x.window = y.window
  BY <1>1, WindowNumbers DEF ObservationsInv
<1> QED
  BY <1>2 DEF ObservationsInv

LEMMA NoneDuplicated ==
  ASSUME WindowsInv, ObservationsInv, step >= Months,
         NEW candidates, NEW seen \in SUBSET observations
  PROVE  ~ Duplicated(candidates, seen) /\ Alignment(candidates, seen) # "data"
<1>1. ~ Duplicated(candidates, seen)
  BY OneWindow DEF Duplicated
<1> QED
  BY <1>1 DEF Alignment

LEMMA ObservationsSame ==
  ASSUME ObservationsInv, UNCHANGED data, UNCHANGED <<w, made>>
  PROVE  ObservationsInv'
BY DEF ObservationsInv, data, made, Observed, BenchmarkSessions

LEMMA PanelsSame ==
  ASSUME PanelsInv, UNCHANGED <<data, observations, panels>>,
         phase' \in {"load", "window", "train", "evaluate"} => phase \in {"load", "window", "train", "evaluate"},
         step >= Months => failure' # "data"
  PROVE  PanelsInv'
BY DEF PanelsInv, data, CommonDates, DatesOf, Duplicated

LEMMA PanelInvLoad ==
  ASSUME PanelInv, Load
  PROVE  PanelInv'
<1>1. /\ phase = "load" /\ w = 1 /\ observations = {} /\ panels = {} /\ step \in Steps
      /\ step' = step /\ w' = w /\ observations' = observations /\ panels' = panels /\ failure' = failure
      /\ step >= Months => failure # "data"
  BY DEF PanelInv, WindowsInv, PanelsInv, Load, made, late
<1>2. /\ IsHistory(bars') /\ windows' = CalendarDurations(bars', Years, Months, step)
      /\ phase' = IF windows' = <<>> THEN "regimes" ELSE "window"
  BY SelectionRiskAssumption DEF Load
<1>3. WindowsInv'
  <2>1. phase' \in {"window", "train", "evaluate"} => 1 \in DOMAIN windows'
    <3>1. \E n \in Nat : DOMAIN windows' = 1 .. n
      BY <1>1, <1>2, SelectionRiskAssumption, TestsApart
    <3>2. windows' = [v \in DOMAIN windows' |-> windows'[v]]
      BY <1>2 DEF CalendarDurations
    <3>3. DOMAIN windows' = {} => windows' = <<>>
      BY <3>2
    <3> QED
      BY <1>2, <3>1, <3>3
  <2> QED
    BY <1>1, <1>2, <2>1 DEF WindowsInv
<1> QED
  BY <1>1, <1>3 DEF PanelInv, ObservationsInv, PanelsInv

(* The maps on a window.                                                   *)
LEMMA PanelInvMaps ==
  ASSUME PanelInv,
         UNCHANGED <<data, w, made, panels>>,
         phase \in {"window", "train", "evaluate"},
         phase' \in {"window", "train", "evaluate", "failed"},
         failure' \in {failure, "simulation"}
  PROVE  PanelInv'
<1>1. WindowsInv'
  BY DEF PanelInv, WindowsInv, data
<1>2. ObservationsInv'
  BY ObservationsSame DEF PanelInv
<1>3. PanelsInv'
  BY PanelsSame DEF PanelInv, PanelsInv, made
<1> QED
  BY <1>1, <1>2, <1>3 DEF PanelInv

LEMMA PanelInvCollect ==
  ASSUME PanelInv, SelectionInv, Collect
  PROVE  PanelInv'
<1>1. /\ phase = "evaluate" /\ UNCHANGED data /\ panels' = panels /\ failure' = failure
      /\ w' = w + 1 /\ phase' = (IF w = Len(windows) THEN "regimes" ELSE "window")
      /\ rows' = rows \o [rank \in DOMAIN ranked |-> Row(rank)]
      /\ observations' = observations \cup
           {[window |-> w, session |-> s, candidate |-> candidate] :
              s \in Observed(windows[w].test), candidate \in {n \in Configured : Eligible(n)}}
  BY DEF Collect, late
<1>2. /\ Len(windows) \in Nat /\ DOMAIN windows = 1 .. Len(windows) /\ w \in DOMAIN windows
      /\ panels = {} /\ w \in Nat
  <2>1. phase # "load" /\ WindowsInv
    BY <1>1 DEF PanelInv
  <2> QED
    BY <1>1, <2>1, WindowNumbers DEF PanelInv, WindowsInv, PanelsInv
<1>3. WindowsInv'
  <2>1. w # Len(windows) => w + 1 \in DOMAIN windows
    BY <1>2
  <2> QED
    BY <1>1, <2>1 DEF PanelInv, WindowsInv, data
<1>4. PanelsInv'
  BY <1>1, <1>2 DEF PanelInv, PanelsInv, data
<1>5. /\ rows \in Seq(RowSet) /\ Len(rows) \in Nat /\ DOMAIN rows = 1 .. Len(rows)
      /\ \A i \in DOMAIN rows : rows[i].window < w
  BY DEF SelectionInv, SoundTable, SoundRow
<1>6. \A i \in DOMAIN rows' :
        \/ (i \in DOMAIN rows /\ rows'[i] = rows[i])
        \/ rows'[i].window = w /\ (rows'[i].eligible <=> Eligible(rows'[i].candidate))
  <2> DEFINE new == [rank \in DOMAIN ranked |-> Row(rank)]
  <2>1. DOMAIN ranked = 1 .. Cardinality(Configured) /\ Cardinality(Configured) \in Nat
    BY <1>1, CandidatesFinite DEF SelectionInv, Trained
  <2>2. Len(new) = Cardinality(Configured) /\ \A r \in DOMAIN new : r \in DOMAIN ranked /\ new[r] = Row(r)
    BY <2>1
  <2>3. \A r \in DOMAIN new : new[r].window = w /\ (new[r].eligible <=> Eligible(new[r].candidate))
    BY <2>2, RowFields
  <2> HIDE DEF new
  <2>4. rows' = [i \in 1 .. Len(rows) + Len(new) |-> IF i <= Len(rows) THEN rows[i] ELSE new[i - Len(rows)]]
    BY <1>1 DEF new
  <2>5. \A i \in DOMAIN rows' : i \in 1 .. Len(rows) + Len(new)
    BY <2>4
  <2>6. DOMAIN new = 1 .. Cardinality(Configured)
    BY <2>1 DEF new
  <2>7. \A i \in DOMAIN rows' : (i \in DOMAIN rows /\ rows'[i] = rows[i])
                                \/ (i - Len(rows) \in DOMAIN new /\ rows'[i] = new[i - Len(rows)])
    BY <1>5, <2>1, <2>2, <2>4, <2>5, <2>6
  <2> QED
    BY <2>3, <2>7
<1>7. \A v : Observed(windows[v].test)' = Observed(windows[v].test)
  BY <1>1 DEF data, Observed, BenchmarkSessions
<1>8. ObservationsInv'
  <2> SUFFICES ASSUME NEW o \in observations'
               PROVE  /\ o = [window |-> o.window, session |-> o.session, candidate |-> o.candidate]
                      /\ o.window \in DOMAIN windows /\ o.window < w + 1
                      /\ o.session \in Observed(windows[o.window].test)
                      /\ \A i \in DOMAIN rows' :
                           rows'[i].window = o.window /\ rows'[i].candidate = o.candidate => rows'[i].eligible
    BY <1>1, <1>7 DEF ObservationsInv, data
  <2>1. CASE o \in observations
    <3>1. /\ o = [window |-> o.window, session |-> o.session, candidate |-> o.candidate]
          /\ o.window \in DOMAIN windows /\ o.window < w
          /\ o.session \in Observed(windows[o.window].test)
          /\ \A i \in DOMAIN rows :
               rows[i].window = o.window /\ rows[i].candidate = o.candidate => rows[i].eligible
      BY <2>1 DEF PanelInv, ObservationsInv
    <3>2. o.window < w + 1 /\ o.window # w
      BY <1>2, <3>1
    <3> QED
      BY <1>6, <3>1, <3>2
  <2>2. CASE o \notin observations
    <3>1. PICK s \in Observed(windows[w].test), candidate \in {n \in Configured : Eligible(n)} :
            o = [window |-> w, session |-> s, candidate |-> candidate]
      BY <1>1, <2>2
    <3>2. o.window = w /\ o.session = s /\ o.candidate = candidate /\ Eligible(candidate)
      BY <3>1
    <3>3. \A i \in DOMAIN rows' : rows'[i].window = w /\ rows'[i].candidate = candidate => rows'[i].eligible
      <4>1. \A i \in DOMAIN rows : rows[i].window # w
        BY <1>2, <1>5 DEF RowSet
      <4> QED
        BY <1>6, <3>2, <4>1
    <3>4. w < w + 1
      BY <1>2
    <3> QED
      BY <1>2, <3>1, <3>2, <3>3, <3>4
  <2> QED
    BY <2>1, <2>2
<1> QED
  BY <1>3, <1>4, <1>8 DEF PanelInv

(* What follows the windows leaves them and the observations alone.        *)
LEMMA PanelInvLater ==
  ASSUME PanelInv,
         UNCHANGED <<data, w, observations>>,
         phase \notin {"load", "window", "train", "evaluate"},
         phase' \notin {"load", "window", "train", "evaluate"},
         DOMAIN rows' = DOMAIN rows,
         \A i \in DOMAIN rows : /\ rows'[i].window = rows[i].window
                                /\ rows'[i].candidate = rows[i].candidate
                                /\ rows'[i].eligible = rows[i].eligible,
         \A panel \in panels' \ panels :
           /\ panel.dates = CommonDates(panel.candidates, observations)
           /\ ~ Duplicated(panel.candidates, observations),
         step >= Months => failure' # "data"
  PROVE  PanelInv'
<1>1. WindowsInv'
  BY DEF PanelInv, WindowsInv, data
<1>2. ObservationsInv'
  <2>1. \A v : Observed(windows[v].test)' = Observed(windows[v].test)
    BY DEF data, Observed, BenchmarkSessions
  <2>2. w' = w /\ windows' = windows /\ observations' = observations
    BY DEF data
  <2>3. ObservationsInv
    BY DEF PanelInv
  <2> QED
    BY <2>1, <2>2, <2>3 DEF ObservationsInv
<1>3. PanelsInv'
  <2>1. \A candidates : /\ CommonDates(candidates, observations)' = CommonDates(candidates, observations)
                        /\ Duplicated(candidates, observations)' = Duplicated(candidates, observations)
    BY DEF data, CommonDates, DatesOf, Duplicated
  <2> QED
    BY <2>1 DEF PanelInv, PanelsInv, data
<1> QED
  BY <1>1, <1>2, <1>3 DEF PanelInv

LEMMA PanelInvCheck ==
  ASSUME PanelInv, phase = "panel", NEW families, Check(families),
         UNCHANGED data, UNCHANGED <<w, made>>
  PROVE  PanelInv'
<1> DEFINE candidates == EverEligible(families)
           outcome == Alignment(candidates, observations)
<1>1. step >= Months => outcome # "data"
  BY NoneDuplicated DEF PanelInv
<1>2. outcome = "none" => ~ Duplicated(candidates, observations)
  BY DEF Alignment
<1>3. CASE outcome # "none"
  <2>1. phase' = "failed" /\ failure' = outcome /\ panels' = panels
    BY <1>3 DEF Check, Fail
  <2> QED
    BY <1>1, <2>1, PanelInvLater DEF made
<1>4. CASE outcome = "none"
  <2>1. /\ panels' = panels \cup {[candidates |-> candidates, dates |-> CommonDates(candidates, observations)]}
        /\ phase' = phase /\ failure' = failure
    BY <1>4 DEF Check
  <2>2. \A panel \in panels' \ panels :
          /\ panel.dates = CommonDates(panel.candidates, observations)
          /\ ~ Duplicated(panel.candidates, observations)
    BY <1>2, <1>4, <2>1
  <2>3. step >= Months => failure' # "data"
    BY <2>1 DEF PanelInv, PanelsInv
  <2> QED
    BY <2>1, <2>2, <2>3, PanelInvLater DEF made
<1> QED
  BY <1>3, <1>4

LEMMA PanelInvInit == Init => PanelInv
BY DEF Init, PanelInv, WindowsInv, ObservationsInv, PanelsInv

LEMMA PanelInvStep == SelectionInv /\ PanelInv /\ [Next]_vars => PanelInv'
<1> SUFFICES ASSUME SelectionInv, PanelInv, [Next]_vars PROVE PanelInv'
  OBVIOUS
<1>0. step >= Months => failure # "data"
  BY DEF PanelInv, PanelsInv
<1>1. CASE Load
  BY <1>1, PanelInvLoad
<1>2. CASE StartTraining
  BY <1>2, PanelInvMaps DEF StartTraining, Fail, late
<1>3. ASSUME NEW n \in Candidates, Train(n) PROVE PanelInv'
  BY <1>3, PanelInvMaps DEF Train, late
<1>4. CASE Rank
  <2>1. /\ UNCHANGED <<data, w, made, panels>> /\ phase = "train"
        /\ phase' \in {"evaluate", "failed"} /\ failure' \in {failure, "simulation"}
    BY <1>4 DEF Rank, Fail, late
  <2> QED
    BY <2>1, PanelInvMaps
<1>5. ASSUME NEW n \in Candidates, Evaluate(n) PROVE PanelInv'
  BY <1>5, PanelInvMaps DEF Evaluate, late
<1>6. CASE Collect
  BY <1>6, PanelInvCollect
<1>7. CASE RegimePanels
  <2>1. /\ phase = "regimes" /\ phase' \in {"failed", "ranks"} /\ UNCHANGED <<data, w, made, panels>>
    BY <1>7 DEF RegimePanels, Fail, late
  <2>2. step >= Months => failure' # "data"
    <3>1. \A regime : InRegime(regime) \in SUBSET observations
      BY DEF InRegime
    <3>2. step >= Months =>
            \A family \in Family, regime \in Regimes : Alignment(EverEligible({family}), InRegime(regime)) # "data"
      BY <3>1, NoneDuplicated DEF PanelInv
    <3> QED
      BY <1>0, <1>7, <3>2 DEF RegimePanels
  <2> QED
    BY <2>1, <2>2, PanelInvLater DEF made
<1>8. CASE OutOfSampleRanks
  <2>1. /\ phase = "ranks" /\ phase' = "deploy" /\ UNCHANGED <<data, w, observations, panels, failure>>
        /\ DOMAIN rows' = DOMAIN rows
    BY <1>8 DEF OutOfSampleRanks, late
  <2>2. \A i \in DOMAIN rows : /\ rows'[i].window = rows[i].window
                               /\ rows'[i].candidate = rows[i].candidate
                               /\ rows'[i].eligible = rows[i].eligible
    <3>1. \A i \in DOMAIN rows : rows[i] \in RowSet
      BY DEF SelectionInv, SoundTable
    <3> QED
      BY <1>8, <3>1 DEF OutOfSampleRanks, RowSet
  <2> QED
    BY <1>0, <2>1, <2>2, PanelInvLater
<1>9. CASE Deploy
  BY <1>0, <1>9, PanelInvLater DEF Deploy, made
<1>10. CASE StartPanels
  BY <1>0, <1>10, PanelInvLater DEF StartPanels, made
<1>11. CASE FamilyPanel
  <2>1. phase = "panel" /\ UNCHANGED data /\ UNCHANGED <<w, made>>
    BY <1>11 DEF FamilyPanel
  <2>2. CASE EverEligible({at}) = {}
    <3>1. UNCHANGED <<phase, panels, failure>>
      BY <1>11, <2>2 DEF FamilyPanel
    <3> QED
      BY <1>0, <2>1, <3>1, PanelInvLater DEF made
  <2>3. CASE EverEligible({at}) # {}
    <3>1. Check({at})
      BY <1>11, <2>3 DEF FamilyPanel
    <3> QED
      BY <2>1, <3>1, PanelInvCheck
  <2> QED
    BY <2>2, <2>3
<1>12. CASE CrossFamilyPanel
  <2>1. phase = "panel" /\ UNCHANGED data /\ UNCHANGED <<w, made>>
    BY <1>12 DEF CrossFamilyPanel
  <2>2. CASE Cardinality(chosen) > 1
    <3>1. Check(Family)
      BY <1>12, <2>2 DEF CrossFamilyPanel
    <3> QED
      BY <2>1, <3>1, PanelInvCheck
  <2>3. CASE ~ Cardinality(chosen) > 1
    <3>1. UNCHANGED <<phase, panels, failure>>
      BY <1>12, <2>3 DEF CrossFamilyPanel
    <3> QED
      BY <1>0, <2>1, <3>1, PanelInvLater DEF made
  <2> QED
    BY <2>2, <2>3
<1>13. CASE Finish
  BY <1>0, <1>13, PanelInvLater DEF Finish, made, late
<1>14. CASE UNCHANGED vars
  <2>1. /\ UNCHANGED <<data, w, made, panels, phase, failure>>
    BY <1>14 DEF vars, late
  <2>2. ObservationsInv' /\ PanelsInv'
    BY <1>0, <2>1, ObservationsSame, PanelsSame DEF PanelInv, made
  <2> QED
    BY <2>1, <2>2 DEF PanelInv, WindowsInv, data, made
<1> QED
  BY <1>1, <1>2, <1>3, <1>4, <1>5, <1>6, <1>7, <1>8, <1>9, <1>10, <1>11, <1>12, <1>13, <1>14 DEF Next

LEMMA PanelIsSound ==
  ASSUME PanelInv
  PROVE  PanelSound
<1>1. step >= Months => failure # "data"
  BY DEF PanelInv, PanelsInv
<1>2. ASSUME NEW panel \in panels, NEW s \in panel.dates, NEW candidate \in panel.candidates
      PROVE  LET seen == {o \in observations : o.session = s /\ o.candidate = candidate}
             IN /\ Cardinality(seen) = 1
                /\ step >= Months =>
                     \A o \in seen, i \in DOMAIN rows :
                       rows[i].window = o.window /\ rows[i].candidate \in panel.candidates => rows[i].eligible
  <2> DEFINE seen == {o \in observations : o.session = s /\ o.candidate = candidate}
  <2>1. /\ panel.dates = CommonDates(panel.candidates, observations)
        /\ ~ Duplicated(panel.candidates, observations)
    BY DEF PanelInv, PanelsInv
  <2>2. \A c \in panel.candidates : \E o \in observations : o.session = s /\ o.candidate = c
    BY <2>1 DEF CommonDates, DatesOf
  <2>3. PICK o \in observations : o.session = s /\ o.candidate = candidate
    BY <2>2
  <2>4. \A x \in seen : x = o
    BY <2>1, <2>3 DEF Duplicated
  <2>5. seen = {o}
    BY <2>3, <2>4
  <2>6. Cardinality(seen) = 1
    BY <2>5, FS_Singleton
  <2>7. ASSUME step >= Months, NEW i \in DOMAIN rows,
               rows[i].window = o.window, rows[i].candidate \in panel.candidates
        PROVE  rows[i].eligible
    <3>1. PICK x \in observations : x.session = s /\ x.candidate = rows[i].candidate
      BY <2>2, <2>7
    <3>2. x.window = o.window
      BY <2>3, <2>7, <3>1, OneWindow DEF PanelInv
    <3> QED
      BY <2>7, <3>1, <3>2 DEF PanelInv, ObservationsInv
  <2> QED
    BY <2>5, <2>6, <2>7
<1> QED
  BY <1>1, <1>2 DEF PanelSound

-----------------------------------------------------------------------------
(* The experiment of a command *)

LEMMA ExperimentSteps ==
  ASSUME [RunNext]_runVars
  PROVE  [Next]_vars
BY DEF RunNext, Dispatch, Return, Raise, SelectionRiskStep, runVars

ExperimentInv == SelectionInv /\ PanelInv

(* The rows, observations and panels of an experiment are as the code made *)
(* them: inductive over its own steps, whatever the tasks' order, and the  *)
(* command's stages leave them alone.                                      *)
THEOREM ExperimentInvariant == RunSpec => []ExperimentInv
<1>1. RunInit => ExperimentInv
  BY SelectionInvInit, PanelInvInit DEF RunInit, ExperimentInv
<1>2. ExperimentInv /\ [RunNext]_runVars => ExperimentInv'
  BY ExperimentSteps, SelectionInvStep, PanelInvStep DEF ExperimentInv
<1> QED
  BY <1>1, <1>2, PTL DEF RunSpec

(* Whatever the order the tasks end in, the scores and the grid: one       *)
(* candidate of a family is selected on each window with an eligible one,  *)
(* none is ranked better, the ranks leave no gap and no tie, and the       *)
(* tables count every selection once.                                      *)
THEOREM CommandSelectionSound == RunSpec => []SelectionSound
BY ExperimentInvariant, SelectionIsSound, PTL DEF ExperimentInv

(* On every history: a panel has one observation of each candidate on each *)
(* date, and with a step as long as a test none has two, also where the    *)
(* clamping of days lets test ranges overlap by a session, and all were    *)
(* eligible on the window a date comes from.                               *)
THEOREM CommandPanelSound == RunSpec => []PanelSound
BY ExperimentInvariant, PanelIsSound, PTL DEF ExperimentInv
=============================================================================
