----------------------------- MODULE MCPortfolio -----------------------------
(***************************************************************************)
(* A small instance of the portfolio: two assets, prices that rise and     *)
(* fall between sessions and within them, a split, a reverse split that    *)
(* leaves half a share, and a dividend paid on the day of a split.  The    *)
(* weights come from the policies, with a cash buffer of a tenth: equal    *)
(* weights, the better of two histories up to a cap of three quarters,     *)
(* and one asset without a history.                                        *)
(*                                                                         *)
(* The result of a run is kept when it is to be attributed, which tells    *)
(* every two runs apart; those runs have the bars with corporate actions,  *)
(* equal weights, and two of the policies.                                 *)
(***************************************************************************)
EXTENDS PortfolioBacktester, PortfolioAttribution

VARIABLE attributed

None == <<0, 1>>

MCActive == {
  [open |-> 2, close |-> 2, split |-> <<2, 1>>, dividend |-> 1],
  [open |-> 5, close |-> 4, split |-> <<1, 2>>, dividend |-> 0] }

MCBars == MCActive \cup {
  [open |-> 2, close |-> 3, split |-> None, dividend |-> 0],
  [open |-> 4, close |-> 2, split |-> None, dividend |-> 0] }

LOCAL MCHistory == << <<4, 5, 4>>, <<4, 4, 6>> >>

MCTargets == { <<9, 9>>, <<3, 15>>, <<18, 0>> }

ASSUME PoliciesReturnTargets ==
  MCTargets = {
    EnforceConstraints(InverseVolatility(<<0, 0>>), 20, 18),
    EnforceConstraints(MomentumTopN(MCHistory, <<2, 3>>, 1, 1), 15, 18),
    EnforceConstraints(MomentumTopN(MCHistory, <<3, 2>>, 2, 2), 20, 18) }

(* Raw weights of up to four assets.                                       *)
MCRawWeights == UNION {[1 .. n -> 0 .. 2] : n \in 1 .. 4}

ASSUME EightPassesSuffice == PassesSuffice

Halves == <<9, 9>>

MCInit ==
  /\ attributed \in BOOLEAN
  /\ IF attributed
     THEN AttributionInit /\ mode = "union" /\ planned = NoPlan
     ELSE PortfolioInit /\ day = Nothing /\ curve = <<>> /\ rebalances = <<>>

MCNext ==
  /\ UNCHANGED attributed
  /\ IF attributed
     THEN /\ AttributionNext /\ UNCHANGED kept
          /\ bar' \in [Assets -> MCActive \cup {Closed}]
          /\ targets' \in {[a \in Assets |-> 0], Halves}
          /\ deferred' = NoDeferral \/ deferred'.targets = Halves
     ELSE PortfolioNext /\ UNCHANGED result

MCSpec == MCInit /\ [][MCNext]_<<portfolio, result, attributed>>
=============================================================================
