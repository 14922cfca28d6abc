-------------------------- MODULE MCSelectionRisk --------------------------
(***************************************************************************)
(* One ticker with two windows.  The history starts on 30 November, so     *)
(* that the second test starts on 28 February 2016, which the first one,   *)
(* up to 29 February, has tested; with a step of two months the tests      *)
(* overlap by weeks.                                                       *)
(***************************************************************************)
EXTENDS SelectionRisk

MCSessions ==
  << Date(2014, 11, 30), Date(2015, 6, 1), Date(2015, 11, 27), Date(2015, 12, 1),
     Date(2016, 1, 29), Date(2016, 2, 2), Date(2016, 2, 28), Date(2016, 3, 2),
     Date(2016, 5, 26), Date(2016, 5, 30) >>

MCCloses == <<4, 4, 4, 4, 6, 4, 4, 6, 6, 4>>

(* The second history ends before its first test does.                     *)
MCHistories == { [sessions |-> MCSessions, closes |-> MCCloses],
                 [sessions |-> SubSeq(MCSessions, 1, 6), closes |-> SubSeq(MCCloses, 1, 6)] }

MCGrid == <<1, 1, 2>>
=============================================================================
