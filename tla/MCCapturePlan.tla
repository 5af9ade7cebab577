---------------------------- MODULE MCCapturePlan ----------------------------
(* Three short years for the due times of CapturePlan; the year in the      *)
(* middle has its two months the other way round.                           *)
EXTENDS CapturePlan

ThreeYears == << <<2, 3>>, <<3, 2>>, <<2, 3>> >>
=============================================================================
