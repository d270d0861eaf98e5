------------------------------ MODULE MCFanout ------------------------------
(* Aircraft 1 has an observation without a time, with a higher score than  *)
(* the newer one, aircraft 2 two scores at one time: both rules of         *)
(* supersedes decide.  The vector side also finds aircraft 0.              *)
EXTENDS Queries

MCHit ==
  { [icao24 |-> 1, score |-> 2, observed_at |-> 0],
    [icao24 |-> 1, score |-> 1, observed_at |-> 2],
    [icao24 |-> 2, score |-> 1, observed_at |-> 3],
    [icao24 |-> 2, score |-> 2, observed_at |-> 3] }

MCVectorHit ==
  { [icao24 |-> 1, score |-> 2, observed_at |-> 0],
    [icao24 |-> 2, score |-> 1, observed_at |-> 3],
    [icao24 |-> 2, score |-> 3, observed_at |-> 3],
    [icao24 |-> 0, score |-> 2, observed_at |-> 2] }
=============================================================================
