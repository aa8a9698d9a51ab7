---------------------------- MODULE MCRunConsole ----------------------------
(***************************************************************************)
(* Small instances of RunConsole: how many of each mishap.                 *)
(***************************************************************************)
EXTENDS RunConsole

CONSTANTS Drops, Slow, Down, Raises, Doubles

MCMishaps == [k \in MishapKinds |->
    CASE k = "drop" -> Drops [] k = "slow" -> Slow [] k = "down" -> Down
      [] k = "raise" -> Raises [] k = "double" -> Doubles]

=============================================================================
