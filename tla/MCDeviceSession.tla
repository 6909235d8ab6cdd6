-------------------------- MODULE MCDeviceSession --------------------------
(* Instances of DeviceSession for TLC.                                     *)
EXTENDS DeviceSession, TLC

MCOneByOne == {{call} : call \in Call}
MCTwoBatches == {{"isAuthorized", "accessCredentials"}, {"machines", "getBlockNumber"}}
MCAllAtOnce == {Call}

\* For runs without liveness: no tab, browser, controller or token is special.
MCSymmetry ==
  Permutations(Tab) \cup Permutations(Browser) \cup Permutations(Controller)
    \cup Permutations(Token)
=============================================================================
