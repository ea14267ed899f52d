---------------------------- MODULE MCIntegration ----------------------------
(***************************************************************************)
(* Values of the CONSTANTS of Integration that a configuration file cannot *)
(* write down.                                                             *)
(***************************************************************************)
EXTENDS Integration

NoCards == {}

(* The second lane changes only generated status files.                     *)
SecondLane == {2}

With(plan, team, failing, mishaps, max) ==
    [plan |-> plan, team |-> team, failing |-> failing, mishaps |-> mishaps, max |-> max]

(* One lane and two Developers; two kinds of failure of one lane, and every *)
(* mishap; two lanes on one branch.                                         *)
LaneSettings ==
    {With({1}, {1, 2}, {"push"}, {"requeue", "kept branch", "crash"}, 1),
     With({1}, {1}, {"begin", "push"}, Mishaps, 1),
     With({1, 2}, {1}, {"merge"}, {}, 0)}

(* Two lanes of one Developer and nothing that goes wrong.                  *)
CalmSettings == {With({1, 2}, {1}, {}, {}, 0)}
=============================================================================
