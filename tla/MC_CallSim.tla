----------------------------- MODULE MC_CallSim -----------------------------
(* The call simulator run with up to two test set names on the command     *)
(* line, drawn from a direct set, the same set as a group call, a set with  *)
(* a preprocessing step and two groups, and a name no set has.             *)
EXTENDS CallSim

MCArgs ==
    { [prefixed |-> FALSE, base |-> "minimal_example"],
      [prefixed |-> TRUE,  base |-> "minimal_example"],
      [prefixed |-> FALSE, base |-> "ptime_analysis"],
      [prefixed |-> FALSE, base |-> "baseline_over_all_profiles"],
      [prefixed |-> FALSE, base |-> "no_such_set"] }

MCRequests == {<<>>} \cup {<<a>> : a \in MCArgs} \cup {<<a, b>> : a, b \in MCArgs}

=============================================================================
