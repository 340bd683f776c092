------------------------- MODULE MCFeatureSwitches -------------------------
(* Every configuration with at most one switch off, at most one switch on, *)
(* or at most two sections on under masters that are all on; with the last *)
(* family each pair of sections can be the only one to need a datum.       *)
EXTENDS FeatureSwitches

MCConfigurations ==
  {Switch, {}} \cup {Switch \ {s} : s \in Switch} \cup {{s} : s \in Switch}
  \cup {Master \cup {s, t} : s, t \in Section}

MCPackets ==
  { [proto |-> p, v4 |-> TRUE, payload |-> b, raw |-> r] :
      p \in {"TCP", "UDP"}, b, r \in BOOLEAN }
  \cup {[proto |-> "TCP", v4 |-> FALSE, payload |-> TRUE, raw |-> TRUE]}
=============================================================================
