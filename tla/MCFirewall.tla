----------------------------- MODULE MCFirewall -----------------------------
EXTENDS Firewall

MCServes == [n \in Names |->
  CASE n = "api"    -> {"a1"}
    [] n = "github" -> {"a1", "g1"}
    [] n = "cdn"    -> {"c1", "x"}
    [] n = "other"  -> {"o1"}]
=============================================================================
