------------------------------ MODULE MCGrant ------------------------------
(***************************************************************************)
(* Instances of Grant: the environments of a first start, of a trial with  *)
(* a live account, of live booking, of live booking with a mistyped        *)
(* SHADOW_MODE, and those the process refuses to start under.              *)
(***************************************************************************)
EXTENDS Grant

Environment(shadow, writes, phrase, adapter, secrets) ==
  [SHADOW_MODE |-> shadow, FORTNOX_WRITES_ENABLED |-> writes, phrase |-> phrase,
   FORTNOX_ADAPTER |-> adapter, secrets |-> secrets]

MCRefused ==
  {Environment("unset", "true", TRUE, "auto", TRUE),
   Environment("false", "true", FALSE, "auto", TRUE),
   Environment("false", "true", TRUE, "mock", TRUE)}

MCEnvironments == MCRefused \cup
  {Environment("unset", "unset", FALSE, "mock", FALSE),
   Environment("unset", "unset", FALSE, "auto", TRUE),
   Environment("on", "true", TRUE, "real", TRUE),
   Environment("false", "true", TRUE, "auto", TRUE)}
============================================================================
