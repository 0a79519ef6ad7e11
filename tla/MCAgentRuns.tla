---------------------------- MODULE MCAgentRuns -----------------------------
EXTENDS AgentRuns, TLC

AllScenes == {"distill", "promote", "attribute", "enrich", "audit"}

TwoOrOne == <<1, 1>> @@ 0 :> 2
=============================================================================
