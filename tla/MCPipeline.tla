----------------------------- MODULE MCPipeline -----------------------------
(* The pipeline with the limits of config.py and LangGraph and one flag of *)
(* each kind that decides by itself; three minor flags make a high risk.   *)
EXTENDS Pipeline

CONSTANTS lowConfidence, roleRisk, n1, n2, n3

MCSevere == {lowConfidence}
MCReview == {roleRisk}
MCMinor  == {n1, n2, n3}
=============================================================================
