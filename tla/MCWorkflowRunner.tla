---------------------------- MODULE MCWorkflowRunner ----------------------------
(* A plan of an agent, an approval of its report, a governance node that       *)
(* generates an artifact from both, and two that judge it: a validator, and a  *)
(* professional one that blocks.                                               *)
EXTENDS WorkflowRunner

CONSTANTS report, review, design, check, assess, v1, v2, e1

MCOrder == <<report, review, design, check, assess>>
MCNodes == {report, review, design, check, assess}

MCDeps == [n \in Nodes |->
    CASE n = report -> {}
      [] n = review -> {report}
      [] n = design -> {report, review}
      [] n \in {check, assess} -> {design}]
MCKind == [n \in Nodes |->
    CASE n = report -> "work"
      [] n = review -> "approval"
      [] n = design -> "governance"
      [] n \in {check, assess} -> "validator"]
\* The same plan with a governance node for the professional validator.
MCGovernanceKind == [MCKind EXCEPT ![assess] = "governance"]
MCPolicy == [n \in Nodes |-> IF n = check THEN "continue_independent" ELSE "stop"]
================================================================================
