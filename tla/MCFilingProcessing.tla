------------------------ MODULE MCFilingProcessing ------------------------
(* A document of two chunks, one with the same text and another table, and    *)
(* one without sections.                                                      *)
EXTENDS FilingProcessing

CONSTANTS first, amended, empty

MCDocs == {first, amended, empty}
MCText == [d \in MCDocs |-> IF d = empty THEN "none" ELSE "text"]
MCTables == [d \in MCDocs |-> IF d = amended THEN "restated" ELSE "table"]
MCPieces == [d \in MCDocs |-> IF d = empty THEN 0 ELSE 2]
Budget(r, f, i, d) == [requests |-> r, faults |-> f, ingests |-> i, drifts |-> d]
MCBudgets == {Budget(2, 1, 2, 0), Budget(2, 2, 1, 1), Budget(1, 1, 2, 1)}
=============================================================================
