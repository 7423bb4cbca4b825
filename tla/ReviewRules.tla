------------------------------ MODULE ReviewRules ------------------------------
(***************************************************************************)
(* What becomes of the findings of a comparison once they are stored: the  *)
(* evidence check, the priorities and the review policy of the workflow    *)
(* (analysis_workflow_service.py), and the report that is made of them, of *)
(* the verdicts and of the changes (analysis_report_service.py).           *)
(*                                                                         *)
(* A finding is [id, type, severity, confidence (in ten-thousandths),      *)
(* review, status, evidence], its evidence the set of the roles stored; a  *)
(* verdict [id, status, formula, claim, facts]; a change [id, label].  The *)
(* rows have ids of their own: a report has sets of them.                  *)
(***************************************************************************)
EXTENDS Rankings

CONSTANTS
  FindingLimit,        \* the limit of every listing of findings: 1000
  RequireReviewForAll, \* workflow_require_review_for_all_contradictions
  MinSeverity,         \* workflow_review_min_severity
  LowConfidence        \* workflow_review_low_confidence_threshold

SeverityOrder == [low |-> 1, medium |-> 2, high |-> 3, critical |-> 4]

ASSUME ReviewAssumption ==
  /\ FindingLimit \in Nat \ {0}
  /\ RequireReviewForAll \in BOOLEAN
  /\ MinSeverity \in DOMAIN SeverityOrder
  /\ LowConfidence \in 0..10000

(* list_findings: the surest first, then in the order they were created.   *)
ListFindings(stored) == Top(Ranked(stored, LAMBDA f : f.confidence), FindingLimit)

(* summarize_findings.                                                     *)
SummarizeFindings(stored) ==
  LET listed == ToSet(ListFindings(stored))
      count(field, value) == Cardinality({f \in listed : f[field] = value})
  IN  [total |-> Cardinality(listed),
       severities |-> [s \in DOMAIN SeverityOrder |-> count("severity", s)],
       types |-> [t \in {f.type : f \in listed} |-> count("type", t)],
       reviews |-> [r \in {f.review : f \in listed} |-> count("review", r)]]

-----------------------------------------------------------------------------
(* validate_evidence; the warning of a change without text is left out.    *)

BlockingEvidence(findings, verdicts) ==
  {v \in verdicts : v.status = "contradicted" /\ ~v.formula}
  \cup {f \in ToSet(findings) : "primary" \notin f.evidence}

-----------------------------------------------------------------------------
(* prioritize_findings and review_gate.                                    *)

ReviewPriority(finding) ==
  [critical |-> "urgent", high |-> "high", medium |-> "normal", low |-> "informational"]
    [finding.severity]

ReviewPolicyAbove(findings) ==   \* mutant: the threshold itself is let through
  \/ RequireReviewForAll /\ findings # <<>>
  \/ \E f \in ToSet(findings) : \/ f.type = "numerical_claim_contradiction"
                                \/ SeverityOrder[f.severity] > SeverityOrder[MinSeverity]
                                \/ f.confidence < LowConfidence
ReviewPolicy(findings) ==
  \/ RequireReviewForAll /\ findings # <<>>
  \/ \E f \in ToSet(findings) : \/ f.type = "numerical_claim_contradiction"
                                \/ SeverityOrder[f.severity] >= SeverityOrder[MinSeverity]
                                \/ f.confidence < LowConfidence

NamedForReview(findings) == {f \in ToSet(findings) : ReviewPriority(f) # "informational"}

-----------------------------------------------------------------------------
(* generate_report.                                                        *)

HighPriority(findings) ==
  {f \in ToSet(findings) : f.severity \in {"high", "critical"} /\ f.review # "rejected"}

Limitations(verdicts, findings, needsReview) ==
  {l \in {"claims unresolved"} :
     \E v \in verdicts : v.status \notin {"verified", "approximately_verified", "contradicted"}}
  \cup {l \in {"evidence incomplete"} :
          \E f \in ToSet(findings) : f.status = "insufficient_evidence"}
  \cup {l \in {"findings uncertain"} : \E f \in ToSet(findings) : f.review = "uncertain"}
  \cup {l \in {"review was required"} : needsReview}

DataQualityNotes(changes, claimReview) ==
  {l \in {"passages not classified"} : \E c \in changes : c.label = "requires_review"}
  \cup {l \in {"claims not extracted"} : claimReview > 0}

(* The evidence is that of every stored finding, listed or not.            *)
EvidenceManifest(stored, verdicts, changes) ==
  [changes |-> {c.id : c \in changes},
   claims |-> {v.claim : v \in verdicts},
   verifications |-> {v.id : v \in verdicts},
   facts |-> UNION {v.facts : v \in verdicts},
   findings |-> {f.id : f \in ToSet(ListFindings(stored))},
   evidence |-> UNION {{f.id} \X f.evidence : f \in ToSet(stored)}]

GenerateReport(stored, verdicts, changes, needsReview, claimReview) ==
  LET findings == ListFindings(stored) IN
  [summary |-> SummarizeFindings(stored),
   highPriority |-> HighPriority(findings),
   notes |-> DataQualityNotes(changes, claimReview),
   limitations |-> Limitations(verdicts, findings, needsReview)
                   \cup DataQualityNotes(changes, claimReview),
   manifest |-> EvidenceManifest(stored, verdicts, changes)]

=============================================================================
