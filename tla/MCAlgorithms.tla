---------------------------- MODULE MCAlgorithms ----------------------------
(* The values the algorithms are checked on.                                *)
EXTENDS Algorithms

MCTasks == {"plan", "sections", "passages", "chunks", "retrieval", "changes", "claims", "progress",
            "report", "narrative"}

(* Items: two to a request, three to a request, too large for any.          *)
MCItems  == {"small", "medium", "huge"}
MCTokens == [small |-> 1, medium |-> 3, huge |-> 20]

(* Texts: x and y near, x and z far; the weights are those of config.py.    *)
MCTexts == {"x", "y", "z"}
MCLikeness ==
  [s \in MCTexts |-> [t \in MCTexts |->
     IF s = t THEN [dense |-> 10000, lexical |-> 10000, reranker |-> 10000]
     ELSE IF {s, t} = {"x", "y"} THEN [dense |-> 8000, lexical |-> 5000, reranker |-> 7000]
     ELSE [dense |-> 2000, lexical |-> 500, reranker |-> 1000]]]
MCLikenessOf == [p \in MCTexts \X MCTexts |-> MCLikeness[p[1]][p[2]]]

MCSectionWeights ==
  [structural |-> 3000, heading |-> 2000, dense |-> 2000, lexical |-> 1500, reranker |-> 1000,
   position |-> 500]
MCPassageWeights == [dense |-> 3500, lexical |-> 3500, reranker |-> 1500, position |-> 1500]

MCSection(part, item, type, title, text) ==
  [part |-> part, item |-> item, type |-> type, title |-> title, text |-> text]
MCSections ==
  {MCSection("I", "2", "mda", "x", "x"), MCSection("I", "2", "mda", "y", "y"),
   MCSection("", "", "mda", "x", "z"), MCSection("", "", "risk_factors", "z", "z")}

(* Paragraphs by the sizes of their sentences; tables by their words.       *)
MCParagraphs == {<<1>>, <<2, 2>>, <<3>>, <<1, 4>>, <<9>>, <<0>>}
MCTables == {<<>>, <<1, 2>>, <<1, 2, 3, 4, 5, 6>>}

MCChunk(dense, lexical, active, filing) ==
  [id |-> 0, dense |-> dense, lexical |-> lexical, active |-> active, ingestion |-> "completed",
   filing |-> filing, section |-> "mda", model |-> "bge"]
MCChunks ==
  {MCChunk(9000, 0, TRUE, "old"), MCChunk(7000, 20, TRUE, "new"), MCChunk(0, 30, TRUE, "new"),
   MCChunk(8000, 10, TRUE, "new"), MCChunk(9500, 40, FALSE, "new"),
   [MCChunk(9900, 0, TRUE, "new") EXCEPT !.model = "other"]}
MCFilters == [filings |-> {}, sections |-> {}, minSimilarity |-> 0]
MCRequest == [filters |-> MCFilters, candidateK |-> 3, topK |-> 2, rerank |-> FALSE,
              relevance |-> <<3, 1, 4, 1, 5>>]
MCRequests ==
  {MCRequest, [MCRequest EXCEPT !.candidateK = 5, !.topK = 5], [MCRequest EXCEPT !.rerank = TRUE],
   [MCRequest EXCEPT !.filters.filings = {"new"}, !.filters.minSimilarity = 7500]}

MCNormalOf == [y2025 |-> "<year>", y2026 |-> "<year>", loss |-> "gain"]
MCDigitsOf == [y2025 |-> "2025", y2026 |-> "2026", loss |-> "5", gain |-> "5"]
MCWords == {"may", "will", "not", "risk", "if", "cash", "debt", "covenant", "y2025", "y2026",
            "gain", "loss"}
MCMateriality ==
  [novelty |-> 2500, risk |-> 2500, uncertainty |-> 2000, section |-> 1500, numeric |-> 1500]
MCSectionsOfChange == {[type |-> "mda", title |-> <<>>], [type |-> "other", title |-> <<"sales">>]}

MCNumber(amount, currency, negative, scale, unit) ==
  [amount |-> amount, currency |-> currency, negative |-> negative, scale |-> scale, unit |-> unit]
MCNumberOf ==
  ("$2m" :> MCNumber(20000, TRUE, FALSE, "m", "")) @@ ("(3)" :> MCNumber(30000, FALSE, TRUE, "", ""))
  @@ ("12%" :> MCNumber(120000, FALSE, FALSE, "", "percent"))
  @@ ("150bps" :> MCNumber(1500000, FALSE, FALSE, "", "basis points"))
  @@ ("2025" :> MCNumber(20250000, FALSE, FALSE, "", ""))
MCScaleOf == ("" :> 1) @@ ("m" :> 100) @@ ("b" :> 1000)
MCTermsIn == [inflation |-> {"flat"}]
MCRegistry ==
  <<[name |-> "revenue", aliases |-> <<<<"revenue">>, <<"revenue">>, <<"net", "sales">>>>],
    [name |-> "gross_profit", aliases |-> <<<<"gross_profit">>, <<"gross", "profit">>>>],
    [name |-> "gross_margin", aliases |-> <<<<"gross_margin">>, <<"gross", "profit", "margin">>>>]>>
MCSentenceWords ==
  DOMAIN MCNumberOf \cup {"revenue", "gross", "profit", "margin", "increased", "declined", "inflation",
                          "sequentially", "strong", "modest"}
MCFact(value) == [status |-> "selected", fact |-> Given([value |-> value]), rows |-> <<>>,
                  score |-> 10000]
MCFacts == {<<MCFact(112), MCFact(100)>>, <<MCFact(101), MCFact(100)>>, <<MCFact(5), MCFact(0)>>}
MCQualifiers ==
  [strong |-> [length |-> 6, class |-> "strong"], modest |-> [length |-> 6, class |-> "weak"]]
MCOrders == {[strong |-> 1, modest |-> 2], [strong |-> 2, modest |-> 1]}
MCSaid == {{"strong", "demand"}, {"weak", "demand"}, {"improve", "financing"},
           {"do not expect", "financing"}, {"expect", "decline"}}

MCRow(status, review, error, at) == [status |-> status, review |-> review, error |-> error, at |-> at]
MCRows ==
  {MCRow("pending", 0, "none", 0), MCRow("processing", 0, "none", 0),
   MCRow("completed", 0, "none", 0), MCRow("completed", 1, "none", 0),
   MCRow("completed", 0, "client_error", 3), MCRow("failed", 0, "timeout", 1),
   MCRow("failed", 0, "client_error", 2), MCRow("failed", 0, "none", 0)}
MCRun(nodes, current, status, failureNode, failureCode) ==
  [nodes |-> nodes, current |-> current, status |-> status, failureNode |-> failureNode,
   failureCode |-> failureCode, reported |-> nodes, comparisonStatus |-> "completed",
   plannedComparison |-> Unreported, plannedClaims |-> 2, forReport |-> FALSE,
   needsReview |-> TRUE, review |-> "none"]
MCRunsShown ==
  {MCRun(1..n - 1, n, "running", 0, "none") : n \in {4, 5, 6, 9, 12}}
  \cup {MCRun(1..n - 1, 0, "failed", n, code) : n \in {4, 5, 9}, code \in {"timeout", "incomplete"}}
  \cup {MCRun(1..12, 0, "completed", 0, "none"), MCRun(1..12, 0, "cancelled", 0, "none"),
        MCRun(1..12, 4, "comparing_disclosures", 0, "none"), MCRun(1..8, 0, "failed", 4, "timeout"),
        [MCRun(1..10, 11, "generating_report", 0, "none") EXCEPT !.forReport = TRUE,
                                                                   !.review = "approved"]}

(* Findings the policy tells apart, two to a listing, and what else the     *)
(* report is made of.                                                       *)
MCFinding(type, severity, confidence) ==
  [id |-> 0, type |-> type, severity |-> severity, confidence |-> confidence, review |-> "unreviewed",
   status |-> "detected", evidence |-> {"primary"}]
MCFindings ==
  {MCFinding("tone", "low", 9000), MCFinding("tone", "high", 7000), MCFinding("tone", "low", 6900),
   MCFinding("numerical_claim_contradiction", "low", 9500),
   [MCFinding("tone", "critical", 8000) EXCEPT !.review = "rejected"],
   [MCFinding("tone", "medium", 8000) EXCEPT !.status = "insufficient_evidence"],
   [MCFinding("tone", "medium", 8000) EXCEPT !.review = "uncertain", !.evidence = {"opposing"}]}
MCVerdict(status) ==
  [id |-> 0, kind |-> "verdict", status |-> status, formula |-> TRUE, claim |-> "c", facts |-> {"f"}]
MCChange(label) == [id |-> 0, kind |-> "change", label |-> label]
MCReported ==
  {MCVerdict("verified"), MCVerdict("ambiguous"), MCChange("added"), MCChange("requires_review")}

Both(elements) == [left |-> elements, right |-> elements]
MCAlphabet ==
  [plan |-> [left |-> MCItems, right |-> {}], sections |-> Both(MCSections),
   passages |-> Both(MCTexts), chunks |-> [left |-> MCParagraphs, right |-> MCTables],
   retrieval |-> [left |-> MCChunks, right |-> {}], changes |-> Both(MCWords),
   claims |-> [left |-> MCSentenceWords, right |-> {}], progress |-> Both(MCRows),
   narrative |-> Both(MCSaid),
   report |-> [left |-> MCFindings, right |-> MCReported]]
MCBound ==
  [t \in MCTasks |->
     IF t = "report" THEN [left |-> 3, right |-> 2]
     ELSE IF t = "plan" THEN [left |-> 6, right |-> 0]
     ELSE IF t \in {"sections", "passages", "narrative"} THEN [left |-> 3, right |-> 3]
     ELSE IF t = "chunks" THEN [left |-> 3, right |-> 1]
     ELSE IF t \in {"retrieval", "claims"} THEN [left |-> 4, right |-> 0]
     ELSE [left |-> 2, right |-> 2]]

=============================================================================
