------------------------------- MODULE Retrieval -------------------------------
(***************************************************************************)
(* Hybrid search (retrieval_service.py, chunk_repository.py, reranker.py): *)
(* a ranking by vectors and one by words, over the chunks the filters let  *)
(* through, are fused by reciprocal rank and may be ranked again.          *)
(***************************************************************************)
EXTENDS Rankings

CONSTANTS
  RankConstant,      \* rank_constant
  RerankerLimit,     \* reranker_candidate_limit
  Model              \* the embedding model and version in force

ASSUME RetrievalAssumption == RankConstant \in Nat /\ RerankerLimit \in Nat \ {0}

(* _apply_filters: an empty filter lets every value through.               *)
Passes(chunk, filters) ==
  /\ chunk.active /\ chunk.ingestion # "failed"
  /\ filters.filings = {} \/ chunk.filing \in filters.filings
  /\ filters.sections = {} \/ chunk.section \in filters.sections

DenseSearch(chunks, filters, limit) ==
  Top(RankedAmong(chunks,
                  {k \in DOMAIN chunks : /\ chunks[k].dense # 0 /\ chunks[k].model = Model
                                         /\ chunks[k].dense >= filters.minSimilarity
                                         /\ Passes(chunks[k], filters)},
                  LAMBDA c : c.dense), limit)

LexicalSearch(chunks, filters, limit) ==
  Top(RankedAmong(chunks,
                  {k \in DOMAIN chunks : chunks[k].lexical # 0 /\ Passes(chunks[k], filters)},
                  LAMBDA c : c.lexical), limit)

(* 1 / (rank_constant + rank), in ten-millionths; nothing for a chunk that *)
(* a search did not find.                                                  *)
RankOf(results, chunk) ==
  IF \E k \in DOMAIN results : results[k].id = chunk.id
  THEN CHOOSE k \in DOMAIN results : results[k].id = chunk.id ELSE 0
Share(results, chunk) ==
  IF RankOf(results, chunk) = 0 THEN 0
  ELSE 10000000 \div (RankConstant + RankOf(results, chunk))

FusionScore(dense, lexical, chunk) == Share(dense, chunk) + Share(lexical, chunk)

(* A chunk that both found is a candidate once, where it came first.       *)
ReciprocalRankFusion(dense, lexical) ==
  LET results == dense \o lexical IN
  RankedAmong(results, {k \in DOMAIN results : \A j \in 1..k - 1 : results[j].id # results[k].id},
              LAMBDA c : FusionScore(dense, lexical, c))

(* The reranker scores the candidates against the query, best first.       *)
Rerank(candidates, relevance, k) == Top(Ranked(candidates, LAMBDA c : relevance[c.id]), k)

Fused(chunks, request) ==
  Top(ReciprocalRankFusion(DenseSearch(chunks, request.filters, request.candidateK),
                           LexicalSearch(chunks, request.filters, request.candidateK)),
      IF request.candidateK < RerankerLimit THEN request.candidateK ELSE RerankerLimit)

HybridSearch(chunks, request) ==
  Top(IF request.rerank THEN Rerank(Fused(chunks, request), request.relevance, request.topK)
      ELSE Fused(chunks, request),
      request.topK)

=============================================================================
