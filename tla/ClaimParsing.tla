----------------------------- MODULE ClaimParsing -----------------------------
(***************************************************************************)
(* How a passage's sentences are read as financial claims without a model  *)
(* (financial_claim_extraction_service.py), with the metric, the numbers   *)
(* and the comparison it names (financial_metric_registry.py,              *)
(* financial_number_parser.py, financial_periods.py).                      *)
(*                                                                         *)
(* A text is a sequence of sentences, a sentence the sequence of its       *)
(* words; a number with its sign, scale and unit is one word, known by     *)
(* NumberOf.  Amounts are whole numbers of ten-thousandths.                *)
(***************************************************************************)
EXTENDS FactVerification, Selection

CONSTANTS
  NumberOf,  \* the words that are numbers: [amount, currency, negative, scale, unit]
  ScaleOf,   \* what "", "m" (million) and "b" (billion) multiply a number by
  TermsIn,   \* the terms found inside a word, when they are not the word alone
  Registry   \* the active metrics, in order: [name, aliases], an alias a sequence of words

ASSUME ParsingAssumption ==
  /\ \A word \in DOMAIN NumberOf : NumberOf[word].amount \in Nat
  /\ \A scale \in DOMAIN ScaleOf : ScaleOf[scale] \in Nat \ {0}

IncreaseTerms  == {"increase", "increased", "higher", "grew", "growth", "improved"}
DecreaseTerms  == {"decrease", "decreased", "lower", "declined", "reduced", "fell"}
UnchangedTerms == {"unchanged", "flat", "consistent", "stable"}
FinancialTerms == {"revenue", "sales", "gross", "margin", "income", "cash", "debt",
                   "borrowings", "eps", "liquidity"}

(* Terms are looked for anywhere in the text, inside other words too.      *)
TermsOf(word) == IF word \in DOMAIN TermsIn THEN TermsIn[word] ELSE {word}
Mentions(sentence, terms) == \E k \in DOMAIN sentence : TermsOf(sentence[k]) \cap terms # {}
Says(sentence, phrase) ==
  \E k \in DOMAIN sentence : IsPrefix(phrase, SubSeq(sentence, k, Len(sentence)))

-----------------------------------------------------------------------------
(* parse_financial_number: the unit decides before the currency, and only  *)
(* an amount of money, of shares or of nothing is scaled.                  *)
ParsedNumber(number) ==
  LET scaled == number.amount * ScaleOf[number.scale]
      signed(value) == IF number.negative THEN -value ELSE value
      parsed(value, unit) == [value |-> signed(value), unit |-> unit]
  IN  IF number.unit = "basis points" THEN parsed(number.amount \div 100, "percentage_points")
      ELSE IF number.unit = "percentage points" THEN parsed(number.amount, "percentage_points")
      ELSE IF number.unit = "percent" THEN parsed(number.amount, "percent")
      ELSE IF number.unit = "per share" THEN parsed(scaled, "USD/share")
      ELSE parsed(scaled, IF number.currency THEN "USD" ELSE "absolute")

ParseAllNumbers(sentence) ==
  LET words == Only(sentence, {k \in DOMAIN sentence : sentence[k] \in DOMAIN NumberOf}) IN
  [k \in DOMAIN words |-> ParsedNumber(NumberOf[words[k]])]

(* parse_comparison_basis: the first of these with a phrase in the text.   *)
BasisPhrases ==
  << [basis |-> "prior_quarter",
      phrases |-> {<<"prior", "quarter">>, <<"sequentially">>, <<"quarter", "over", "quarter">>,
                   <<"qoq">>}],
     [basis |-> "prior_year_quarter",
      phrases |-> {<<"same", "quarter", "last", "year">>, <<"prior-year", "quarter">>,
                   <<"prior", "year", "quarter">>}],
     [basis |-> "same_period_prior_year",
      phrases |-> {<<"same", "period", "last", "year">>, <<"same", "period", "prior", "year">>,
                   <<"year", "over", "year">>, <<"year-over-year">>, <<"yoy">>}],
     [basis |-> "prior_year_ytd",
      phrases |-> {<<"prior-year", "ytd">>, <<"prior", "year", "ytd">>,
                   <<"prior-year", "year", "to", "date">>}],
     [basis |-> "year_to_date",
      phrases |-> {<<"six", "months", "ended">>, <<"nine", "months", "ended">>,
                   <<"year", "to", "date">>, <<"ytd">>}] >>

ComparisonBasis(sentence) ==
  LET named == SelectSeq(BasisPhrases,
                         LAMBDA b : \E phrase \in b.phrases : Says(sentence, phrase))
  IN  IF named = <<>> THEN "none" ELSE named[1].basis

(* _contains_phrase, for each alias of each metric.                        *)
NamedIn(sentence) ==
  {m \in DOMAIN Registry : \E a \in DOMAIN Registry[m].aliases :
                             Says(sentence, Registry[m].aliases[a])}

(* An alias that is the whole text decides; the same metric counts once    *)
(* for each of its aliases that is.                                        *)
ExactAliases(sentence) ==
  {x \in UNION {{m} \X (DOMAIN Registry[m].aliases) : m \in DOMAIN Registry} :
     Registry[x[1]].aliases[x[2]] = sentence}

(* resolve_metric, without a provider.                                     *)
ResolveMetric(sentence) ==
  LET exact == ExactAliases(sentence)
      named == NamedIn(sentence)
      resolved(m) == [status |-> "resolved", metric |-> Registry[m].name]
  IN  IF \E x \in exact : exact = {x} THEN resolved((CHOOSE x \in exact : TRUE)[1])
      ELSE IF exact # {} THEN [status |-> "ambiguous", metric |-> "none"]
      ELSE IF \E m \in named : named = {m} THEN resolved(CHOOSE m \in named : TRUE)
      ELSE [status |-> IF named = {} THEN "unsupported" ELSE "ambiguous",
            metric |-> "none"]

-----------------------------------------------------------------------------
(* An increase is looked for first, then a decrease.                       *)
Direction(sentence) ==
  IF Mentions(sentence, IncreaseTerms) THEN "increase"
  ELSE IF Mentions(sentence, DecreaseTerms) THEN "decrease"
  ELSE IF Mentions(sentence, UnchangedTerms) THEN "unchanged" ELSE "none"

LooksFinancial(sentence) ==
  Mentions(sentence, FinancialTerms) \/ Says(sentence, <<"earnings", "per", "share">>)

ClaimType(numbers, direction, basis) ==
  IF numbers = <<>>
  THEN IF direction # "none" THEN "directional_change" ELSE "qualitative_financial_claim"
  ELSE IF numbers[1].unit = "percent" /\ (direction # "none" \/ basis # "none")
  THEN "percentage_change"
  ELSE IF numbers[1].unit = "percentage_points" THEN "percentage_point_change"
  ELSE IF direction # "none" /\ basis # "none" THEN "comparative_statement"
  ELSE "absolute_value"

ClaimOfChangeAsValue(sentence) ==   \* mutant: any number is the reported value
  LET numbers == ParseAllNumbers(sentence)
      direction == Direction(sentence)
      basis == ComparisonBasis(sentence)
      resolution == ResolveMetric(sentence)
      value == IF numbers = <<>> THEN Missing ELSE Given(numbers[1].value)
  IN  [text |-> sentence, metric |-> resolution.metric,
       type |-> ClaimType(numbers, direction, basis), direction |-> direction, basis |-> basis,
       value |-> value, change |-> Missing, unit |-> "none",
       confidence |-> IF resolution.status = "resolved" /\ numbers # <<>>
                      THEN 9500 ELSE 7000]

(* Only the first number of a sentence counts, and only as the type says.  *)
ClaimOf(sentence) ==
  LET numbers == ParseAllNumbers(sentence)
      direction == Direction(sentence)
      basis == ComparisonBasis(sentence)
      type == ClaimType(numbers, direction, basis)
      resolution == ResolveMetric(sentence)
      reported(types) == IF numbers # <<>> /\ type \in types THEN Given(numbers[1].value) ELSE Missing
  IN  [text |-> sentence, metric |-> resolution.metric, type |-> type,
       direction |-> direction, basis |-> basis,
       value |-> reported({"absolute_value"}),
       change |-> reported({"percentage_change", "percentage_point_change"}),
       unit |-> IF type \in {"absolute_value", "percentage_change", "percentage_point_change"}
                THEN numbers[1].unit ELSE "none",
       confidence |-> IF resolution.status = "resolved" /\ numbers # <<>>
                      THEN 9500 ELSE 7000]

DeterministicExtract(text) ==
  LET financial == Only(text, {k \in DOMAIN text : LooksFinancial(text[k])}) IN
  [k \in DOMAIN financial |-> ClaimOf(financial[k])]

(* The model is asked only when nothing was read without it.               *)
HybridExtract(text, fromModel) ==
  LET deterministic == DeterministicExtract(text) IN
  IF deterministic # <<>> THEN deterministic ELSE fromModel

(* persist_extractions: of a passage's claims with the same text and       *)
(* metric, the first stored stays.                                         *)
Upsert(stored, claim) ==
  IF \E k \in DOMAIN stored : stored[k].text = claim.text /\ stored[k].metric = claim.metric
  THEN stored ELSE Append(stored, claim)
PersistExtractions(stored, extracted) ==
  LET after[k \in 0..Len(extracted)] ==
        IF k = 0 THEN stored ELSE Upsert(after[k - 1], extracted[k])
  IN  after[Len(extracted)]

=============================================================================
