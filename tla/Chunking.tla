------------------------------- MODULE Chunking -------------------------------
(***************************************************************************)
(* How a parsed filing is cut into chunks for retrieval                    *)
(* (chunking_service.py).  A word is a number, a sentence or a table the   *)
(* sequence of its words, a paragraph the sequence of its sentences;       *)
(* characters and their offsets are left out.                              *)
(***************************************************************************)
EXTENDS Naturals, Sequences, SequencesExt

CONSTANTS
  MaxTokens,      \* chunk_max_tokens
  OverlapTokens   \* chunk_overlap_tokens

(* What ChunkingService and the settings demand.                           *)
ASSUME ChunkingAssumption ==
  /\ MaxTokens \in Nat \ {0}
  /\ OverlapTokens \in 0..(MaxTokens - 1)

LastWords(words, n) ==
  IF Len(words) <= n THEN words ELSE SubSeq(words, Len(words) - n + 1, Len(words))

(* What a loop has closed, and what it is putting together.                *)
Nothing == [closed |-> <<>>, open |-> <<>>]
Overflows(cut, words) == cut.open # <<>> /\ Len(cut.open) + Len(words) > MaxTokens
Flushed(cut) == IF cut.open = <<>> THEN cut.closed ELSE Append(cut.closed, cut.open)

Slices(words) ==
  [k \in 1..((Len(words) + MaxTokens - 1) \div MaxTokens) |->
     SubSeq(words, (k - 1) * MaxTokens + 1,
            IF k * MaxTokens < Len(words) THEN k * MaxTokens ELSE Len(words))]

(* A sentence longer than a chunk is sliced; the others are packed.        *)
PackSentence(cut, sentence) ==
  LET closed == IF Overflows(cut, sentence) THEN Flushed(cut) ELSE cut.closed
      open   == IF Overflows(cut, sentence) THEN <<>> ELSE cut.open
  IN  IF Len(sentence) > MaxTokens
      THEN [closed |-> closed \o Slices(sentence), open |-> open]
      ELSE [closed |-> closed, open |-> open \o sentence]

SplitLargeParagraph(paragraph) ==
  LET packed[k \in 0..Len(paragraph)] ==
        IF k = 0 THEN Nothing ELSE PackSentence(packed[k - 1], paragraph[k])
  IN  Flushed(packed[Len(paragraph)])

Pieces(paragraph) ==
  IF Len(FlattenSeq(paragraph)) > MaxTokens THEN SplitLargeParagraph(paragraph)
  ELSE IF FlattenSeq(paragraph) = <<>> THEN <<>> ELSE <<FlattenSeq(paragraph)>>

AppendOrFlushBare(cut, words) ==   \* mutant: the next chunk starts with the overlap of itself
  IF Overflows(cut, words)
  THEN [closed |-> Append(cut.closed, cut.open), open |-> LastWords(words, OverlapTokens)]
  ELSE [cut EXCEPT !.open = @ \o words]

(* A chunk starts with the last words of the one before it.                *)
AppendOrFlush(cut, words) ==
  IF Overflows(cut, words)
  THEN [closed |-> Append(cut.closed, cut.open),
        open |-> LastWords(cut.open, OverlapTokens) \o words]
  ELSE [cut EXCEPT !.open = @ \o words]

ChunkSectionText(paragraphs) ==
  LET pieces == FlattenSeq([k \in DOMAIN paragraphs |-> Pieces(paragraphs[k])])
      cut[k \in 0..Len(pieces)] ==
        IF k = 0 THEN Nothing ELSE AppendOrFlush(cut[k - 1], pieces[k])
  IN  Flushed(cut[Len(pieces)])

(* A section's text first, then each of its tables that has words, whole.  *)
SectionChunks(section) ==
  LET texts == ChunkSectionText(section.paragraphs)
      tables == section.tables
      chunks[k \in 0..Len(tables)] ==
        IF k = 0 THEN [j \in DOMAIN texts |-> [kind |-> "text", words |-> texts[j], local |-> j]]
        ELSE IF tables[k] = <<>> THEN chunks[k - 1]
        ELSE Append(chunks[k - 1], [kind |-> "table", words |-> tables[k], local |-> 0])
  IN  chunks[Len(tables)]

ChunkSections(sections) == FlattenSeq([k \in DOMAIN sections |-> SectionChunks(sections[k])])

=============================================================================
