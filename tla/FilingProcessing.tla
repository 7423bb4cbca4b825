-------------------------- MODULE FilingProcessing --------------------------
(* Processing of one filing (services/filing_processing_service.py): its      *)
(* document is loaded, parsed, cut into chunks and embedded, by messages of   *)
(* the process_filing actor and by analysis workflows that find the filing    *)
(* not ready, while the ingestion service stores documents and deployments    *)
(* change versions.                                                           *)
(*                                                                            *)
(* An attempt works in one transaction.  Its rows are a draft nobody sees     *)
(* until Finish, or the handler of a failing stage, commits it; an error of   *)
(* the session itself, the time limit or a crash rolls it back.               *)
EXTENDS Naturals, FiniteSets

CONSTANTS Docs,        \* documents the object storage may hold for the filing
          Text,        \* Text[d]: the normalized text of its sections
          Tables,      \* Tables[d]: the content of its tables
          Pieces,      \* Pieces[d]: how many chunks it is cut into, 0: no section
          BatchSize,   \* texts per call of the embedding provider
          MaxRetries,  \* max_retries of the actor
          Nil,         \* no document, no attempt, no message
          Budgets      \* bounds: how many requests, faults, ingestions and
                       \* changes of version a behaviour may have

ASSUME Assumptions ==
  /\ Pieces \in [Docs -> Nat] /\ Nil \notin Docs
  /\ \A d, e \in Docs : Text[d] = Text[e] /\ Tables[d] = Tables[e] => Pieces[d] = Pieces[e]
  /\ BatchSize \in Nat \ {0} /\ MaxRetries \in Nat
  /\ Nil \notin Nat
  /\ Budgets \subseteq [{"requests", "faults", "ingests", "drifts"} -> Nat]

Fields == {"parser", "tables", "chunker", "model"}
Versions == [Fields -> 1..2]
Stages == {"load", "parse", "chunk", "embed"}
Statuses == {"pending", "downloaded", "failed", "processed"}
Retries == 0..MaxRetries

VARIABLES
  stored,     \* the document in the object storage
  filing,     \* the row of the filing: status, and whether it has a storage key
  rows,       \* committed sections, tables, chunks, embeddings and stages
  config,     \* versions a new session is started with
  queue,      \* retries left -> messages waiting
  lock,       \* the advisory lock: free, held, or held by a dead session
  attempt,    \* the attempt that holds it
  ingest,     \* a running ingestion
  left,       \* requests, faults, ingestions and version changes to come
  kept,       \* embeddings asked for and committed
  twice,      \* one of those was asked for again
  replaced,   \* a stored document was replaced by another
  unanswered, \* no attempt begun since the last request has committed
  lost        \* a message left the queue without a committed attempt of its own

vars == <<stored, filing, rows, config, queue, lock, attempt, ingest, left, kept, twice,
          replaced, unanswered, lost>>
history == <<kept, twice, replaced, unanswered, lost>>

NoModels == [i \in {} |-> 0]
NoRows == [sections |-> {}, tables |-> {}, cut |-> {}, models |-> NoModels,
           stages |-> [s \in Stages |-> "none"]]

Init ==
  /\ stored = Nil
  /\ filing = [status |-> "pending", key |-> FALSE]
  /\ rows = NoRows
  /\ config = [f \in Fields |-> 1]
  /\ queue = [r \in Retries |-> 0]
  /\ lock = "free"
  /\ attempt = Nil
  /\ ingest = Nil
  /\ left \in Budgets
  /\ kept = {} /\ twice = FALSE /\ replaced = FALSE /\ unanswered = FALSE /\ lost = FALSE

Spend(budget) == left[budget] > 0 /\ left' = [left EXCEPT ![budget] = @ - 1]

-----------------------------------------------------------------------------
(* What the stages make of a document d under versions c: its sections, its   *)
(* tables and its chunks, each by what it was made from.                      *)

Sections(d, c) ==
  IF Pieces[d] = 0 THEN {} ELSE {[text |-> Text[d], parser |-> c["parser"]]}
TableRows(d, c) == {[content |-> Tables[d], version |-> c["tables"]]}
Cut(d, c) ==
  IF Pieces[d] = 0 THEN {}
  ELSE {[text |-> Text[d], tables |-> Tables[d], parser |-> c["parser"],
         chunker |-> c["chunker"]]}

WithSectionsOnly(r, d, c) ==   \* mutant: chunks do not go with their sections
  IF r.sections = Sections(d, c) THEN r
  ELSE [r EXCEPT !.sections = Sections(d, c), !.tables = TableRows(d, c)]

(* replace_sections_and_tables: all or nothing, decided by the sections; the  *)
(* chunks of a deleted section go with it.                                    *)
WithSections(r, d, c) ==
  IF r.sections = Sections(d, c) THEN r
  ELSE [r EXCEPT !.sections = Sections(d, c), !.tables = TableRows(d, c),
                 !.cut = {}, !.models = NoModels]

WithFirstChunks(r, d, c) ==   \* mutant: chunks are compared by their number only
  IF DOMAIN r.models = 1..Pieces[d] THEN r
  ELSE [r EXCEPT !.cut = Cut(d, c), !.models = [i \in 1..Pieces[d] |-> 0]]

(* replace_chunks: new chunks have no embedding (0).                          *)
WithChunks(r, d, c) ==
  IF r.cut = Cut(d, c) THEN r
  ELSE [r EXCEPT !.cut = Cut(d, c), !.models = [i \in 1..Pieces[d] |-> 0]]

ToEmbed(r, c) == {i \in DOMAIN r.models : r.models[i] # c["model"]}
Batch(r, c) ==
  {i \in ToEmbed(r, c) : Cardinality({j \in ToEmbed(r, c) : j < i}) < BatchSize}
Embedded(r, c) ==
  [r EXCEPT !.models = [i \in DOMAIN @ |-> IF i \in Batch(r, c) THEN c["model"] ELSE @[i]]]
Asked(r, c) == {[cut |-> r.cut, piece |-> i, model |-> c["model"]] : i \in Batch(r, c)}

(* _has_processing_ready of the analysis workflow.                            *)
Ready(r, c) == r.sections # {} /\ DOMAIN r.models # {} /\ ToEmbed(r, c) = {}

-----------------------------------------------------------------------------
(* Requests: POST /filings/{id}/process sends a message.                      *)
Post ==
  /\ Spend("requests")
  /\ queue' = [queue EXCEPT ![MaxRetries] = @ + 1]
  /\ unanswered' = TRUE
  /\ attempt' = IF attempt = Nil THEN Nil ELSE [attempt EXCEPT !.fresh = FALSE]
  /\ UNCHANGED <<stored, filing, rows, config, lock, ingest, kept, twice, replaced, lost>>

Taken(r) == [queue EXCEPT ![r] = @ - 1]
ReturnedOrNot(r) == queue   \* mutant: a message is gone once its attempt has failed
(* The actor raised: the broker sends the message again while it has retries. *)
Returned(r) == IF r \in Retries \ {0} THEN [queue EXCEPT ![r - 1] = @ + 1] ELSE queue
Exhausted(r) == r = 0

(* process_filing finds the lock free.                                        *)
Started(m) ==
  [message |-> m, at |-> "load", status |-> filing.status, doc |-> Nil, config |-> config,
   draft |-> rows, asked |-> {}, fresh |-> TRUE]

Begin(r) ==
  /\ queue[r] > 0 /\ lock = "free" /\ filing.key
  /\ queue' = Taken(r)
  /\ lock' = "held"
  /\ attempt' = Started(r)
  /\ UNCHANGED <<stored, filing, rows, config, ingest, left, history>>

(* ensure_filings_processed of a workflow, which has no message of its own.   *)
BeginInWorkflow ==
  /\ lock = "free" /\ filing.key /\ filing.status # "failed" /\ ~Ready(rows, config)
  /\ Spend("requests")
  /\ lock' = "held"
  /\ attempt' = Started(Nil)
  /\ UNCHANGED <<stored, filing, rows, config, queue, ingest, history>>

(* The filing has no stored document: the attempt raises before any stage.    *)
Refuse(r) ==
  /\ queue[r] > 0 /\ lock = "free" /\ ~filing.key
  /\ queue' = IF Exhausted(r) THEN Taken(r)
              ELSE [queue EXCEPT ![r] = @ - 1, ![r - 1] = @ + 1]
  /\ lost' = (lost \/ Exhausted(r))
  /\ UNCHANGED <<stored, filing, rows, config, lock, attempt, ingest, left, kept, twice,
                 replaced, unanswered>>

(* The lock is held: the message is answered with already_running.            *)
Duplicate(r) ==
  /\ queue[r] > 0 /\ lock # "free"
  /\ queue' = Taken(r)
  /\ lost' = TRUE
  /\ UNCHANGED <<stored, filing, rows, config, lock, attempt, ingest, left, kept, twice,
                 replaced, unanswered>>

-----------------------------------------------------------------------------
(* The stages of an attempt.                                                  *)

Draft == attempt.draft
Completed(r, s) == [r EXCEPT !.stages[s] = "completed"]
private == <<stored, filing, rows, config, queue, lock, ingest, left>>

Advance(s, next, draft) ==
  attempt' = [attempt EXCEPT !.at = next, !.draft = Completed(draft, s)]

Load ==
  /\ attempt # Nil /\ attempt.at = "load"
  /\ attempt' = [attempt EXCEPT !.at = "parse", !.doc = stored,
                                !.draft = Completed(Draft, "load")]
  /\ UNCHANGED <<private, history>>

Parse ==
  /\ attempt # Nil /\ attempt.at = "parse"
  /\ Advance("parse", "chunk", WithSections(Draft, attempt.doc, attempt.config))
  /\ UNCHANGED <<private, history>>

Chunk ==
  /\ attempt # Nil /\ attempt.at = "chunk"
  /\ Advance("chunk", "embed", WithChunks(Draft, attempt.doc, attempt.config))
  /\ UNCHANGED <<private, history>>

(* One call of the provider, whose vectors are flushed as they come.          *)
EmbedBatch ==
  /\ attempt # Nil /\ attempt.at = "embed" /\ ToEmbed(Draft, attempt.config) # {}
  /\ LET asked == Asked(Draft, attempt.config) IN
       /\ attempt' = [attempt EXCEPT !.draft = Embedded(Draft, attempt.config),
                                     !.asked = @ \cup asked]
       /\ twice' = (twice \/ asked \cap (kept \cup attempt.asked) # {})
  /\ UNCHANGED <<private, kept, replaced, unanswered, lost>>

(* The attempt's transaction is committed with rows r.                        *)
Commit(r) ==
  /\ rows' = r
  /\ kept' = kept \cup attempt.asked
  /\ unanswered' = (unanswered /\ ~attempt.fresh)

(* The finally clause of process_filing, or the end of its invocation.        *)
Released == "free"

Over == attempt' = Nil /\ lock' = Released

(* The last stage ends and the attempt is committed.  An UPDATE writes what   *)
(* changed since the row was loaded: the status of a filing that was loaded   *)
(* as processed is not written.                                               *)
Finish ==
  /\ attempt # Nil /\ attempt.at = "embed" /\ ToEmbed(Draft, attempt.config) = {}
  /\ Commit(Completed(Draft, "embed"))
  /\ filing' = [filing EXCEPT !.status = IF attempt.status = "processed" THEN @ ELSE "processed"]
  /\ Over
  /\ UNCHANGED <<stored, config, queue, ingest, left, twice, replaced, lost>>

FailedAlone ==   \* mutant: what the earlier stages flushed is rolled back
  [rows EXCEPT !.stages[attempt.at] = "failed"]
FailedRows == [Draft EXCEPT !.stages[attempt.at] = "failed"]

(* A stage raises: fail_stage, a commit, and the error goes to the actor.     *)
FailStage ==
  /\ attempt # Nil
  /\ Spend("faults")
  /\ Commit(FailedRows)
  /\ queue' = Returned(attempt.message)
  /\ Over
  /\ UNCHANGED <<stored, filing, config, ingest, twice, replaced, lost>>

(* The session fails, a statement outside the stages does, or the time limit  *)
(* strikes: no handler commits.                                               *)
LoseSession ==
  /\ attempt # Nil
  /\ Spend("faults")
  /\ queue' = Returned(attempt.message)
  /\ lost' = (lost \/ Exhausted(attempt.message))
  /\ Over
  /\ UNCHANGED <<stored, filing, rows, config, ingest, kept, twice, replaced, unanswered>>

(* The worker dies.  Redis gives its message to another one; the lock stays   *)
(* until the server notices that the session is gone.                         *)
Crash ==
  /\ attempt # Nil
  /\ Spend("faults")
  /\ queue' = IF attempt.message = Nil THEN queue
              ELSE [queue EXCEPT ![attempt.message] = @ + 1]
  /\ lock' = "dead"
  /\ attempt' = Nil
  /\ UNCHANGED <<stored, filing, rows, config, ingest, history>>

Reap ==
  /\ lock = "dead"
  /\ lock' = "free"
  /\ UNCHANGED <<stored, filing, rows, config, queue, attempt, ingest, left, history>>

-----------------------------------------------------------------------------
(* Ingestion takes no filing lock, and stores the bytes before it commits.    *)

StartIngest ==
  /\ ingest = Nil
  /\ Spend("ingests")
  /\ ingest' = [status |-> filing.status, put |-> FALSE]
  /\ UNCHANGED <<stored, filing, rows, config, queue, lock, attempt, history>>

StoreDocument(d) ==
  /\ ingest # Nil /\ ~ingest.put
  /\ stored' = d
  /\ replaced' = (replaced \/ stored \notin {Nil, d})
  /\ ingest' = [ingest EXCEPT !.put = TRUE]
  /\ UNCHANGED <<filing, rows, config, queue, lock, attempt, left, kept, twice, unanswered,
                 lost>>

Noted(status) == IF ingest.status = status THEN filing.status ELSE status

CommitIngest ==
  /\ ingest # Nil /\ ingest.put
  /\ filing' = [status |-> Noted("downloaded"), key |-> TRUE]
  /\ ingest' = Nil
  /\ UNCHANGED <<stored, rows, config, queue, lock, attempt, left, history>>

FailDownload ==
  /\ ingest # Nil /\ ~ingest.put
  /\ filing' = [filing EXCEPT !.status = Noted("failed")]
  /\ ingest' = Nil
  /\ UNCHANGED <<stored, rows, config, queue, lock, attempt, left, history>>

(* A later step of the ingestion raises; the stored bytes stay.               *)
AbandonIngest ==
  /\ ingest # Nil
  /\ ingest' = Nil
  /\ UNCHANGED <<stored, filing, rows, config, queue, lock, attempt, left, history>>

(* A deployment changes a version; running attempts keep theirs.              *)
Drift(f) ==
  /\ config[f] = 1
  /\ Spend("drifts")
  /\ config' = [config EXCEPT ![f] = 2]
  /\ UNCHANGED <<stored, filing, rows, queue, lock, attempt, ingest, history>>

-----------------------------------------------------------------------------
Deliver == \E r \in Retries : Begin(r) \/ Refuse(r) \/ Duplicate(r)
Work == Load \/ Parse \/ Chunk \/ EmbedBatch \/ Finish

Next ==
  \/ Post \/ BeginInWorkflow \/ Deliver \/ Work
  \/ FailStage \/ LoseSession \/ Crash \/ Reap
  \/ StartIngest \/ CommitIngest \/ FailDownload \/ AbandonIngest
  \/ \E d \in Docs : StoreDocument(d)
  \/ \E f \in Fields : Drift(f)

Spec == Init /\ [][Next]_vars

(* Workers take messages, a stage ends (the provider's calls and the          *)
(* storage's have timeouts), the server notices dead sessions.                *)
LiveSpec == Spec /\ WF_vars(Deliver) /\ WF_vars(Work) /\ WF_vars(Reap)

-----------------------------------------------------------------------------
Texts == {Text[d] : d \in Docs}
Contents == {Tables[d] : d \in Docs}
Cuts == [text : Texts, tables : Contents, parser : 1..2, chunker : 1..2]
SomeModels == UNION {[1..Pieces[d] -> 0..2] : d \in Docs}
Rows ==
  [sections : SUBSET [text : Texts, parser : 1..2],
   tables : SUBSET [content : Contents, version : 1..2],
   cut : SUBSET Cuts,
   models : SomeModels \cup {NoModels},
   stages : [Stages -> {"none", "completed", "failed"}]]
Keys == [cut : SUBSET Cuts, piece : Nat, model : 1..2]
Attempts ==
  [message : Retries \cup {Nil}, at : Stages, status : Statuses, doc : Docs \cup {Nil},
   config : Versions, draft : Rows, fresh : BOOLEAN,
   asked : SUBSET Keys]

ASSUME NotNil == Nil \notin Attempts

(* Types, and that an attempt runs exactly while its session holds the lock.  *)
TypeOK ==
  /\ stored \in Docs \cup {Nil} /\ (filing.key => stored # Nil)
  /\ filing \in [status : Statuses, key : BOOLEAN]
  /\ rows \in Rows
  /\ config \in Versions
  /\ queue \in [Retries -> Nat]
  /\ lock \in {"free", "held", "dead"} /\ (lock = "held" <=> attempt # Nil)
  /\ attempt # Nil => /\ attempt \in Attempts /\ filing.key
                      /\ (attempt.at # "load" => attempt.doc \in Docs)
  /\ ingest # Nil => /\ ingest \in [status : Statuses, put : BOOLEAN]
                     /\ (ingest.put => stored # Nil)

(* Sections and chunks come from one parse of one document, every chunk of it *)
(* is there, and each was embedded by the model m.                            *)
WholeBy(r, m) ==
  \E d \in Docs, c \in Versions :
    /\ Pieces[d] > 0
    /\ r.sections = Sections(d, c) /\ r.cut = Cut(d, c)
    /\ r.models = [i \in 1..Pieces[d] |-> m]

(* A workflow that finds the filing ready finds whole rows, although failing  *)
(* stages commit halfway, re-parses delete chunks and three counts are all it *)
(* looks at.                                                                  *)
ReadyIsWhole == Ready(rows, config) => WholeBy(rows, config["model"])

(* When the rows say that the four stages completed, they belong to one       *)
(* attempt: whole rows, or no sections and no chunks.                         *)
AllCompletedIsWhole ==
  (\A s \in Stages : rows.stages[s] = "completed") =>
    \/ \E m \in 1..2 : WholeBy(rows, m)
    \/ rows.sections = {} /\ rows.cut = {}

(* A filing becomes processed only with the sections, the chunks (text and    *)
(* tables) and the embeddings of the document and the versions its attempt    *)
(* began with, whatever earlier attempts left behind.                         *)
BecomesProcessedWhole ==
  [][filing.status # "processed" /\ filing'.status = "processed" =>
       LET d == attempt.doc  c == attempt.config IN
         /\ rows'.sections = Sections(d, c) /\ rows'.cut = Cut(d, c)
         /\ rows'.models = [i \in 1..Pieces[d] |-> c["model"]]]_vars

(* While the document stays the same, no chunk whose embedding was committed  *)
(* is sent to the provider again for the same model: not by retries, by       *)
(* duplicate messages, by a workflow, or after a stage failed halfway.        *)
PaidForOnce == twice => replaced

(* A request leads to an attempt begun after it whose outcome is committed,   *)
(* unless a message was answered with already_running or used up its retries. *)
RequestIsAnswered == unanswered ~> (~unanswered \/ lost)
=============================================================================
