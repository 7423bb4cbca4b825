------------------------ MODULE FilingProcessingProofs ------------------------
(* Proofs for FilingProcessing: whatever fails, is retried or is replaced,    *)
(* committed chunks belong to the committed sections, so that a filing found  *)
(* ready, recorded as completed or just processed is whole.                   *)
EXTENDS FilingProcessing, TLAPS

(* Chunks are absent, or those of the sections beside them.                   *)
Coherent(r) ==
  \/ r.cut = {} /\ r.models = NoModels
  \/ \E d \in Docs, c \in Versions :
       /\ Pieces[d] > 0
       /\ r.sections = Sections(d, c) /\ r.cut = Cut(d, c)
       /\ r.models \in [1..Pieces[d] -> 0..2]

(* A draft holds what the stages before a.at made of the attempt's document.  *)
InStep(a) ==
  /\ a.at \in {"chunk", "embed"} => a.draft.sections = Sections(a.doc, a.config)
  /\ a.at = "embed" => a.draft.cut = Cut(a.doc, a.config)

Inv ==
  /\ TypeOK
  /\ Coherent(rows)
  /\ AllCompletedIsWhole
  /\ attempt # Nil => Coherent(attempt.draft) /\ InStep(attempt)

USE DEF Stages, Statuses, Fields

-----------------------------------------------------------------------------
(* What the operators on rows return.                                         *)

(* Sections and chunks of a document are absent together, and what was cut    *)
(* tells how many pieces there are.                                           *)
LEMMA CutFacts ==
  ASSUME NEW d \in Docs, NEW e \in Docs, NEW c \in Versions, NEW f \in Versions
  PROVE  /\ Pieces[d] \in Nat /\ Pieces[e] \in Nat
         /\ Pieces[d] = 0 => Sections(d, c) = {} /\ Cut(d, c) = {}
         /\ Pieces[d] > 0 => Sections(d, c) # {} /\ Cut(d, c) # {}
         /\ Pieces[d] > 0 /\ Cut(d, c) = Cut(e, f) => Pieces[e] = Pieces[d]
<1>1. Pieces[d] \in Nat /\ Pieces[e] \in Nat
  BY Assumptions
<1>2. Pieces[d] > 0 /\ Cut(d, c) = Cut(e, f) => Pieces[e] = Pieces[d]
  <2> SUFFICES ASSUME Pieces[d] > 0, Cut(d, c) = Cut(e, f) PROVE Pieces[e] = Pieces[d]
    OBVIOUS
  <2> DEFINE x == [text |-> Text[d], tables |-> Tables[d], parser |-> c["parser"],
                   chunker |-> c["chunker"]]
             y == [text |-> Text[e], tables |-> Tables[e], parser |-> f["parser"],
                   chunker |-> f["chunker"]]
  <2>1. Cut(d, c) = {x}
    BY <1>1 DEF Cut
  <2>2. Cut(e, f) = IF Pieces[e] = 0 THEN {} ELSE {y}
    BY DEF Cut
  <2>3. x = y
    <3> HIDE DEF x, y
    <3> QED BY <2>1, <2>2
  <2>4. Text[d] = Text[e] /\ Tables[d] = Tables[e]
    <3>1. x.text = Text[d] /\ x.tables = Tables[d] /\ y.text = Text[e] /\ y.tables = Tables[e]
      OBVIOUS
    <3> QED BY <2>3, <3>1
  <2> QED BY <2>4, Assumptions
<1>3. Pieces[d] = 0 => Sections(d, c) = {} /\ Cut(d, c) = {}
  BY DEF Sections, Cut
<1>4. Pieces[d] > 0 => Sections(d, c) # {} /\ Cut(d, c) # {}
  <2>1. Pieces[d] > 0 => Pieces[d] # 0
    BY <1>1
  <2> QED BY <2>1, Zenon DEF Sections, Cut
<1> QED BY <1>1, <1>2, <1>3, <1>4

LEMMA MadeTypes ==
  ASSUME NEW d \in Docs, NEW c \in Versions
  PROVE  /\ c["model"] \in 1..2
         /\ Sections(d, c) \in SUBSET [text : Texts, parser : 1..2]
         /\ TableRows(d, c) \in SUBSET [content : Contents, version : 1..2]
         /\ Cut(d, c) \in SUBSET Cuts
BY DEF Sections, TableRows, Cut, Cuts, Texts, Contents, Versions

(* The fields of rows, and what an EXCEPT makes of them.                      *)
LEMMA RowsFields ==
  ASSUME NEW r \in Rows
  PROVE  /\ r.sections \in SUBSET [text : Texts, parser : 1..2]
         /\ r.tables \in SUBSET [content : Contents, version : 1..2]
         /\ r.cut \in SUBSET Cuts
         /\ r.models \in SomeModels \cup {NoModels}
         /\ r.stages \in [Stages -> {"none", "completed", "failed"}]
BY DEF Rows

(* Rows are put together from their fields.                                   *)
LEMMA MadeRows ==
  ASSUME NEW se \in SUBSET [text : Texts, parser : 1..2],
         NEW ta \in SUBSET [content : Contents, version : 1..2],
         NEW cu \in SUBSET Cuts,
         NEW mo \in SomeModels \cup {NoModels},
         NEW st \in [Stages -> {"none", "completed", "failed"}]
  PROVE  [sections |-> se, tables |-> ta, cut |-> cu, models |-> mo, stages |-> st] \in Rows
BY DEF Rows

LEMMA CompletedRows ==
  ASSUME NEW r \in Rows, NEW s \in Stages, NEW v \in {"completed", "failed"}
  PROVE  LET t == [r EXCEPT !.stages[s] = v] IN
           /\ t \in Rows
           /\ t.sections = r.sections /\ t.cut = r.cut /\ t.models = r.models
           /\ t.stages = [r.stages EXCEPT ![s] = v]
           /\ (Coherent(r) => Coherent(t))
<1> DEFINE t == [r EXCEPT !.stages[s] = v]
<1>1. /\ t.sections = r.sections /\ t.cut = r.cut /\ t.models = r.models /\ t.tables = r.tables
      /\ t.stages = [r.stages EXCEPT ![s] = v]
  BY DEF Rows
<1>2. t \in Rows
  BY DEF Rows
<1>3. Coherent(r) => Coherent(t)
  BY <1>1 DEF Coherent
<1> QED BY <1>1, <1>2, <1>3

LEMMA WithSectionsRows ==
  ASSUME NEW r \in Rows, Coherent(r), NEW d \in Docs, NEW c \in Versions
  PROVE  LET t == WithSections(r, d, c) IN
           t \in Rows /\ Coherent(t) /\ t.sections = Sections(d, c)
<1> DEFINE t == WithSections(r, d, c)
<1>1. CASE r.sections = Sections(d, c)
  BY <1>1 DEF WithSections
<1>2. CASE r.sections # Sections(d, c)
  <2>1. t = [r EXCEPT !.sections = Sections(d, c), !.tables = TableRows(d, c),
                      !.cut = {}, !.models = NoModels]
    BY <1>2 DEF WithSections
  <2>2. /\ t.sections = Sections(d, c) /\ t.tables = TableRows(d, c)
        /\ t.cut = {} /\ t.models = NoModels
    BY <2>1 DEF Rows
  <2>3. t \in Rows
    <3>1. t = [sections |-> Sections(d, c), tables |-> TableRows(d, c), cut |-> {},
               models |-> NoModels, stages |-> r.stages]
      BY <2>1 DEF Rows
    <3>2. /\ Sections(d, c) \in SUBSET [text : Texts, parser : 1..2]
          /\ TableRows(d, c) \in SUBSET [content : Contents, version : 1..2]
          /\ {} \in SUBSET Cuts
          /\ NoModels \in SomeModels \cup {NoModels}
          /\ r.stages \in [Stages -> {"none", "completed", "failed"}]
      BY MadeTypes, RowsFields
    <3> HIDE DEF t
    <3> QED BY <3>1, <3>2, MadeRows
  <2> QED BY <2>2, <2>3 DEF Coherent
<1> QED BY <1>1, <1>2

LEMMA WithChunksRows ==
  ASSUME NEW r \in Rows, Coherent(r), NEW d \in Docs, NEW c \in Versions,
         r.sections = Sections(d, c)
  PROVE  LET t == WithChunks(r, d, c) IN
           t \in Rows /\ Coherent(t) /\ t.sections = Sections(d, c) /\ t.cut = Cut(d, c)
<1> DEFINE t == WithChunks(r, d, c)
           m == [i \in 1..Pieces[d] |-> 0]
<1>1. CASE r.cut = Cut(d, c)
  BY <1>1 DEF WithChunks
<1>2. CASE r.cut # Cut(d, c)
  <2>1. t = [r EXCEPT !.cut = Cut(d, c), !.models = m]
    BY <1>2 DEF WithChunks
  <2>2. t.sections = r.sections /\ t.tables = r.tables /\ t.cut = Cut(d, c) /\ t.models = m
    BY <2>1 DEF Rows
  <2>3. m \in [1..Pieces[d] -> 0..2]
    OBVIOUS
  <2>4. t \in Rows
    <3>1. t = [sections |-> r.sections, tables |-> r.tables, cut |-> Cut(d, c),
               models |-> m, stages |-> r.stages]
      BY <2>1 DEF Rows
    <3>2. m \in SomeModels
      BY <2>3 DEF SomeModels
    <3> HIDE DEF m, t
    <3> QED BY <3>1, <3>2, MadeTypes, MadeRows, RowsFields
  <2>5. CASE Pieces[d] = 0
    <3>1. 1..Pieces[d] = {}
      BY <2>5
    <3>2. m = NoModels
      BY <3>1 DEF NoModels
    <3> QED BY <2>2, <2>4, <2>5, <3>2, CutFacts DEF Coherent
  <2>6. CASE Pieces[d] > 0
    BY <2>2, <2>3, <2>4, <2>6 DEF Coherent
  <2> QED BY <2>5, <2>6, CutFacts
<1> QED BY <1>1, <1>2

LEMMA EmbeddedRows ==
  ASSUME NEW r \in Rows, Coherent(r), NEW c \in Versions
  PROVE  LET t == Embedded(r, c) IN
           t \in Rows /\ Coherent(t) /\ t.sections = r.sections /\ t.cut = r.cut
<1> DEFINE t == Embedded(r, c)
           m == [i \in DOMAIN r.models |-> IF i \in Batch(r, c) THEN c["model"] ELSE r.models[i]]
<1>1. t = [r EXCEPT !.models = m]
  BY DEF Embedded, Rows
<1>2. t.sections = r.sections /\ t.cut = r.cut /\ t.models = m
  BY <1>1 DEF Rows
<1>3. \A n \in Nat : r.models \in [1..n -> 0..2] => m \in [1..n -> 0..2]
  <2> SUFFICES ASSUME NEW n \in Nat, r.models \in [1..n -> 0..2]
               PROVE  m \in [1..n -> 0..2]
    OBVIOUS
  <2>1. c["model"] \in 0..2
    BY DEF Versions
  <2>2. \A i \in 1..n : r.models[i] \in 0..2
    OBVIOUS
  <2> QED BY <2>1, <2>2
<1>4. r.models = NoModels => m = NoModels
  BY DEF NoModels
<1>5. t \in Rows
  <2>1. m \in SomeModels \cup {NoModels}
    <3>1. CASE r.models = NoModels
      <4> HIDE DEF m
      <4> QED BY <1>4, <3>1
    <3>2. CASE r.models \in SomeModels
      <4>1. PICK d \in Docs : r.models \in [1..Pieces[d] -> 0..2]
        BY <3>2 DEF SomeModels
      <4>2. Pieces[d] \in Nat
        BY Assumptions
      <4> HIDE DEF m
      <4>3. m \in [1..Pieces[d] -> 0..2]
        BY <1>3, <4>1, <4>2
      <4> QED BY <4>3 DEF SomeModels
    <3>3. r.models = NoModels \/ r.models \in SomeModels
      BY RowsFields
    <3> QED BY <3>1, <3>2, <3>3
  <2>2. t = [sections |-> r.sections, tables |-> r.tables, cut |-> r.cut,
             models |-> m, stages |-> r.stages]
    BY <1>1 DEF Rows
  <2> HIDE DEF m, t
  <2> QED BY <2>1, <2>2, MadeRows, RowsFields
<1>6. Coherent(t)
  BY <1>2, <1>3, <1>4, Assumptions DEF Coherent
<1> QED BY <1>2, <1>5, <1>6

(* Nothing left to embed: the rows of the document are whole.                 *)
LEMMA NothingLeft ==
  ASSUME NEW r \in Rows, Coherent(r), NEW d \in Docs, NEW c \in Versions,
         r.sections = Sections(d, c), r.cut = Cut(d, c), ToEmbed(r, c) = {}
  PROVE  /\ r.models = [i \in 1..Pieces[d] |-> c["model"]]
         /\ WholeBy(r, c["model"]) \/ (r.sections = {} /\ r.cut = {})
<1>1. CASE Pieces[d] = 0
  <2>1. r.cut = {} /\ r.sections = {} /\ 1..Pieces[d] = {}
    BY <1>1, CutFacts
  <2>2. r.models = NoModels
    BY <2>1, CutFacts DEF Coherent
  <2> QED BY <2>1, <2>2 DEF NoModels
<1>2. CASE Pieces[d] > 0
  <2>1. r.cut # {}
    BY <1>2, CutFacts
  <2>2. PICK e \in Docs, f \in Versions :
          Pieces[e] > 0 /\ r.cut = Cut(e, f) /\ r.models \in [1..Pieces[e] -> 0..2]
    BY <2>1 DEF Coherent
  <2>3. Pieces[e] = Pieces[d]
    BY <1>2, <2>2, CutFacts
  <2>4. r.models = [i \in 1..Pieces[d] |-> c["model"]]
    BY <2>2, <2>3 DEF ToEmbed
  <2> QED BY <1>2, <2>4 DEF WholeBy
<1> QED BY <1>1, <1>2, CutFacts

-----------------------------------------------------------------------------
(* The inductive invariant.                                                   *)

LEMMA AttemptFields ==
  ASSUME NEW a \in Attempts
  PROVE  /\ a.message \in Retries \cup {Nil} /\ a.at \in Stages /\ a.status \in Statuses
         /\ a.doc \in Docs \cup {Nil} /\ a.config \in Versions /\ a.draft \in Rows
         /\ a.fresh \in BOOLEAN
         /\ a.asked \in SUBSET Keys
BY DEF Attempts

(* An attempt put together from its fields.                                   *)
LEMMA MadeAttempt ==
  ASSUME NEW m \in Retries \cup {Nil}, NEW at \in Stages, NEW st \in Statuses,
         NEW d \in Docs \cup {Nil}, NEW c \in Versions, NEW r \in Rows,
         NEW k \in SUBSET Keys, NEW b \in BOOLEAN
  PROVE  [message |-> m, at |-> at, status |-> st, doc |-> d, config |-> c, draft |-> r,
          asked |-> k, fresh |-> b] \in Attempts
BY DEF Attempts

LEMMA InitInv == Init => Inv
<1> SUFFICES ASSUME Init PROVE Inv
  OBVIOUS
<1>1. NoRows \in Rows
  BY DEF NoRows, Rows
<1>2. /\ stored = Nil /\ filing = [status |-> "pending", key |-> FALSE] /\ rows = NoRows
      /\ config = [f \in Fields |-> 1] /\ queue = [r \in Retries |-> 0] /\ lock = "free"
      /\ attempt = Nil /\ ingest = Nil
  BY DEF Init
<1>3. TypeOK
  BY <1>1, <1>2 DEF TypeOK, Versions
<1>4. Coherent(rows)
  BY <1>2 DEF NoRows, Coherent
<1>5. AllCompletedIsWhole
  BY <1>2 DEF NoRows, AllCompletedIsWhole
<1> QED BY <1>2, <1>3, <1>4, <1>5 DEF Inv

(* The steps that leave rows and attempt alone.                               *)
LEMMA OutsideStep ==
  ASSUME Inv, rows' = rows, attempt' = attempt, TypeOK'
  PROVE  Inv'
BY DEF Inv, AllCompletedIsWhole, WholeBy, Coherent, InStep

(* The steps that end the attempt without committing it.                      *)
LEMMA DroppedStep ==
  ASSUME Inv, rows' = rows, attempt' = Nil, TypeOK'
  PROVE  Inv'
BY DEF Inv, AllCompletedIsWhole, WholeBy, Coherent, InStep

LEMMA QueueTypes ==
  ASSUME queue \in [Retries -> Nat], NEW r \in Retries
  PROVE  /\ MaxRetries \in Retries
         /\ queue[r] > 0 => Taken(r) \in [Retries -> Nat]
         /\ [queue EXCEPT ![r] = @ + 1] \in [Retries -> Nat]
         /\ Returned(r) \in [Retries -> Nat]
         /\ queue[r] > 0 /\ ~Exhausted(r) =>
              [queue EXCEPT ![r] = @ - 1, ![r - 1] = @ + 1] \in [Retries -> Nat]
         /\ Returned(Nil) = queue
<1>1. MaxRetries \in Nat /\ Nil \notin Nat /\ queue[r] \in Nat
  BY Assumptions
<1>2. r # 0 => r - 1 \in Retries /\ r - 1 # r
  BY <1>1 DEF Retries
<1>3. MaxRetries \in Retries /\ Nil \notin Retries
  BY <1>1 DEF Retries
<1> QED BY <1>1, <1>2, <1>3 DEF Taken, Returned, Exhausted

(* The steps outside an attempt.                                              *)
LEMMA QueueSteps ==
  ASSUME Inv, NEW r \in Retries, Refuse(r) \/ Duplicate(r)
  PROVE  Inv'
<1>1. rows' = rows /\ attempt' = attempt /\ TypeOK
  BY DEF Refuse, Duplicate, Inv
<1>2. queue' \in [Retries -> Nat]
  <2>1. queue \in [Retries -> Nat] /\ queue[r] > 0
    BY <1>1 DEF TypeOK, Refuse, Duplicate
  <2>2. /\ Taken(r) \in [Retries -> Nat]
        /\ ~Exhausted(r) => [queue EXCEPT ![r] = @ - 1, ![r - 1] = @ + 1] \in [Retries -> Nat]
    BY <2>1, QueueTypes
  <2> QED BY <2>2 DEF Refuse, Duplicate
<1>3. TypeOK'
  BY <1>1, <1>2 DEF TypeOK, Refuse, Duplicate
<1> QED BY <1>1, <1>3, OutsideStep

LEMMA IngestSteps ==
  ASSUME Inv,
         \/ StartIngest \/ CommitIngest \/ FailDownload \/ AbandonIngest \/ Reap
         \/ \E d \in Docs : StoreDocument(d)
         \/ \E f \in Fields : Drift(f)
  PROVE  Inv'
<1> USE DEF TypeOK
<1>1. TypeOK
  BY DEF Inv
<1>2. CASE StartIngest
  <2>1. TypeOK'
    BY <1>1, <1>2 DEF StartIngest
  <2> QED BY <1>2, <2>1, OutsideStep DEF StartIngest
<1>3. CASE CommitIngest
  <2>1. stored # Nil
    BY <1>1, <1>3 DEF CommitIngest
  <2>2. TypeOK'
    BY <1>1, <1>3, <2>1 DEF CommitIngest, Noted
  <2> QED BY <1>3, <2>2, OutsideStep DEF CommitIngest
<1>4. CASE FailDownload
  <2>1. TypeOK'
    BY <1>1, <1>4 DEF FailDownload, Noted
  <2> QED BY <1>4, <2>1, OutsideStep DEF FailDownload
<1>5. CASE AbandonIngest
  <2>1. TypeOK'
    BY <1>1, <1>5 DEF AbandonIngest
  <2> QED BY <1>5, <2>1, OutsideStep DEF AbandonIngest
<1>6. CASE Reap
  <2>1. TypeOK'
    BY <1>1, <1>6 DEF Reap
  <2> QED BY <1>6, <2>1, OutsideStep DEF Reap
<1>7. ASSUME NEW d \in Docs, StoreDocument(d) PROVE Inv'
  <2>1. stored' # Nil
    BY <1>7, Assumptions DEF StoreDocument
  <2>2. TypeOK'
    BY <1>1, <1>7, <2>1 DEF StoreDocument
  <2> QED BY <1>7, <2>2, OutsideStep DEF StoreDocument
<1>8. ASSUME NEW f \in Fields, Drift(f) PROVE Inv'
  <2>1. config' \in Versions
    BY <1>1, <1>8 DEF Drift, Versions
  <2>2. TypeOK'
    BY <1>1, <1>8, <2>1 DEF Drift
  <2> QED BY <1>8, <2>2, OutsideStep DEF Drift
<1> QED BY <1>2, <1>3, <1>4, <1>5, <1>6, <1>7, <1>8

(* Steps of requests and of a starting attempt.                               *)
LEMMA RequestSteps ==
  ASSUME Inv, \/ Post \/ BeginInWorkflow \/ \E r \in Retries : Begin(r)
  PROVE  Inv'
<1>1. TypeOK /\ Coherent(rows) /\ AllCompletedIsWhole
  BY DEF Inv
<1>2. CASE Post
  <2>1. queue' \in [Retries -> Nat]
    BY <1>1, <1>2, QueueTypes, Assumptions DEF TypeOK, Post, Retries
  <2>2. CASE attempt = Nil
    <3>1. attempt' = attempt /\ rows' = rows
      BY <1>2, <2>2 DEF Post
    <3>2. TypeOK'
      BY <1>1, <1>2, <2>1, <3>1 DEF TypeOK, Post
    <3> QED BY <3>1, <3>2, OutsideStep
  <2>3. CASE attempt # Nil
    <3> DEFINE a == attempt
               b == [a EXCEPT !.fresh = FALSE]
    <3>1. attempt' = b /\ rows' = rows /\ a \in Attempts
      BY <1>1, <1>2, <2>3 DEF Post, TypeOK
    <3>2. b = [message |-> a.message, at |-> a.at, status |-> a.status, doc |-> a.doc,
               config |-> a.config, draft |-> a.draft, asked |-> a.asked, fresh |-> FALSE]
      <4>1. a \in Attempts /\ b = [a EXCEPT !.fresh = FALSE]
        BY <3>1
      <4> HIDE DEF a, b
      <4> QED BY <4>1 DEF Attempts
    <3>3. b \in Attempts
      <4>1. /\ a.message \in Retries \cup {Nil} /\ a.at \in Stages /\ a.status \in Statuses
            /\ a.doc \in Docs \cup {Nil} /\ a.config \in Versions /\ a.draft \in Rows
            /\ a.asked \in SUBSET Keys
            /\ FALSE \in BOOLEAN
        BY <3>1, AttemptFields
      <4> HIDE DEF a, b
      <4> QED BY <3>2, <4>1 DEF Attempts
    <3>4. b.at = a.at /\ b.doc = a.doc /\ b.config = a.config /\ b.draft = a.draft
      BY <3>2
    <3>5. TypeOK'
      <4>1. filing.key /\ (a.at # "load" => a.doc \in Docs) /\ (lock = "held" <=> attempt # Nil)
        BY <1>1, <2>3 DEF TypeOK
      <4>2. b # Nil \/ b = Nil
        OBVIOUS
      <4>3. lock = "held"
        BY <2>3, <4>1
      <4> HIDE DEF b
      <4> QED BY <1>1, <1>2, <2>1, <2>3, <3>1, <3>3, <3>4, <4>1, NotNil DEF TypeOK, Post
    <3>6. Coherent(b.draft) /\ InStep(b)
      BY <2>3, <3>4 DEF Inv, InStep
    <3> HIDE DEF b
    <3> QED BY <3>1, <3>5, <3>6 DEF Inv, AllCompletedIsWhole, WholeBy, Coherent
  <2> QED BY <2>2, <2>3
<1>3. ASSUME NEW m \in Retries \cup {Nil}, attempt' = Started(m), rows' = rows,
             filing' = filing, filing.key, lock' = "held", stored' = stored, config' = config,
             queue' \in [Retries -> Nat], ingest' = ingest
      PROVE  Inv'
  <2> DEFINE b == Started(m)
  <2>1. b \in Attempts
    <3>1. "load" \in Stages /\ filing.status \in Statuses /\ Nil \in Docs \cup {Nil}
          /\ config \in Versions /\ rows \in Rows
      BY <1>1 DEF TypeOK
    <3>2. {} \in SUBSET Keys /\ TRUE \in BOOLEAN
      OBVIOUS
    <3> QED BY <1>3, <3>1, <3>2, MadeAttempt DEF Started
  <2>2. b.at = "load" /\ b.draft = rows
    BY DEF Started
  <2>3. b # Nil
    BY <2>1, NotNil
  <2> HIDE DEF b
  <2>4. attempt' = b
    BY <1>3 DEF b
  <2>5. TypeOK'
    BY <1>1, <1>3, <2>1, <2>2, <2>3, <2>4 DEF TypeOK
  <2>6. Coherent(b.draft) /\ InStep(b)
    BY <1>1, <2>2 DEF InStep
  <2> QED BY <1>1, <1>3, <2>4, <2>5, <2>6 DEF Inv, AllCompletedIsWhole, WholeBy, Coherent
<1>4. CASE BeginInWorkflow
  <2>1. Nil \in Retries \cup {Nil} /\ queue' \in [Retries -> Nat]
    BY <1>1, <1>4 DEF TypeOK, BeginInWorkflow
  <2> QED BY <1>3, <1>4, <2>1 DEF BeginInWorkflow
<1>5. ASSUME NEW r \in Retries, Begin(r) PROVE Inv'
  <2>1. Taken(r) \in [Retries -> Nat]
    BY <1>1, <1>5, QueueTypes DEF TypeOK, Begin
  <2> QED BY <1>3, <1>5, <2>1 DEF Begin
<1> QED BY <1>2, <1>4, <1>5

-----------------------------------------------------------------------------
(* An attempt goes on with another stage, document or draft.                  *)
LEMMA GoesOn ==
  ASSUME Inv, attempt # Nil, NEW b \in Attempts, attempt' = b,
         b.at # "load" => b.doc \in Docs,
         Coherent(b.draft), InStep(b), UNCHANGED private
  PROVE  Inv'
<1>1. TypeOK /\ Coherent(rows) /\ AllCompletedIsWhole /\ b # Nil
  BY NotNil DEF Inv
<1>2. TypeOK'
  BY <1>1 DEF TypeOK, private
<1> QED BY <1>1, <1>2 DEF private, Inv, AllCompletedIsWhole, WholeBy, Coherent

LEMMA WorkSteps ==
  ASSUME Inv, Load \/ Parse \/ Chunk \/ EmbedBatch
  PROVE  Inv'
<1> DEFINE a == attempt
           d == attempt.doc
           c == attempt.config
           b == attempt'
<1>1. /\ a # Nil /\ a \in Attempts /\ TypeOK /\ Coherent(a.draft) /\ InStep(a)
      /\ (a.at # "load" => d \in Docs)
  BY DEF Load, Parse, Chunk, EmbedBatch, Inv, TypeOK
<1>2. a.draft \in Rows /\ c \in Versions /\ UNCHANGED private
  BY <1>1, AttemptFields DEF Load, Parse, Chunk, EmbedBatch
(* The attempt with another stage, document, draft and set of asked pieces.   *)
<1>3. ASSUME NEW at \in Stages, NEW e \in Docs, NEW r \in Rows,
             NEW k \in SUBSET Keys,
             b = [a EXCEPT !.at = at, !.doc = e, !.draft = r, !.asked = k],
             Coherent(r),
             at \in {"chunk", "embed"} => r.sections = Sections(e, c),
             at = "embed" => r.cut = Cut(e, c)
      PROVE  Inv'
  <2>1. b = [message |-> a.message, at |-> at, status |-> a.status, doc |-> e, config |-> c,
             draft |-> r, asked |-> k, fresh |-> a.fresh]
    BY <1>1, <1>3 DEF Attempts
  <2>2. b \in Attempts
    <3>1. /\ a.message \in Retries \cup {Nil} /\ a.status \in Statuses
          /\ e \in Docs \cup {Nil} /\ a.fresh \in BOOLEAN
      BY <1>1, AttemptFields
    <3> HIDE DEF a, b, c, d
    <3> QED BY <1>2, <1>3, <2>1, <3>1 DEF Attempts
  <2>3. b.at = at /\ b.doc = e /\ b.draft = r /\ b.config = c
    BY <2>1
  <2>4. InStep(b)
    BY <1>3, <2>3 DEF InStep
  <2> HIDE DEF b
  <2>5. Coherent(b.draft) /\ (b.at # "load" => b.doc \in Docs)
    BY <1>3, <2>3
  <2> QED BY <1>1, <1>2, <2>2, <2>4, <2>5, GoesOn DEF b
<1>4. /\ a.asked \in SUBSET Keys
      /\ \A r \in Rows, s \in Stages :
           /\ Completed(r, s) \in Rows
           /\ Completed(r, s).sections = r.sections /\ Completed(r, s).cut = r.cut
           /\ Coherent(r) => Coherent(Completed(r, s))
  BY <1>1, AttemptFields, CompletedRows DEF Completed
<1>5. CASE Load
  <2>1. stored \in Docs /\ Nil \notin Docs
    BY <1>1, Assumptions DEF TypeOK
  <2>2. b = [a EXCEPT !.at = "parse", !.doc = stored, !.draft = Completed(a.draft, "load"),
                      !.asked = a.asked]
    BY <1>1, <1>5 DEF Load, Draft, Attempts
  <2> HIDE DEF a, b, c, d
  <2> QED BY <1>1, <1>2, <1>3, <1>4, <2>1, <2>2
<1>6. CASE Parse
  <2>1. a.at = "parse" /\ d \in Docs
    BY <1>1, <1>6 DEF Parse
  <2> DEFINE r == WithSections(a.draft, d, c)
  <2>2. r \in Rows /\ Coherent(r) /\ r.sections = Sections(d, c)
    BY <1>1, <1>2, <2>1, WithSectionsRows
  <2> DEFINE t == Completed(r, "parse")
  <2>3. b = [a EXCEPT !.at = "chunk", !.doc = d, !.draft = t, !.asked = a.asked]
    BY <1>1, <1>6 DEF Parse, Advance, Draft, Attempts
  <2>4. /\ t \in Rows /\ Coherent(t) /\ t.sections = Sections(d, c)
    BY <1>4, <2>2
  <2> HIDE DEF a, b, c, d, t
  <2> QED BY <1>1, <1>3, <1>4, <2>1, <2>3, <2>4
<1>7. CASE Chunk
  <2>1. a.at = "chunk" /\ d \in Docs /\ a.draft.sections = Sections(d, c)
    BY <1>1, <1>7 DEF Chunk, InStep
  <2> DEFINE r == WithChunks(a.draft, d, c)
  <2>2. r \in Rows /\ Coherent(r) /\ r.sections = Sections(d, c) /\ r.cut = Cut(d, c)
    BY <1>1, <1>2, <2>1, WithChunksRows
  <2> DEFINE t == Completed(r, "chunk")
  <2>3. b = [a EXCEPT !.at = "embed", !.doc = d, !.draft = t, !.asked = a.asked]
    BY <1>1, <1>7 DEF Chunk, Advance, Draft, Attempts
  <2>4. /\ t \in Rows /\ Coherent(t) /\ t.sections = Sections(d, c)
        /\ t.cut = Cut(d, c)
    BY <1>4, <2>2
  <2> HIDE DEF a, b, c, d, t
  <2> QED BY <1>1, <1>3, <1>4, <2>1, <2>3, <2>4
<1>8. CASE EmbedBatch
  <2>1. /\ a.at = "embed" /\ d \in Docs
        /\ a.draft.sections = Sections(d, c) /\ a.draft.cut = Cut(d, c)
    BY <1>1, <1>8 DEF EmbedBatch, InStep
  <2> DEFINE r == Embedded(a.draft, c)
             k == a.asked \cup Asked(a.draft, c)
  <2>2. r \in Rows /\ Coherent(r) /\ r.sections = Sections(d, c) /\ r.cut = Cut(d, c)
    BY <1>1, <1>2, <2>1, EmbeddedRows
  <2>3. Asked(a.draft, c) \in SUBSET Keys
    <3>1. Batch(a.draft, c) \subseteq Nat
      <4>1. a.draft.models = NoModels \/ a.draft.models \in SomeModels
        BY <1>2, RowsFields
      <4>2. CASE a.draft.models = NoModels
        BY <4>2 DEF NoModels, Batch, ToEmbed
      <4>3. CASE a.draft.models \in SomeModels
        <5>1. PICK e \in Docs : a.draft.models \in [1..Pieces[e] -> 0..2]
          BY <4>3 DEF SomeModels
        <5>2. DOMAIN a.draft.models \subseteq Nat
          BY <5>1, Assumptions
        <5> QED BY <5>2 DEF Batch, ToEmbed
      <4> QED BY <4>1, <4>2, <4>3
    <3>2. a.draft.cut \in SUBSET Cuts /\ c["model"] \in 1..2
      BY <1>2, RowsFields DEF Versions
    <3> HIDE DEF a, c
    <3> QED BY <3>1, <3>2 DEF Asked, Keys
  <2>4. b = [a EXCEPT !.at = "embed", !.doc = d, !.draft = r, !.asked = k]
    BY <1>1, <1>8, <2>1 DEF EmbedBatch, Draft, Attempts
  <2>5. k \in SUBSET Keys
    BY <1>4, <2>3
  <2> HIDE DEF a, b, c, d, r, k
  <2> QED BY <1>1, <1>2, <1>3, <2>1, <2>2, <2>4, <2>5
<1> QED BY <1>5, <1>6, <1>7, <1>8

(* The steps that end an attempt.                                             *)
LEMMA EndSteps ==
  ASSUME Inv, FailStage \/ LoseSession \/ Crash
  PROVE  Inv'
<1> DEFINE a == attempt
<1>1. TypeOK /\ a # Nil /\ a \in Attempts /\ a.message \in Retries \cup {Nil} /\ a.at \in Stages
      /\ a.draft \in Rows /\ Coherent(a.draft) /\ attempt' = Nil
  BY AttemptFields DEF Inv, TypeOK, FailStage, LoseSession, Crash, Over
<1>2. /\ Returned(a.message) \in [Retries -> Nat]
      /\ a.message # Nil => [queue EXCEPT ![a.message] = @ + 1] \in [Retries -> Nat]
  <2>1. queue \in [Retries -> Nat]
    BY <1>1 DEF TypeOK
  <2>2. CASE a.message \in Retries
    BY <2>1, <2>2, QueueTypes
  <2>3. CASE a.message = Nil
    <3>1. Nil \notin Retries
      BY Assumptions DEF Retries
    <3> QED BY <2>1, <2>3, <3>1 DEF Returned
  <2> QED BY <1>1, <2>2, <2>3
<1>3. CASE LoseSession
  <2>1. TypeOK'
    BY <1>1, <1>2, <1>3 DEF TypeOK, LoseSession, Over, Released
  <2> QED BY <1>1, <1>3, <2>1, DroppedStep DEF LoseSession
<1>4. CASE Crash
  <2>1. TypeOK'
    BY <1>1, <1>2, <1>4 DEF TypeOK, Crash
  <2> QED BY <1>1, <1>4, <2>1, DroppedStep DEF Crash
<1>5. CASE FailStage
  <2> DEFINE r == [a.draft EXCEPT !.stages[a.at] = "failed"]
  <2>1. rows' = r
    BY <1>5 DEF FailStage, Commit, FailedRows, Draft
  <2>2. r \in Rows /\ Coherent(r) /\ r.stages = [a.draft.stages EXCEPT ![a.at] = "failed"]
    BY <1>1, CompletedRows
  <2>3. r.stages[a.at] # "completed"
    BY <1>1, <2>2, RowsFields
  <2> HIDE DEF a, r
  <2>4. Coherent(rows)' /\ AllCompletedIsWhole'
    BY <1>1, <2>1, <2>2, <2>3 DEF Coherent, AllCompletedIsWhole
  <2>5. TypeOK'
    BY <1>1, <1>2, <1>5, <2>1, <2>2 DEF TypeOK, FailStage, Over, Released, a
  <2> QED BY <1>1, <2>4, <2>5 DEF Inv
<1> QED BY <1>3, <1>4, <1>5

(* A commit of everything: the rows are those of the attempt's document.      *)
LEMMA FinishStep ==
  ASSUME Inv, Finish
  PROVE  /\ Inv'
         /\ rows'.sections = Sections(attempt.doc, attempt.config)
         /\ rows'.cut = Cut(attempt.doc, attempt.config)
         /\ rows'.models = [i \in 1..Pieces[attempt.doc] |-> attempt.config["model"]]
<1> DEFINE a == attempt
           d == attempt.doc
           c == attempt.config
           r == Completed(a.draft, "embed")
<1>1. TypeOK /\ a # Nil /\ a \in Attempts /\ a.draft \in Rows /\ Coherent(a.draft) /\ InStep(a)
      /\ attempt' = Nil /\ d \in Docs /\ c \in Versions /\ a.at = "embed"
  BY AttemptFields DEF Inv, TypeOK, Finish, Over
<1>2. a.draft.sections = Sections(d, c) /\ a.draft.cut = Cut(d, c) /\ ToEmbed(a.draft, c) = {}
  BY <1>1 DEF InStep, Finish, Draft
<1>3. rows' = r
  BY DEF Finish, Commit, Draft
<1>4. /\ r \in Rows /\ Coherent(r) /\ r.sections = Sections(d, c) /\ r.cut = Cut(d, c)
      /\ r.models = a.draft.models
  BY <1>1, <1>2, CompletedRows DEF Completed
<1>5. ToEmbed(r, c) = {}
  BY <1>2, <1>4 DEF ToEmbed
<1>6. /\ r.models = [i \in 1..Pieces[d] |-> c["model"]]
      /\ WholeBy(r, c["model"]) \/ (r.sections = {} /\ r.cut = {})
  BY <1>1, <1>4, <1>5, NothingLeft
<1>7. c["model"] \in 1..2
  BY <1>1 DEF Versions
<1> HIDE DEF r
<1>8. AllCompletedIsWhole' /\ Coherent(rows)'
  <2>1. WholeBy(rows', c["model"]) \/ (rows'.sections = {} /\ rows'.cut = {})
    BY <1>3, <1>6
  <2>2. Coherent(rows)'
    BY <1>3, <1>4 DEF Coherent
  <2> HIDE DEF c
  <2>3. AllCompletedIsWhole'
    BY <1>7, <2>1 DEF AllCompletedIsWhole
  <2> QED BY <2>2, <2>3
<1>9. TypeOK'
  BY <1>1, <1>3, <1>4 DEF TypeOK, Finish, Over, Released
<1> QED BY <1>1, <1>3, <1>4, <1>6, <1>8, <1>9 DEF Inv

LEMMA NextInv == Inv /\ [Next]_vars => Inv'
<1> SUFFICES ASSUME Inv, [Next]_vars PROVE Inv'
  OBVIOUS
<1>1. CASE UNCHANGED vars
  BY <1>1 DEF vars, Inv, TypeOK, AllCompletedIsWhole, WholeBy, Coherent, InStep
<1>2. CASE Next
  BY <1>2, QueueSteps, IngestSteps, RequestSteps, WorkSteps, EndSteps, FinishStep
     DEF Next, Deliver, Work
<1> QED BY <1>1, <1>2

LEMMA Invariance == Spec => []Inv
BY InitInv, NextInv, PTL DEF Spec

-----------------------------------------------------------------------------
(* Every variable has its type, and the lock is held exactly while an attempt *)
(* runs (filing_processing_service.py, process_filing).                       *)
THEOREM TypeCorrect == Spec => []TypeOK
BY Invariance, PTL DEF Inv

(* For any documents, versions, faults and interleaving with ingestion: a     *)
(* workflow that finds the filing ready finds whole rows.                     *)
THEOREM ReadyWhole == Spec => []ReadyIsWhole
<1>1. Inv => ReadyIsWhole
  <2> SUFFICES ASSUME Inv, Ready(rows, config) PROVE WholeBy(rows, config["model"])
    BY DEF ReadyIsWhole
  <2>1. Coherent(rows) /\ config \in Versions /\ rows.models # NoModels
    <3>1. DOMAIN NoModels = {}
      BY DEF NoModels
    <3> QED BY <3>1 DEF Ready, Inv, TypeOK
  <2>2. PICK d \in Docs, c \in Versions :
          /\ Pieces[d] > 0
          /\ rows.sections = Sections(d, c) /\ rows.cut = Cut(d, c)
          /\ rows.models \in [1..Pieces[d] -> 0..2]
    BY <2>1 DEF Coherent
  <2>3. rows.models = [i \in 1..Pieces[d] |-> config["model"]]
    BY <2>2 DEF Ready, ToEmbed
  <2> QED BY <2>2, <2>3 DEF WholeBy
<1> QED BY <1>1, Invariance, PTL

(* Rows whose four stages say completed belong to one attempt that finished.  *)
THEOREM AllCompletedWhole == Spec => []AllCompletedIsWhole
BY Invariance, PTL DEF Inv

(* A filing becomes processed only with the rows of the document and versions *)
(* of the attempt that says so.                                               *)
THEOREM ProcessedWhole == Spec => BecomesProcessedWhole
<1> DEFINE Whole ==
      filing.status # "processed" /\ filing'.status = "processed" =>
        LET d == attempt.doc  c == attempt.config IN
          /\ rows'.sections = Sections(d, c) /\ rows'.cut = Cut(d, c)
          /\ rows'.models = [i \in 1..Pieces[d] |-> c["model"]]
<1>1. Inv /\ [Next]_vars => [Whole]_vars
  <2> SUFFICES ASSUME Inv, Next, filing.status # "processed", filing'.status = "processed"
               PROVE  Finish
    BY FinishStep DEF vars
  <2>1. filing' # filing
    OBVIOUS
  <2>2. \A s \in {"downloaded", "failed"} : ingest # Nil => Noted(s) # "processed"
    BY DEF Noted
  <2>3. filing \in [status : Statuses, key : BOOLEAN]
    BY DEF Inv, TypeOK
  <2>4. ~CommitIngest /\ ~FailDownload
    BY <2>2, <2>3 DEF CommitIngest, FailDownload
  <2> QED BY <2>1, <2>4
     DEF Next, Deliver, Work, Post, BeginInWorkflow, Begin, Refuse, Duplicate, Load, Parse,
         Chunk, EmbedBatch, FailStage, LoseSession, Crash, Reap, StartIngest, AbandonIngest,
         StoreDocument, Drift, private
<1> QED BY <1>1, Invariance, PTL DEF Spec, BecomesProcessedWhole

-----------------------------------------------------------------------------
(* What was asked of the provider.  As long as no document is replaced, rows  *)
(* and drafts only go forward: to newer parsers, to newer chunkers of the     *)
(* same parser, to newer models of the same chunks.  A key asked for before   *)
(* is therefore behind what the rows hold, and never missing in front of it.  *)

SectionOf(d, s) == {[text |-> Text[d], parser |-> s]}
CutOf(d, s, t) == {[text |-> Text[d], tables |-> Tables[d], parser |-> s, chunker |-> t]}

(* Rows of document d hold nothing that is newer than the versions c.         *)
NotNewer(r, d, c) ==
  /\ \/ r.sections = {} /\ r.cut = {}
     \/ /\ Pieces[d] > 0
        /\ \E s \in 1..c["parser"] :
             /\ r.sections = SectionOf(d, s)
             /\ r.cut # {} => \E t \in 1..c["chunker"] : r.cut = CutOf(d, s, t)
  /\ \A i \in DOMAIN r.models : r.models[i] <= c["model"]

(* A key asked for is that of an older cut, or of an embedding that is there. *)
Older(k, r, d) ==
  \E p, q, s \in 1..2 :
    /\ k.cut = CutOf(d, p, q) /\ r.sections = SectionOf(d, s) /\ p <= s
    /\ p = s => \E t \in 1..2 :
         /\ r.cut = CutOf(d, s, t) /\ q <= t
         /\ q = t => k.piece \in DOMAIN r.models /\ k.model \in 0..r.models[k.piece]

Covers(r, d, c, keys) == NotNewer(r, d, c) /\ \A k \in keys : Older(k, r, d)

PaidInv ==
  ~replaced =>
    /\ ~twice
    /\ stored = Nil => rows.sections = {} /\ rows.cut = {} /\ rows.models = NoModels /\ kept = {}
    /\ stored # Nil => Covers(rows, stored, config, kept)
    /\ attempt # Nil =>
         /\ attempt.at # "load" => attempt.doc = stored
         /\ \A f \in Fields : attempt.config[f] <= config[f]
         /\ Covers(attempt.draft, stored, attempt.config, kept \cup attempt.asked)

LEMMA CutsApart ==
  ASSUME NEW d, NEW p, NEW q, NEW s, NEW t
  PROVE  /\ SectionOf(d, s) # {} /\ CutOf(d, s, t) # {}
         /\ SectionOf(d, p) = SectionOf(d, s) => p = s
         /\ CutOf(d, p, q) = CutOf(d, s, t) => p = s /\ q = t
<1> DEFINE x == [text |-> Text[d], parser |-> p]
           y == [text |-> Text[d], parser |-> s]
           v == [text |-> Text[d], tables |-> Tables[d], parser |-> p, chunker |-> q]
           w == [text |-> Text[d], tables |-> Tables[d], parser |-> s, chunker |-> t]
<1>1. x.parser = p /\ y.parser = s /\ v.parser = p /\ v.chunker = q /\ w.parser = s /\ w.chunker = t
  OBVIOUS
<1>2. /\ SectionOf(d, p) = {x} /\ SectionOf(d, s) = {y}
      /\ CutOf(d, p, q) = {v} /\ CutOf(d, s, t) = {w}
  BY DEF SectionOf, CutOf
<1> HIDE DEF x, y, v, w
<1> QED BY <1>1, <1>2

LEMMA MadeIsOf ==
  ASSUME NEW d \in Docs, NEW c \in Versions
  PROVE  /\ c["parser"] \in 1..2 /\ c["chunker"] \in 1..2 /\ c["model"] \in 1..2
         /\ Pieces[d] \in Nat
         /\ Pieces[d] > 0 => /\ Sections(d, c) = SectionOf(d, c["parser"])
                             /\ Cut(d, c) = CutOf(d, c["parser"], c["chunker"])
         /\ Pieces[d] = 0 => Sections(d, c) = {} /\ Cut(d, c) = {}
<1>1. /\ c["parser"] \in 1..2 /\ c["chunker"] \in 1..2 /\ c["model"] \in 1..2
      /\ Pieces[d] \in Nat
  BY Assumptions DEF Versions
<1>2. Pieces[d] > 0 => Pieces[d] # 0
  BY <1>1
<1>3. Pieces[d] # 0 => /\ Sections(d, c) = SectionOf(d, c["parser"])
                       /\ Cut(d, c) = CutOf(d, c["parser"], c["chunker"])
  BY Zenon DEF Sections, Cut, SectionOf, CutOf
<1>4. Pieces[d] = 0 => Sections(d, c) = {} /\ Cut(d, c) = {}
  BY DEF Sections, Cut
<1> QED BY <1>1, <1>2, <1>3, <1>4

(* Only sections, chunks and embeddings count.                                *)
LEMMA SameCovers ==
  ASSUME NEW r, NEW u, NEW d, NEW c, NEW keys, Covers(r, d, c, keys),
         u.sections = r.sections, u.cut = r.cut, u.models = r.models
  PROVE  Covers(u, d, c, keys)
BY DEF Covers, NotNewer, Older

(* Versions only rise.                                                        *)
LEMMA NewerCovers ==
  ASSUME NEW r \in Rows, NEW d \in Docs, NEW c \in Versions, NEW e \in Versions, NEW keys,
         Covers(r, d, c, keys), \A f \in Fields : c[f] <= e[f]
  PROVE  Covers(r, d, e, keys)
<1>1. /\ c["parser"] \in 1..2 /\ c["chunker"] \in 1..2 /\ c["model"] \in 1..2
      /\ e["parser"] \in 1..2 /\ e["chunker"] \in 1..2 /\ e["model"] \in 1..2
  BY MadeIsOf
<1>2. c["parser"] <= e["parser"] /\ c["chunker"] <= e["chunker"] /\ c["model"] <= e["model"]
  OBVIOUS
<1>3. \A i \in DOMAIN r.models : r.models[i] <= e["model"]
  <2>1. TAKE i \in DOMAIN r.models
  <2>2. r.models[i] \in 0..2
    <3>1. r.models = NoModels \/ r.models \in SomeModels
      BY RowsFields
    <3> QED BY <2>1, <3>1 DEF NoModels, SomeModels
  <2>3. r.models[i] <= c["model"]
    BY <2>1 DEF Covers, NotNewer
  <2> QED BY <1>1, <1>2, <2>2, <2>3
<1>4. 1..c["parser"] \subseteq 1..e["parser"] /\ 1..c["chunker"] \subseteq 1..e["chunker"]
  BY <1>1, <1>2
<1>5. NotNewer(r, d, e)
  BY <1>3, <1>4 DEF Covers, NotNewer
<1> QED BY <1>5 DEF Covers

(* A parse keeps the sections, or replaces those of an older parser.          *)
LEMMA ParseCovers ==
  ASSUME NEW r \in Rows, NEW d \in Docs, NEW c \in Versions, NEW keys, Covers(r, d, c, keys)
  PROVE  Covers(WithSections(r, d, c), d, c, keys)
<1> DEFINE u == WithSections(r, d, c)
           m == c["parser"]
<1>1. CASE r.sections = Sections(d, c)
  BY <1>1 DEF WithSections
<1>2. CASE r.sections # Sections(d, c)
  <2>1. u.sections = Sections(d, c) /\ u.cut = {} /\ u.models = NoModels
    BY <1>2 DEF WithSections, Rows
  <2>2. m \in 1..2 /\ Pieces[d] \in Nat
    BY MadeIsOf
  <2>3. NotNewer(u, d, c)
    <3>1. CASE Pieces[d] = 0
      BY <2>1, <3>1, MadeIsOf DEF NotNewer, NoModels
    <3>2. CASE Pieces[d] > 0
      <4>1. u.sections = SectionOf(d, m) /\ m \in 1..m
        BY <2>1, <2>2, <3>2, MadeIsOf
      <4> QED BY <2>1, <3>2, <4>1 DEF NotNewer, NoModels
    <3> QED BY <2>2, <3>1, <3>2
  <2>4. ASSUME NEW k \in keys PROVE Older(k, u, d)
    <3>1. PICK p, q, s \in 1..2 :
            k.cut = CutOf(d, p, q) /\ r.sections = SectionOf(d, s) /\ p <= s
      BY <2>4 DEF Covers, Older
    <3>2. SectionOf(d, s) # {}
      BY CutsApart
    <3>3. PICK n \in 1..m : Pieces[d] > 0 /\ r.sections = SectionOf(d, n)
      BY <3>1, <3>2 DEF Covers, NotNewer
    <3>4. s = n
      BY <3>1, <3>3, CutsApart
    <3>5. Sections(d, c) = SectionOf(d, m)
      BY <3>3, MadeIsOf
    <3>6. s # m
      BY <1>2, <3>1, <3>5
    <3>7. p \in 1..2 /\ q \in 1..2 /\ s < m /\ p <= m /\ p # m
      BY <2>2, <3>1, <3>3, <3>4, <3>6
    <3>8. u.sections = SectionOf(d, m)
      BY <2>1, <3>5
    <3> HIDE DEF u, m
    <3> QED BY <2>2, <3>1, <3>7, <3>8 DEF Older
  <2> QED BY <2>3, <2>4 DEF Covers
<1> QED BY <1>1, <1>2

(* Chunking the attempt's sections keeps the chunks, or replaces those of an  *)
(* older chunker.                                                             *)
LEMMA ChunkCovers ==
  ASSUME NEW r \in Rows, NEW d \in Docs, NEW c \in Versions, NEW keys, Covers(r, d, c, keys),
         r.sections = Sections(d, c)
  PROVE  Covers(WithChunks(r, d, c), d, c, keys)
<1> DEFINE u == WithChunks(r, d, c)
           m == c["parser"]
           n == c["chunker"]
<1>1. CASE r.cut = Cut(d, c)
  BY <1>1 DEF WithChunks
<1>2. CASE r.cut # Cut(d, c)
  <2>1. /\ u.sections = Sections(d, c) /\ u.cut = Cut(d, c)
        /\ u.models = [i \in 1..Pieces[d] |-> 0]
    BY <1>2 DEF WithChunks, Rows
  <2>2. m \in 1..2 /\ n \in 1..2 /\ c["model"] \in 1..2 /\ Pieces[d] \in Nat
    BY MadeIsOf
  <2>3. \A i \in DOMAIN u.models : u.models[i] <= c["model"]
    BY <2>1, <2>2
  <2>4. CASE Pieces[d] = 0
    <3>1. u.sections = {} /\ u.cut = {} /\ r.sections = {}
      BY <2>1, <2>4, MadeIsOf
    <3>2. \A k \in keys : FALSE
      BY <3>1, CutsApart DEF Covers, Older
    <3> HIDE DEF u
    <3>3. NotNewer(u, d, c)
      BY <2>3, <3>1 DEF NotNewer
    <3> QED BY <3>2, <3>3 DEF Covers, u
  <2>5. CASE Pieces[d] > 0
    <3>1. Sections(d, c) = SectionOf(d, m) /\ Cut(d, c) = CutOf(d, m, n)
      BY <2>5, MadeIsOf
    <3>2. NotNewer(u, d, c)
      <4>1. m \in 1..m /\ n \in 1..n
        BY <2>2
      <4>2. u.sections = SectionOf(d, m) /\ u.cut = CutOf(d, m, n)
        BY <2>1, <3>1
      <4> HIDE DEF u
      <4> QED BY <2>3, <2>5, <4>1, <4>2 DEF NotNewer
    <3>3. ASSUME NEW k \in keys PROVE Older(k, u, d)
      <4>1. PICK p, q, s \in 1..2 :
              /\ k.cut = CutOf(d, p, q) /\ r.sections = SectionOf(d, s) /\ p <= s
              /\ p = s => \E t \in 1..2 : r.cut = CutOf(d, s, t) /\ q <= t
        BY <3>3 DEF Covers, Older
      <4>2. s = m
        BY <3>1, <4>1, CutsApart
      <4>3. p = m => q < n
        <5> SUFFICES ASSUME p = m PROVE q < n
          OBVIOUS
        <5>1. PICK t \in 1..2 : r.cut = CutOf(d, s, t) /\ q <= t
          BY <4>1, <4>2
        <5>2. CutOf(d, s, t) # {} /\ SectionOf(d, s) # {}
          BY CutsApart
        <5>3. PICK v \in 1..m : /\ r.sections = SectionOf(d, v)
                                /\ r.cut # {} => \E w \in 1..n : r.cut = CutOf(d, v, w)
          BY <4>1, <5>2 DEF Covers, NotNewer
        <5>4. PICK w \in 1..n : r.cut = CutOf(d, v, w)
          BY <5>1, <5>2, <5>3
        <5>5. t = w
          BY <5>1, <5>4, CutsApart
        <5>6. t # n
          BY <1>2, <3>1, <4>2, <5>1
        <5>7. w \in 1..n /\ t \in 1..2 /\ q \in 1..2 /\ q <= t
          BY <5>1
        <5> QED BY <2>2, <5>5, <5>6, <5>7
      <4>4. u.sections = SectionOf(d, m) /\ u.cut = CutOf(d, m, n)
        BY <2>1, <3>1
      <4>5. p \in 1..2 /\ q \in 1..2 /\ p <= m /\ (p = m => q <= n /\ q # n)
        BY <2>2, <4>1, <4>2, <4>3
      <4> HIDE DEF u, m, n
      <4> QED BY <2>2, <4>1, <4>4, <4>5 DEF Older
    <3> QED BY <3>2, <3>3 DEF Covers
  <2> QED BY <2>2, <2>4, <2>5
<1> QED BY <1>1, <1>2

(* A batch of the attempt's chunks asks for nothing that was asked for.       *)
LEMMA EmbedCovers ==
  ASSUME NEW r \in Rows, NEW d \in Docs, NEW c \in Versions, NEW keys, Covers(r, d, c, keys),
         r.sections = Sections(d, c), r.cut = Cut(d, c), ToEmbed(r, c) # {}, Coherent(r)
  PROVE  /\ Asked(r, c) \cap keys = {}
         /\ Covers(Embedded(r, c), d, c, keys \cup Asked(r, c))
<1> DEFINE u == Embedded(r, c)
           m == c["parser"]
           n == c["chunker"]
           e == c["model"]
<1>1. /\ u.sections = r.sections /\ u.cut = r.cut
      /\ u.models = [i \in DOMAIN r.models |-> IF i \in Batch(r, c) THEN e ELSE r.models[i]]
  BY DEF Embedded, Rows
<1>2. m \in 1..2 /\ n \in 1..2 /\ e \in 1..2 /\ Pieces[d] \in Nat
  BY MadeIsOf
<1>3. \A i \in DOMAIN r.models : r.models[i] \in 0..2 /\ r.models[i] <= e
  <2>1. r.models = NoModels \/ r.models \in SomeModels
    BY RowsFields
  <2> QED BY <2>1 DEF NoModels, SomeModels, Covers, NotNewer
<1>4. Batch(r, c) \subseteq DOMAIN r.models /\ \A i \in Batch(r, c) : r.models[i] # e
  BY DEF Batch, ToEmbed
<1>5. Pieces[d] > 0
  <2>1. r.models # NoModels
    BY DEF ToEmbed, NoModels
  <2>2. r.cut # {}
    BY <2>1, CutFacts DEF Coherent
  <2> QED BY <1>2, <2>2, MadeIsOf
<1>6. r.sections = SectionOf(d, m) /\ r.cut = CutOf(d, m, n)
  BY <1>5, MadeIsOf
<1> HIDE DEF u, m, n, e
<1>7. ASSUME NEW k \in Asked(r, c) PROVE k \notin keys /\ Older(k, u, d)
  <2>1. PICK i \in Batch(r, c) : k = [cut |-> r.cut, piece |-> i, model |-> e]
    BY <1>7 DEF Asked, e
  <2>2. k.cut = CutOf(d, m, n) /\ k.piece = i /\ k.model = e
    BY <1>6, <2>1
  <2>3. i \in DOMAIN u.models /\ u.models[i] = e
    BY <1>1, <1>4, <2>1
  <2>4. Older(k, u, d)
    <3>1. m <= m /\ n <= n /\ e <= e
      BY <1>2
    <3> QED BY <1>1, <1>2, <1>6, <2>2, <2>3, <3>1 DEF Older
  <2>5. ASSUME k \in keys PROVE FALSE
    <3>1. PICK p, q, s \in 1..2 :
            /\ k.cut = CutOf(d, p, q) /\ r.sections = SectionOf(d, s)
            /\ p = s => \E t \in 1..2 :
                 /\ r.cut = CutOf(d, s, t)
                 /\ q = t => k.piece \in DOMAIN r.models /\ k.model \in 0..r.models[k.piece]
      BY <2>5 DEF Covers, Older
    <3>2. s = m /\ p = m /\ q = n
      <4>1. SectionOf(d, s) = SectionOf(d, m) /\ CutOf(d, p, q) = CutOf(d, m, n)
        BY <1>6, <2>2, <3>1
      <4> QED BY <4>1, CutsApart
    <3>3. PICK t \in 1..2 :
            /\ r.cut = CutOf(d, s, t)
            /\ q = t => k.piece \in DOMAIN r.models /\ k.model \in 0..r.models[k.piece]
      BY <3>1, <3>2
    <3>4. t = n
      <4>1. CutOf(d, s, t) = CutOf(d, m, n)
        BY <1>6, <3>3
      <4> QED BY <4>1, CutsApart
    <3>5. e \in 0..r.models[i]
      BY <2>2, <3>2, <3>3, <3>4
    <3>6. r.models[i] \in 0..2 /\ r.models[i] <= e /\ r.models[i] # e
      BY <1>3, <1>4, <2>1
    <3> QED BY <1>2, <3>5, <3>6
  <2> QED BY <2>4, <2>5
<1>8. ASSUME NEW k \in keys PROVE Older(k, u, d)
  <2>1. PICK p, q, s \in 1..2 :
          /\ k.cut = CutOf(d, p, q) /\ r.sections = SectionOf(d, s) /\ p <= s
          /\ p = s => \E t \in 1..2 :
               /\ r.cut = CutOf(d, s, t) /\ q <= t
               /\ q = t => k.piece \in DOMAIN r.models /\ k.model \in 0..r.models[k.piece]
    BY <1>8 DEF Covers, Older
  <2>2. \A i \in DOMAIN r.models : i \in DOMAIN u.models /\ r.models[i] <= u.models[i]
    BY <1>1, <1>2, <1>3
  <2>3. k.piece \in DOMAIN r.models /\ k.model \in 0..r.models[k.piece]
          => k.piece \in DOMAIN u.models /\ k.model \in 0..u.models[k.piece]
    <3> SUFFICES ASSUME k.piece \in DOMAIN r.models, k.model \in 0..r.models[k.piece]
                 PROVE  k.piece \in DOMAIN u.models /\ k.model \in 0..u.models[k.piece]
      OBVIOUS
    <3>1. /\ k.piece \in DOMAIN u.models
          /\ u.models[k.piece] = IF k.piece \in Batch(r, c) THEN e ELSE r.models[k.piece]
      BY <1>1
    <3>2. r.models[k.piece] \in 0..2 /\ r.models[k.piece] <= e
      BY <1>3
    <3>3. CASE k.piece \notin Batch(r, c)
      BY <3>1, <3>3
    <3>4. CASE k.piece \in Batch(r, c)
      BY <1>2, <3>1, <3>2, <3>4
    <3> QED BY <3>3, <3>4
  <2> QED BY <1>1, <2>1, <2>3 DEF Older
<1>9. NotNewer(u, d, c)
  <2>1. \A i \in DOMAIN u.models : u.models[i] <= e
    BY <1>1, <1>2, <1>3
  <2> QED BY <1>1, <2>1 DEF Covers, NotNewer, e
<1> QED BY <1>7, <1>8, <1>9 DEF Covers, u

LEMMA PaidInit == Init => PaidInv
BY DEF Init, PaidInv, NoRows

(* The steps that leave rows, the attempt and the document alone.             *)
LEMMA PaidOutside ==
  ASSUME Inv, PaidInv, UNCHANGED <<rows, config, attempt, stored, kept, twice, replaced>>
  PROVE  PaidInv'
BY DEF PaidInv, Covers, NotNewer, Older

(* The steps that end an attempt without committing it.                       *)
LEMMA PaidDropped ==
  ASSUME Inv, PaidInv, attempt' = Nil,
         UNCHANGED <<rows, config, stored, kept, twice, replaced>>
  PROVE  PaidInv'
BY DEF PaidInv, Covers, NotNewer, Older

LEMMA PaidStore ==
  ASSUME Inv, PaidInv, NEW d \in Docs, StoreDocument(d)
  PROVE  PaidInv'
<1> SUFFICES ASSUME ~replaced' PROVE PaidInv'
  BY DEF PaidInv
<1>1. ~replaced /\ stored \in {Nil, d} /\ Nil # d /\ config \in Versions
  BY Assumptions DEF StoreDocument, Inv, TypeOK
<1>2. UNCHANGED <<rows, config, attempt, kept, twice>> /\ stored' = d
  BY DEF StoreDocument
<1>3. CASE stored = d
  BY <1>1, <1>2, <1>3 DEF PaidInv, Covers, NotNewer, Older
<1>4. CASE stored = Nil
  <2>1. attempt = Nil
    BY <1>4 DEF Inv, TypeOK
  <2>2. rows.sections = {} /\ rows.cut = {} /\ rows.models = NoModels /\ kept = {} /\ ~twice
    BY <1>1, <1>4 DEF PaidInv
  <2>3. Covers(rows, d, config, kept)
    BY <2>2 DEF Covers, NotNewer, NoModels
  <2>4. Covers(rows', stored', config', kept')
    BY <1>2, <2>3
  <2> QED BY <1>1, <1>2, <2>1, <2>2, <2>4 DEF PaidInv
<1> QED BY <1>1, <1>3, <1>4

LEMMA PaidDrift ==
  ASSUME Inv, PaidInv, NEW f \in Fields, Drift(f)
  PROVE  PaidInv'
<1> SUFFICES ASSUME ~replaced' PROVE PaidInv'
  BY DEF PaidInv
<1>1. UNCHANGED <<stored, rows, attempt, kept, twice, replaced>>
  BY DEF Drift, history
<1>2. config \in Versions /\ config' \in Versions /\ \A g \in Fields : config[g] <= config'[g]
  BY DEF Inv, TypeOK, Versions, Drift
<1>3. stored # Nil => Covers(rows, stored, config', kept)
  BY <1>1, <1>2, NewerCovers DEF PaidInv, Inv, TypeOK
<1>4. attempt # Nil => \A g \in Fields : attempt.config[g] <= config'[g]
  <2> SUFFICES ASSUME attempt # Nil, NEW g \in Fields PROVE attempt.config[g] <= config'[g]
    OBVIOUS
  <2>1. attempt.config \in Versions /\ attempt.config[g] <= config[g]
    BY <1>1, AttemptFields DEF Inv, TypeOK, PaidInv
  <2>2. attempt.config[g] \in 1..2 /\ config[g] \in 1..2 /\ config'[g] \in 1..2
    BY <1>2, <2>1 DEF Versions
  <2> QED BY <1>2, <2>1, <2>2
<1>5. (stored # Nil => Covers(rows, stored, config, kept))'
  BY <1>1, <1>3
<1>6. (attempt # Nil =>
         /\ attempt.at # "load" => attempt.doc = stored
         /\ \A g \in Fields : attempt.config[g] <= config[g]
         /\ Covers(attempt.draft, stored, attempt.config, kept \cup attempt.asked))'
  BY <1>1, <1>4 DEF PaidInv
<1> QED BY <1>1, <1>5, <1>6 DEF PaidInv

LEMMA PaidBegin ==
  ASSUME Inv, PaidInv, NEW m, attempt' = Started(m), filing.key,
         UNCHANGED <<rows, config, stored, kept, twice, replaced>>
  PROVE  PaidInv'
<1> SUFFICES ASSUME ~replaced' PROVE PaidInv'
  BY DEF PaidInv
<1> DEFINE b == Started(m)
<1>1. b.at = "load" /\ b.config = config /\ b.draft = rows /\ b.asked = {}
  BY DEF Started
<1>2. stored # Nil /\ config \in Versions
  BY DEF Inv, TypeOK
<1>3. Covers(rows, stored, config, kept)
  BY <1>2 DEF PaidInv
<1> HIDE DEF b
<1>4. Covers(b.draft, stored, b.config, kept \cup b.asked)
  BY <1>1, <1>3
<1>5. \A f \in Fields : b.config[f] <= config[f]
  BY <1>1, <1>2 DEF Versions
<1>6. attempt' = b
  BY DEF b
<1>7. (/\ attempt.at # "load" => attempt.doc = stored
       /\ \A f \in Fields : attempt.config[f] <= config[f]
       /\ Covers(attempt.draft, stored, attempt.config, kept \cup attempt.asked))'
  BY <1>1, <1>4, <1>5, <1>6
<1>8. Covers(rows, stored, config, kept)'
  BY <1>3
<1> QED BY <1>2, <1>7, <1>8 DEF PaidInv

(* A new draft of the attempt.                                                *)
LEMMA PaidGoesOn ==
  ASSUME Inv, PaidInv, attempt # Nil, ~replaced,
         UNCHANGED <<rows, config, stored, kept, replaced>>, ~twice',
         attempt'.at # "load" => attempt'.doc = stored,
         attempt'.config = attempt.config,
         Covers(attempt'.draft, stored, attempt.config, kept \cup attempt'.asked)
  PROVE  PaidInv'
<1>1. (stored # Nil => Covers(rows, stored, config, kept))'
  BY DEF PaidInv
<1>2. (/\ attempt.at # "load" => attempt.doc = stored
       /\ \A f \in Fields : attempt.config[f] <= config[f]
       /\ Covers(attempt.draft, stored, attempt.config, kept \cup attempt.asked))'
  BY DEF PaidInv
<1>3. (stored = Nil => rows.sections = {} /\ rows.cut = {} /\ rows.models = NoModels /\ kept = {})'
  BY DEF PaidInv
<1> QED BY <1>1, <1>2, <1>3 DEF PaidInv

LEMMA PaidWork ==
  ASSUME Inv, PaidInv, Load \/ Parse \/ Chunk \/ EmbedBatch
  PROVE  PaidInv'
<1> SUFFICES ASSUME ~replaced' PROVE PaidInv'
  BY DEF PaidInv
<1> DEFINE a == attempt
           d == attempt.doc
           c == attempt.config
           r == attempt.draft
           keys == kept \cup attempt.asked
           b == attempt'
<1>1. /\ a # Nil /\ a \in Attempts /\ Coherent(r) /\ InStep(a) /\ (a.at # "load" => d \in Docs)
      /\ stored \in Docs
  BY DEF Load, Parse, Chunk, EmbedBatch, Inv, TypeOK
<1>2. r \in Rows /\ c \in Versions
  BY <1>1, AttemptFields
<1>3. UNCHANGED <<rows, config, stored, kept, replaced>> /\ ~replaced
  BY DEF Load, Parse, Chunk, EmbedBatch, private, history
<1>4. ~twice /\ Covers(r, stored, c, keys) /\ (a.at # "load" => d = stored)
  BY <1>1, <1>3 DEF PaidInv
(* Another stage, document, draft and set of asked pieces.                    *)
<1>5. ASSUME NEW at \in Stages, NEW u, NEW k, ~twice',
             b = [a EXCEPT !.at = at, !.doc = stored, !.draft = u, !.asked = k],
             Covers(u, stored, c, kept \cup k)
      PROVE  PaidInv'
  <2>1. b.at = at /\ b.doc = stored /\ b.draft = u /\ b.asked = k /\ b.config = c
    BY <1>1, <1>5 DEF Attempts
  <2> QED BY <1>1, <1>3, <1>5, <2>1, PaidGoesOn
<1>6. ASSUME NEW u \in Rows, NEW s \in Stages, Covers(u, stored, c, keys)
      PROVE  Covers(Completed(u, s), stored, c, keys)
  <2>1. /\ Completed(u, s).sections = u.sections /\ Completed(u, s).cut = u.cut
        /\ Completed(u, s).models = u.models
    BY CompletedRows DEF Completed
  <2> QED BY <1>6, <2>1, SameCovers
<1>7. CASE Load
  <2>1. b = [a EXCEPT !.at = "parse", !.doc = stored, !.draft = Completed(r, "load"),
                      !.asked = a.asked]
    BY <1>1, <1>7 DEF Load, Draft, Attempts
  <2>2. ~twice'
    BY <1>4, <1>7 DEF Load, history
  <2>3. Covers(Completed(r, "load"), stored, c, keys)
    BY <1>2, <1>4, <1>6
  <2> HIDE DEF a, b, c, d, r
  <2> QED BY <1>5, <2>1, <2>2, <2>3 DEF a
<1>8. CASE Parse
  <2> DEFINE u == WithSections(r, d, c)
  <2>1. a.at = "parse" /\ d = stored
    BY <1>1, <1>4, <1>8 DEF Parse
  <2>2. b = [a EXCEPT !.at = "chunk", !.doc = stored, !.draft = Completed(u, "parse"),
                      !.asked = a.asked]
    BY <1>1, <1>8, <2>1 DEF Parse, Advance, Draft, Attempts
  <2>3. ~twice'
    BY <1>4, <1>8 DEF Parse, history
  <2>4. u \in Rows
    BY <1>1, <1>2, <2>1, WithSectionsRows
  <2>5. Covers(u, stored, c, keys)
    BY <1>1, <1>2, <1>4, <2>1, ParseCovers
  <2>6. Covers(Completed(u, "parse"), stored, c, keys)
    BY <1>6, <2>4, <2>5
  <2> HIDE DEF a, b, c, d, r, u
  <2> QED BY <1>5, <2>2, <2>3, <2>6 DEF a
<1>9. CASE Chunk
  <2> DEFINE u == WithChunks(r, d, c)
  <2>1. a.at = "chunk" /\ d = stored /\ r.sections = Sections(d, c)
    BY <1>1, <1>4, <1>9 DEF Chunk, InStep
  <2>2. b = [a EXCEPT !.at = "embed", !.doc = stored, !.draft = Completed(u, "chunk"),
                      !.asked = a.asked]
    BY <1>1, <1>9, <2>1 DEF Chunk, Advance, Draft, Attempts
  <2>3. ~twice'
    BY <1>4, <1>9 DEF Chunk, history
  <2>4. u \in Rows
    BY <1>1, <1>2, <2>1, WithChunksRows
  <2>5. Covers(u, stored, c, keys)
    BY <1>1, <1>2, <1>4, <2>1, ChunkCovers
  <2>6. Covers(Completed(u, "chunk"), stored, c, keys)
    BY <1>6, <2>4, <2>5
  <2> HIDE DEF a, b, c, d, r, u
  <2> QED BY <1>5, <2>2, <2>3, <2>6 DEF a
<1>10. CASE EmbedBatch
  <2> DEFINE u == Embedded(r, c)
             asked == Asked(r, c)
  <2>1. /\ a.at = "embed" /\ d = stored /\ r.sections = Sections(d, c) /\ r.cut = Cut(d, c)
        /\ ToEmbed(r, c) # {}
    BY <1>1, <1>4, <1>10 DEF EmbedBatch, InStep, Draft
  <2>2. asked \cap keys = {} /\ Covers(u, stored, c, keys \cup asked)
    BY <1>1, <1>2, <1>4, <2>1, EmbedCovers
  <2>3. b = [a EXCEPT !.at = "embed", !.doc = stored, !.draft = u, !.asked = a.asked \cup asked]
    BY <1>1, <1>10, <2>1 DEF EmbedBatch, Draft, Attempts
  <2>4. ~twice'
    BY <1>4, <1>10, <2>2 DEF EmbedBatch, Draft
  <2>5. kept \cup (a.asked \cup asked) = keys \cup asked
    OBVIOUS
  <2>6. Covers(u, stored, c, kept \cup (a.asked \cup asked))
    BY <2>2, <2>5
  <2> HIDE DEF a, b, c, d, r, u, asked
  <2> QED BY <1>5, <2>3, <2>4, <2>6
<1> QED BY <1>7, <1>8, <1>9, <1>10

(* A commit of the draft, by the last stage or by one that fails.             *)
LEMMA PaidCommit ==
  ASSUME Inv, PaidInv, Finish \/ FailStage
  PROVE  PaidInv'
<1> SUFFICES ASSUME ~replaced' PROVE PaidInv'
  BY DEF PaidInv
<1> DEFINE a == attempt
           r == attempt.draft
<1>1. /\ a # Nil /\ a \in Attempts /\ attempt' = Nil /\ UNCHANGED <<stored, config, twice, replaced>>
      /\ kept' = kept \cup a.asked /\ stored \in Docs /\ config \in Versions
  BY DEF Finish, FailStage, Commit, Over, Inv, TypeOK
<1>2. r \in Rows /\ a.config \in Versions /\ a.at \in Stages
  BY <1>1, AttemptFields
<1>3. PICK s \in Stages, v \in {"completed", "failed"} : rows' = [r EXCEPT !.stages[s] = v]
  BY <1>2 DEF Finish, FailStage, Commit, Completed, FailedRows, Draft
<1>4. rows'.sections = r.sections /\ rows'.cut = r.cut /\ rows'.models = r.models
  BY <1>2, <1>3, CompletedRows
<1>5. ~twice /\ Covers(r, stored, a.config, kept') /\ \A f \in Fields : a.config[f] <= config[f]
  BY <1>1 DEF PaidInv
<1>6. Covers(r, stored, config, kept')
  BY <1>1, <1>2, <1>5, NewerCovers
<1>7. Covers(rows', stored, config, kept')
  BY <1>4, <1>6, SameCovers
<1>8. Covers(rows, stored, config, kept)'
  BY <1>1, <1>7
<1>9. stored' # Nil
  BY <1>1, Assumptions
<1> QED BY <1>1, <1>5, <1>8, <1>9 DEF PaidInv

LEMMA PaidPost ==
  ASSUME Inv, PaidInv, Post
  PROVE  PaidInv'
<1> SUFFICES ASSUME ~replaced' PROVE PaidInv'
  BY DEF PaidInv
<1>1. UNCHANGED <<rows, config, stored, kept, twice, replaced>> /\ ~replaced
  BY DEF Post
<1>2. CASE attempt = Nil
  BY <1>1, <1>2, PaidOutside DEF Post
<1>3. CASE attempt # Nil
  <2>1. attempt' = [attempt EXCEPT !.fresh = FALSE] /\ attempt \in Attempts
    BY <1>3 DEF Post, Inv, TypeOK
  <2>2. /\ attempt'.at = attempt.at /\ attempt'.doc = attempt.doc
        /\ attempt'.config = attempt.config /\ attempt'.draft = attempt.draft
        /\ attempt'.asked = attempt.asked
    BY <2>1 DEF Attempts
  <2>3. ~twice' /\ (attempt.at # "load" => attempt.doc = stored)
        /\ Covers(attempt.draft, stored, attempt.config, kept \cup attempt.asked)
    BY <1>1, <1>3 DEF PaidInv
  <2> QED BY <1>1, <1>3, <2>2, <2>3, PaidGoesOn
<1> QED BY <1>2, <1>3

LEMMA PaidNext == Inv /\ PaidInv /\ [Next]_vars => PaidInv'
<1> SUFFICES ASSUME Inv, PaidInv, [Next]_vars PROVE PaidInv'
  OBVIOUS
<1>1. CASE UNCHANGED vars
  BY <1>1, PaidOutside DEF vars
<1>2. CASE \E r \in Retries : Refuse(r) \/ Duplicate(r)
  BY <1>2, PaidOutside DEF Refuse, Duplicate
<1>3. CASE StartIngest \/ CommitIngest \/ FailDownload \/ AbandonIngest \/ Reap
  BY <1>3, PaidOutside DEF StartIngest, CommitIngest, FailDownload, AbandonIngest, Reap, history
<1>4. CASE LoseSession \/ Crash
  BY <1>4, PaidDropped DEF LoseSession, Crash, Over, history
<1>5. CASE BeginInWorkflow \/ \E r \in Retries : Begin(r)
  BY <1>5, PaidBegin DEF BeginInWorkflow, Begin, history
<1> QED BY <1>1, <1>2, <1>3, <1>4, <1>5, PaidPost, PaidStore, PaidDrift, PaidWork, PaidCommit
     DEF Next, Deliver, Work

(* Whatever fails, is retried, delivered twice or deployed, and however many  *)
(* documents, versions changes and pieces there are: an embedding that was    *)
(* committed is not paid for again unless the document was replaced.          *)
THEOREM PaidOnce == Spec => []PaidForOnce
<1>1. PaidInv => PaidForOnce
  BY DEF PaidInv, PaidForOnce
<1> QED BY <1>1, Invariance, PaidInit, PaidNext, PTL DEF Spec

=============================================================================
