---------------------------- MODULE SentimentJob ----------------------------
(***************************************************************************)
(* The batch job that labels reviews (sentiment/), beside the storage      *)
(* consumer that inserts and replaces the same rows.                       *)
(*                                                                         *)
(* A job walks the table by id, a page at a time: it reads a page in one   *)
(* transaction, classifies it outside any, and writes the labels in        *)
(* another.  Nothing keeps two jobs from running at once, and the rows it  *)
(* has read may change before it writes.  Ids come from a sequence, so a   *)
(* row with a smaller id may become visible after one with a larger id.    *)
(***************************************************************************)
EXTENDS Integers, Sequences, FiniteSets, SequencesExt, SortedSets

CONSTANTS
  Job,             \* processes started with "run"
  Text,            \* texts of reviews, NoText aside
  Blank,           \* those that are white space only
  LastId,          \* bound: largest review id
  BatchSize,
  MaxChanges,      \* bound: rows replaced, removed or added while jobs run
  MaxFaults        \* bound: failed writes, deaths, refused labels

ASSUME SentimentAssumption ==
  /\ Blank \subseteq Text
  /\ LastId \in Nat /\ BatchSize \in Nat \ {0}
  /\ MaxChanges \in Nat /\ MaxFaults \in Nat

Id == 1..LastId
NoText == "no text"          \* a content that is NULL or ''
Content == Text \cup {NoText}
NULL == "NULL"               \* no label written yet
NEUTRAL == "NEUTRAL"

(* What the model says of a text; a label is named by the text it is right *)
(* for, so a label put on the wrong row shows.  None for a blank text.     *)
Label(t) == t
Expected(t) == IF t \in Blank THEN NEUTRAL ELSE Label(t)

VARIABLES
  present,         \* visible ids
  content,         \* of each id
  sentiment,       \* of each id
  stage,           \* of each job: idle, fetch, classify, write, ended
  dryRun,          \* jobs started with --dry-run
  afterId,         \* where a job's next page starts
  page,            \* the page it holds: sequence of [id, text]
  results,         \* what it will write: sequence of [id, label]
  exit,            \* its status: "none", "ok" or "error"
  had,             \* history: texts an id has had
  quiet,           \* history: jobs with no other job and no change beside them
  owed,            \* history: of each job, ids it must have labelled when it ends
  changes, faults

table == <<present, content, sentiment, had>>
job == <<stage, dryRun, afterId, page, results, exit>>
history == <<quiet, owed>>
vars == <<table, job, history, changes, faults>>

Eligible == {i \in present : content[i] # NoText}
Running(j) == stage[j] \in {"fetch", "classify", "write"}

Init ==
  /\ present \in SUBSET Id
  /\ content \in [Id -> Content]
  /\ \A i \in Id \ present : content[i] = NoText
  /\ sentiment = [i \in Id |-> NULL]
  /\ had = [i \in Id |-> IF i \in present THEN {content[i]} ELSE {}]
  /\ stage = [j \in Job |-> "idle"]
  /\ dryRun = {}
  /\ afterId = [j \in Job |-> 0]
  /\ page = [j \in Job |-> <<>>]
  /\ results = [j \in Job |-> <<>>]
  /\ exit = [j \in Job |-> "none"]
  /\ quiet = {}
  /\ owed = [j \in Job |-> {}]
  /\ changes = 0 /\ faults = 0

Fault == faults < MaxFaults /\ faults' = faults + 1

-----------------------------------------------------------------------------
(* The storage consumer and the registry: rows come, change and go *)

(* A change beside a running job; one before any job is not counted, as    *)
(* Init already has every table.                                           *)
Change ==
  /\ \E j \in Job : Running(j)
  /\ changes < MaxChanges
  /\ changes' = changes + 1
  /\ quiet' = {}
  /\ UNCHANGED <<job, faults>>

(* A new row becomes visible when its transaction commits, in any order of *)
(* the ids.                                                                *)
InsertReview(i, t) ==
  /\ i \notin present /\ had[i] = {}
  /\ present' = present \cup {i}
  /\ content' = [content EXCEPT ![i] = t]
  /\ had' = [had EXCEPT ![i] = {t}]
  /\ UNCHANGED <<sentiment, owed>>
  /\ Change

(* A newer crawl replaces the row; the conflict clause leaves the label.   *)
ReplaceReview(i, t) ==
  /\ i \in present /\ content[i] # t
  /\ content' = [content EXCEPT ![i] = t]
  /\ had' = [had EXCEPT ![i] = @ \cup {t}]
  /\ owed' = [j \in Job |-> IF t = NoText THEN owed[j] \ {i} ELSE owed[j]]
  /\ UNCHANGED <<present, sentiment>>
  /\ Change

(* The application is deleted and its reviews with it.                     *)
RemoveReview(i) ==
  /\ i \in present
  /\ present' = present \ {i}
  /\ owed' = [j \in Job |-> owed[j] \ {i}]
  /\ UNCHANGED <<content, sentiment, had>>
  /\ Change

-----------------------------------------------------------------------------
(* The job *)

StartJob(j) ==
  /\ stage[j] = "idle"
  /\ \E dry \in BOOLEAN : dryRun' = IF dry THEN dryRun \cup {j} ELSE dryRun
  /\ stage' = [stage EXCEPT ![j] = "fetch"]
  /\ quiet' = IF \E k \in Job : Running(k) THEN {} ELSE {j}
  /\ owed' = [owed EXCEPT ![j] = Eligible]
  /\ UNCHANGED <<table, afterId, page, results, exit, changes, faults>>

(* A mutant: pages by OFFSET instead of by id.                             *)
NextPageByOffset(after) ==
  LET ids == Ascending(Eligible)
      rest == SubSeq(ids, after + 1, Len(ids))
      n == IF Len(rest) < BatchSize THEN Len(rest) ELSE BatchSize
  IN [k \in 1..n |-> [id |-> rest[k], text |-> content[rest[k]]]]

(* fetch_batch: the first BatchSize rows with a text and a larger id.      *)
NextPage(after) ==
  LET ids == Ascending({i \in Eligible : i > after})
      n == IF Len(ids) < BatchSize THEN Len(ids) ELSE BatchSize
  IN [k \in 1..n |-> [id |-> ids[k], text |-> content[ids[k]]]]

(* The process ends, and what it held with it.                             *)
End(j, status) ==
  /\ stage' = [stage EXCEPT ![j] = "ended"]
  /\ exit' = [exit EXCEPT ![j] = status]
  /\ afterId' = [afterId EXCEPT ![j] = 0]
  /\ page' = [page EXCEPT ![j] = <<>>]
  /\ results' = [results EXCEPT ![j] = <<>>]

FetchPage(j) ==
  /\ stage[j] = "fetch"
  /\ NextPage(afterId[j]) # <<>>
  /\ page' = [page EXCEPT ![j] = NextPage(afterId[j])]
  /\ stage' = [stage EXCEPT ![j] = "classify"]
  /\ UNCHANGED <<table, dryRun, afterId, results, exit, history, changes, faults>>

NoMoreReviews(j) ==
  /\ stage[j] = "fetch"
  /\ NextPage(afterId[j]) = <<>>
  /\ End(j, "ok")
  /\ UNCHANGED <<table, dryRun, history, changes, faults>>

(* A mutant: the outputs are put back from the front.                      *)
ClassifyBatchUnaligned(texts) ==
  LET asked == SelectSeq(texts, LAMBDA t : t \notin Blank)
  IN [k \in DOMAIN texts |-> IF k \in DOMAIN asked THEN Label(asked[k]) ELSE NEUTRAL]

(* classify_batch: only texts that are not blank reach the model; its      *)
(* outputs are put back at the places they came from.                      *)
ClassifyBatch(texts) ==
  LET indexed == Ascending({k \in DOMAIN texts : texts[k] \notin Blank})
      outputs == [n \in DOMAIN indexed |-> Label(texts[indexed[n]])]
  IN [k \in DOMAIN texts |->
        IF \E n \in DOMAIN indexed : indexed[n] = k
        THEN outputs[CHOOSE n \in DOMAIN indexed : indexed[n] = k]
        ELSE NEUTRAL]

LabelPage(p) ==
  LET labels == ClassifyBatch([k \in DOMAIN p |-> p[k].text])
  IN [k \in DOMAIN p |-> [id |-> p[k].id, label |-> labels[k]]]

(* A mutant: in a dry run the cursor stays.                                *)
ClassifyAndStay(j) ==
  /\ stage[j] = "classify"
  /\ results' = [results EXCEPT ![j] = LabelPage(page[j])]
  /\ afterId' = [afterId EXCEPT ![j] = IF j \in dryRun THEN @ ELSE Last(page[j]).id]
  /\ page' = [page EXCEPT ![j] = <<>>]
  /\ stage' = [stage EXCEPT ![j] = IF j \in dryRun THEN "fetch" ELSE "write"]
  /\ UNCHANGED <<table, dryRun, exit, history, changes, faults>>

(* The cursor moves past the page before anything is written, and moves    *)
(* in a dry run too.                                                       *)
Classify(j) ==
  /\ stage[j] = "classify"
  /\ results' = [results EXCEPT ![j] = LabelPage(page[j])]
  /\ afterId' = [afterId EXCEPT ![j] = Last(page[j]).id]
  /\ page' = [page EXCEPT ![j] = <<>>]
  /\ stage' = [stage EXCEPT ![j] = IF j \in dryRun THEN "fetch" ELSE "write"]
  /\ UNCHANGED <<table, dryRun, exit, history, changes, faults>>

(* ClassificationError, or the model raises: main returns 1.               *)
ClassificationFails(j) ==
  /\ stage[j] = "classify"
  /\ Fault
  /\ End(j, "error")
  /\ UNCHANGED <<table, dryRun, history, changes>>

(* A mutant: only rows that have no label yet.                             *)
LabelUnlabelled(pairs) ==
  [i \in Id |-> IF i \in present /\ sentiment[i] = NULL /\ \E k \in DOMAIN pairs : pairs[k].id = i
                THEN pairs[CHOOSE k \in DOMAIN pairs : pairs[k].id = i].label
                ELSE sentiment[i]]

(* update_sentiments: rows that are gone are not matched.                  *)
UpdateSentiments(pairs) ==
  [i \in Id |-> IF i \in present /\ \E k \in DOMAIN pairs : pairs[k].id = i
                THEN pairs[CHOOSE k \in DOMAIN pairs : pairs[k].id = i].label
                ELSE sentiment[i]]

Write(j) ==
  /\ stage[j] = "write"
  /\ sentiment' = UpdateSentiments(results[j])
  /\ owed' = [owed EXCEPT ![j] = @ \ {results[j][k].id : k \in DOMAIN results[j]}]
  /\ results' = [results EXCEPT ![j] = <<>>]
  /\ stage' = [stage EXCEPT ![j] = "fetch"]
  /\ UNCHANGED <<present, content, had, dryRun, afterId, page, exit, quiet,
                 changes, faults>>

(* The transaction fails, or its commit was done and not answered.         *)
WriteFails(j) ==
  /\ stage[j] = "write"
  /\ Fault
  /\ sentiment' \in {sentiment, UpdateSentiments(results[j])}
  /\ End(j, "error")
  /\ UNCHANGED <<present, content, had, dryRun, history, changes>>

(* KeyboardInterrupt, a kill, or a database that does not answer a fetch.  *)
JobDies(j) ==
  /\ stage[j] \in {"fetch", "classify"}
  /\ Fault
  /\ End(j, "error")
  /\ UNCHANGED <<table, dryRun, history, changes>>

-----------------------------------------------------------------------------
Step(j) ==
  \/ FetchPage(j) \/ NoMoreReviews(j) \/ Classify(j) \/ Write(j)

Next ==
  \/ \E i \in Id, t \in Content : InsertReview(i, t) \/ ReplaceReview(i, t)
  \/ \E i \in Id : RemoveReview(i)
  \/ \E j \in Job : StartJob(j) \/ Step(j)
  \/ \E j \in Job : ClassificationFails(j) \/ WriteFails(j) \/ JobDies(j)

Spec == Init /\ [][Next]_vars

(* A started job goes on by itself; nothing makes one start.               *)
FairSpec == Spec /\ \A j \in Job : WF_vars(Step(j))

-----------------------------------------------------------------------------
(* Properties *)

TypeOK ==
  /\ present \subseteq Id
  /\ content \in [Id -> Content]
  /\ sentiment \in [Id -> Text \cup {NULL, NEUTRAL}]
  /\ stage \in [Job -> {"idle", "fetch", "classify", "write", "ended"}]
  /\ dryRun \subseteq Job
  /\ afterId \in [Job -> 0..LastId]
  /\ \A j \in Job : Len(page[j]) <= BatchSize /\ Len(results[j]) <= BatchSize
  /\ exit \in [Job -> {"none", "ok", "error"}]
  /\ changes \in 0..MaxChanges /\ faults \in 0..MaxFaults

(* Whatever the jobs and the consumer interleave, a label is always that   *)
(* of a text this review has had: never that of a neighbour in the page,   *)
(* and never one for a text that was absent.                               *)
LabelOfSomeText ==
  \A i \in Id : sentiment[i] # NULL =>
    \E t \in had[i] \ {NoText} : sentiment[i] = Expected(t)

(* A job that ran alone, beside no change, and ended with status 0 leaves  *)
(* every review that has a text with the label of that text.               *)
QuietRunFresh ==
  \A j \in quiet \ dryRun : exit[j] = "ok" =>
    \A i \in Eligible : sentiment[i] = Expected(content[i])

(* A job that ended with status 0 has labelled every review that had a     *)
(* text when the job started and all along: rows that come and go beside   *)
(* it, or another job, never make its walk skip one.                       *)
WalkMissesNothing ==
  \A j \in Job \ dryRun : exit[j] = "ok" => owed[j] = {}

(* A job that is started ends, though it never looks at whether a review   *)
(* is labelled already, and even when it writes nothing.                   *)
JobEnds == \A j \in Job : Running(j) ~> ~Running(j)
=============================================================================
