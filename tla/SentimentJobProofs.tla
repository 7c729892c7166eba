------------------------- MODULE SentimentJobProofs -------------------------
(***************************************************************************)
(* Theorems about SentimentJob, for any jobs, texts, ids, page size,       *)
(* changes beside the jobs and faults.                                     *)
(***************************************************************************)
EXTENDS SentimentJob, SortedSetsProofs

USE SentimentAssumption DEF vars, table, job, history, Id, Content

Read == [id : Id, text : Text]
Verdict == [id : Id, label : Text \cup {NEUTRAL}]

Shape ==
  /\ present \subseteq Id
  /\ content \in [Id -> Content]
  /\ sentiment \in [Id -> Text \cup {NULL, NEUTRAL}]
  /\ had \in [Id -> SUBSET Content]
  /\ stage \in [Job -> {"idle", "fetch", "classify", "write", "ended"}]
  /\ dryRun \subseteq Job
  /\ afterId \in [Job -> 0..LastId]
  /\ page \in [Job -> Seq(Read)]
  /\ results \in [Job -> Seq(Verdict)]
  /\ exit \in [Job -> {"none", "ok", "error"}]
  /\ quiet \subseteq Job
  /\ owed \in [Job -> SUBSET Id]
  /\ changes \in 0..MaxChanges /\ faults \in 0..MaxFaults

(* The stage tells what a job holds.                                       *)
Holding ==
  \A j \in Job :
    /\ Len(page[j]) <= BatchSize /\ Len(results[j]) <= BatchSize
    /\ stage[j] = "idle" => afterId[j] = 0
    /\ stage[j] = "classify" => page[j] # <<>>
    /\ exit[j] = "ok" => stage[j] = "ended"
    /\ owed[j] \subseteq Eligible

Fresh(i) == sentiment[i] = Expected(content[i])
Holds(seq, i) == \E k \in DOMAIN seq : seq[k].id = i

(* What is read, and what will be written, is of the row it is filed under *)
(* and of a text that row has had.                                         *)
OwnTexts ==
  /\ \A i \in present : content[i] \in had[i]
  /\ \A j \in Job :
       /\ \A k \in DOMAIN page[j] : page[j][k].text \in had[page[j][k].id] \ {NoText}
       /\ \A k \in DOMAIN results[j] :
            \E t \in had[results[j][k].id] \ {NoText} : results[j][k].label = Expected(t)

(* Nothing that is owed is behind the cursor, unless it is in hand.        *)
Walk(j) ==
  /\ stage[j] = "fetch" => \A i \in owed[j] : i > afterId[j]
  /\ stage[j] = "classify" =>
       \A i \in owed[j] : i > afterId[j] /\ (i > Last(page[j]).id \/ Holds(page[j], i))
  /\ stage[j] = "write" => \A i \in owed[j] : i > afterId[j] \/ Holds(results[j], i)
  /\ exit[j] = "ok" => owed[j] = {}

(* Beside a quiet job the table stays as it was read, and what is behind   *)
(* the cursor is labelled for the text it has.                             *)
Quiet(j) ==
  /\ \A k \in Job \ {j} : ~Running(k)
  /\ stage[j] # "idle"
  /\ j \notin dryRun =>
       /\ stage[j] \in {"fetch", "classify"} => \A i \in Eligible : i <= afterId[j] => Fresh(i)
       /\ stage[j] = "classify" =>
            /\ \A k \in DOMAIN page[j] : page[j][k].text = content[page[j][k].id]
            /\ \A i \in Eligible : afterId[j] < i /\ i <= Last(page[j]).id => Holds(page[j], i)
       /\ stage[j] = "write" =>
            /\ \A k \in DOMAIN results[j] :
                 results[j][k].label = Expected(content[results[j][k].id])
            /\ \A i \in Eligible : i <= afterId[j] => Fresh(i) \/ Holds(results[j], i)
       /\ exit[j] = "ok" => \A i \in Eligible : Fresh(i)

IInv ==
  /\ Shape /\ Holding /\ OwnTexts /\ LabelOfSomeText
  /\ \A j \in Job \ dryRun : Walk(j)
  /\ \A j \in quiet : Quiet(j)

-----------------------------------------------------------------------------
(* The operators *)

\* A page is the next rows with a text, in order and without a gap; it is empty
\* only when there is none.
LEMMA PageIsNext ==
  ASSUME Shape, NEW after \in 0..LastId
  PROVE  /\ NextPage(after) \in Seq(Read)
         /\ Len(NextPage(after)) <= BatchSize
         /\ \A k \in DOMAIN NextPage(after) :
              /\ NextPage(after)[k].id \in Eligible /\ NextPage(after)[k].id > after
              /\ NextPage(after)[k].text = content[NextPage(after)[k].id]
         /\ NextPage(after) = <<>> => \A i \in Eligible : i <= after
         /\ NextPage(after) # <<>> =>
              \A i \in Eligible : after < i /\ i <= Last(NextPage(after)).id
                                  => Holds(NextPage(after), i)
  <1> DEFINE rows == {i \in Eligible : i > after}
             size == Cardinality(rows)
             ids == Ascending(rows)
             n == IF Len(ids) < BatchSize THEN Len(ids) ELSE BatchSize
             p == [k \in 1..n |-> [id |-> ids[k], text |-> content[ids[k]]]]
  <1>1. rows \in SUBSET Int /\ IsFiniteSet(rows)
    <2>1. rows \in SUBSET (1..LastId) /\ rows \in SUBSET Int
      <3>1. \A i \in rows : i \in present
        BY DEF Eligible
      <3>2. \A i \in present : i \in 1..LastId /\ i \in Int
        BY DEF Shape
      <3> HIDE DEF rows
      <3> QED BY <3>1, <3>2
    <2>2. IsFiniteSet(1..LastId)
      BY FS_Interval
    <2> HIDE DEF rows
    <2> QED BY <2>1, <2>2, FS_Subset
  <1>2. /\ size \in Nat /\ ids \in [1..size -> rows] /\ Increases(ids)
        /\ \A i \in rows : \E k \in 1..size : ids[k] = i
    <2> HIDE DEF rows
    <2> QED BY <1>1, AscendingLists
  <1>3. NextPage(after) = p
    BY DEF NextPage
  <1>4. \A i \in rows : i \in Eligible /\ i \in Id /\ i > after /\ content[i] \in Text
    BY DEF Shape, Eligible
  <1>5. \A i \in Eligible : i \in Int /\ (i > after => i \in rows)
    BY DEF Shape, Eligible
  <1> HIDE DEF rows, size, ids
  <1>6. Len(ids) = size /\ n \in 0..size /\ n <= BatchSize
    BY <1>2
  <1> HIDE DEF n
  <1>7. \A k \in 1..n : ids[k] \in rows /\ p[k].id = ids[k] /\ p[k].text = content[ids[k]]
    BY <1>2, <1>6
  <1>8. p \in [1..n -> Read]
    BY <1>4, <1>7 DEF Read
  <1>9. p \in Seq(Read) /\ Len(p) = n /\ DOMAIN p = 1..n
    <2> HIDE DEF p
    <2> QED BY <1>6, <1>8
  <1>10. p = <<>> => \A i \in Eligible : i <= after
    <2> SUFFICES ASSUME p = <<>>, NEW i \in Eligible, i > after PROVE FALSE
      BY <1>5
    <2>1. n = 0
      BY <1>9
    <2>2. size = 0
      BY <1>6, <2>1 DEF n
    <2> QED BY <1>2, <1>5, <2>2
  <1>11. p # <<>> => \A i \in Eligible : after < i /\ i <= Last(p).id => Holds(p, i)
    <2> SUFFICES ASSUME p # <<>>, NEW i \in Eligible, after < i, i <= Last(p).id
                 PROVE  Holds(p, i)
      OBVIOUS
    <2>1. n >= 1
      <3> HIDE DEF p
      <3> QED BY <1>6, <1>9
    <2>2. Last(p).id = ids[n]
      BY <1>7, <1>9, <2>1, <1>6 DEF Last
    <2>3. PICK k \in 1..size : ids[k] = i
      BY <1>2, <1>5
    <2>4. k <= n
      <3>1. n \in 1..size
        BY <1>6, <2>1
      <3>2. ids \in [1..size -> Int]
        BY <1>1, <1>2
      <3>3. ids[n] \in Int /\ ids[k] \in Int
        BY <3>1, <3>2
      <3>4. n < k => ids[n] < ids[k]
        BY <1>2, <3>1 DEF Increases
      <3> QED BY <2>2, <2>3, <3>1, <3>3, <3>4
    <2>5. k \in DOMAIN p /\ p[k].id = i
      BY <1>7, <1>9, <2>3, <2>4
    <2> QED BY <2>5 DEF Holds
  <1> QED BY <1>3, <1>4, <1>6, <1>7, <1>9, <1>10, <1>11

\* classify_batch gives each text of a page its own label, blank ones aside.
LEMMA LabelsAreOwn ==
  ASSUME NEW p \in Seq(Read)
  PROVE  /\ LabelPage(p) \in Seq(Verdict)
         /\ Len(LabelPage(p)) = Len(p) /\ DOMAIN LabelPage(p) = DOMAIN p
         /\ \A k \in DOMAIN p : /\ LabelPage(p)[k].id = p[k].id
                                 /\ LabelPage(p)[k].label = Expected(p[k].text)
  <1> DEFINE texts == [k \in DOMAIN p |-> p[k].text]
             asked == {k \in DOMAIN texts : texts[k] \notin Blank}
             indexed == Ascending(asked)
             outputs == [n \in DOMAIN indexed |-> Label(texts[indexed[n]])]
             labels == ClassifyBatch(texts)
  <1>1. Len(p) \in Nat /\ DOMAIN p = 1..Len(p) /\ \A k \in DOMAIN p : p[k] \in Read
    OBVIOUS
  <1>2. asked \in SUBSET Int /\ IsFiniteSet(asked)
    <2>1. asked \in SUBSET (1..Len(p)) /\ asked \in SUBSET Int
      BY <1>1
    <2>2. IsFiniteSet(1..Len(p))
      BY <1>1, FS_Interval
    <2> HIDE DEF asked
    <2> QED BY <2>1, <2>2, FS_Subset
  <1>3. /\ indexed \in [1..Cardinality(asked) -> asked]
        /\ \A k \in asked : \E n \in 1..Cardinality(asked) : indexed[n] = k
    <2> HIDE DEF asked
    <2> QED BY <1>2, AscendingLists
  <1>4. DOMAIN indexed = 1..Cardinality(asked)
    <2> HIDE DEF indexed
    <2> QED BY <1>3
  <1>5. /\ DOMAIN labels = DOMAIN p
        /\ \A k \in DOMAIN p : labels[k] =
              IF \E n \in DOMAIN indexed : indexed[n] = k
              THEN outputs[CHOOSE n \in DOMAIN indexed : indexed[n] = k]
              ELSE NEUTRAL
    <2> HIDE DEF indexed, outputs
    <2> QED BY DEF ClassifyBatch, outputs, indexed
  <1>6. ASSUME NEW k \in DOMAIN p PROVE labels[k] = Expected(p[k].text)
    <2>1. CASE p[k].text \in Blank
      <3>1. k \notin asked
        BY <2>1
      <3>2. ~ \E n \in DOMAIN indexed : indexed[n] = k
        <4> HIDE DEF asked, indexed
        <4> QED BY <1>3, <1>4, <3>1
      <3> HIDE DEF labels, indexed, outputs
      <3> QED BY <1>5, <2>1, <3>2 DEF Expected
    <2>2. CASE p[k].text \notin Blank
      <3>1. k \in asked
        BY <2>2
      <3> DEFINE m == CHOOSE n \in DOMAIN indexed : indexed[n] = k
      <3>2. m \in DOMAIN indexed /\ indexed[m] = k
        <4> HIDE DEF asked, indexed
        <4> QED BY <1>3, <1>4, <3>1
      <3>3. labels[k] = outputs[m]
        <4> HIDE DEF asked, indexed, outputs, labels
        <4> QED BY <1>5, <1>3, <1>4, <3>1
      <3> HIDE DEF m, indexed, labels
      <3>4. outputs[m] = Label(texts[k])
        <4> HIDE DEF texts
        <4> QED BY <3>2
      <3> QED BY <2>2, <3>3, <3>4 DEF Expected
    <2> QED BY <2>1, <2>2
  <1>7. \A k \in DOMAIN p : Expected(p[k].text) \in Text \cup {NEUTRAL} /\ p[k].id \in Id
    BY <1>1 DEF Read, Expected, Label
  <1>8. LabelPage(p) = [k \in DOMAIN p |-> [id |-> p[k].id, label |-> labels[k]]]
    BY DEF LabelPage
  <1> HIDE DEF labels
  <1>9. /\ DOMAIN LabelPage(p) = DOMAIN p
        /\ \A k \in DOMAIN p : /\ LabelPage(p)[k].id = p[k].id
                                /\ LabelPage(p)[k].label = Expected(p[k].text)
    BY <1>6, <1>8
  <1>10. LabelPage(p) \in [1..Len(p) -> Verdict]
    BY <1>1, <1>6, <1>7, <1>8 DEF Verdict
  <1> QED BY <1>1, <1>9, <1>10

\* update_sentiments changes the label of the visible rows it is given only.
LEMMA UpdateIsOfPairs ==
  ASSUME Shape, NEW pairs \in Seq(Verdict)
  PROVE  /\ UpdateSentiments(pairs) \in [Id -> Text \cup {NULL, NEUTRAL}]
         /\ \A i \in Id :
              IF i \in present /\ Holds(pairs, i)
              THEN \E k \in DOMAIN pairs :
                     pairs[k].id = i /\ UpdateSentiments(pairs)[i] = pairs[k].label
              ELSE UpdateSentiments(pairs)[i] = sentiment[i]
  <1> DEFINE s == UpdateSentiments(pairs)
  <1>1. \A k \in DOMAIN pairs : pairs[k].label \in Text \cup {NEUTRAL}
    <2>1. \A k \in DOMAIN pairs : pairs[k] \in Verdict
      OBVIOUS
    <2> QED BY <2>1 DEF Verdict
  <1>2. \A i \in Id : s[i] = IF i \in present /\ Holds(pairs, i)
                             THEN pairs[CHOOSE k \in DOMAIN pairs : pairs[k].id = i].label
                             ELSE sentiment[i]
    BY DEF UpdateSentiments, Holds
  <1>3. ASSUME NEW i \in Id, Holds(pairs, i)
        PROVE  \E k \in DOMAIN pairs : k = (CHOOSE m \in DOMAIN pairs : pairs[m].id = i)
                                         /\ pairs[k].id = i
    BY <1>3 DEF Holds
  <1>4. \A i \in Id : IF i \in present /\ Holds(pairs, i)
                      THEN \E k \in DOMAIN pairs : pairs[k].id = i /\ s[i] = pairs[k].label
                      ELSE s[i] = sentiment[i]
    <2> HIDE DEF s
    <2> QED BY <1>2, <1>3
  <1>5. s \in [Id -> Text \cup {NULL, NEUTRAL}]
    <2>1. \A i \in Id : s[i] \in Text \cup {NULL, NEUTRAL}
      <3> HIDE DEF s
      <3> QED BY <1>1, <1>4 DEF Shape
    <2> QED BY <2>1 DEF UpdateSentiments
  <1> QED BY <1>4, <1>5

-----------------------------------------------------------------------------
(* The steps *)

LEMMA Initially == Init => IInv
  <1> SUFFICES ASSUME Init PROVE IInv
    OBVIOUS
  <1>1. <<>> \in Seq(Read) /\ <<>> \in Seq(Verdict) /\ Len(<<>>) = 0
    OBVIOUS
  <1>2. Shape
    <2>1. \A i \in Id : had[i] \in SUBSET Content /\ had[i] = IF i \in present THEN {content[i]} ELSE {}
      BY DEF Init
    <2>2. had \in [Id -> SUBSET Content]
      BY <2>1 DEF Init
    <2> QED BY <1>1, <2>2 DEF Init, Shape
  <1>3. Holding
    BY <1>1 DEF Init, Holding
  <1>4. OwnTexts /\ LabelOfSomeText
    BY DEF Init, OwnTexts, LabelOfSomeText
  <1>5. \A j \in Job : Walk(j)
    BY DEF Init, Walk
  <1> QED BY <1>2, <1>3, <1>4, <1>5 DEF Init, IInv

\* The changes beside the jobs.
TableStep ==
  \/ \E i \in Id, t \in Content : InsertReview(i, t) \/ ReplaceReview(i, t)
  \/ \E i \in Id : RemoveReview(i)

\* The ways in which a job ends.
Ends(j) ==
  NoMoreReviews(j) \/ ClassificationFails(j) \/ WriteFails(j) \/ JobDies(j)

\* What is left of the table and of what was read: texts are remembered, and a
\* text that is owed is still there.
LEMMA TableKept ==
  ASSUME Shape, Holding, TableStep
  PROVE  /\ UNCHANGED <<sentiment, job, faults>>
         /\ quiet' = {} /\ changes' \in 0..MaxChanges
         /\ present' \subseteq Id /\ content' \in [Id -> Content]
         /\ had' \in [Id -> SUBSET Content] /\ owed' \in [Job -> SUBSET Id]
         /\ \A i \in Id : had[i] \subseteq had'[i]
         /\ \A i \in present' : content'[i] \in had'[i] \/ (i \in present /\ content'[i] = content[i])
         /\ \A j \in Job : owed'[j] \subseteq owed[j]
         /\ \A j \in Job : owed'[j] \subseteq Eligible'
  <1> USE DEF Shape, Holding, Eligible, Change
  <1>1. ASSUME NEW i \in Id, NEW t \in Content, InsertReview(i, t)
        PROVE  /\ changes' \in 0..MaxChanges
               /\ present' \subseteq Id /\ content' \in [Id -> Content]
               /\ had' \in [Id -> SUBSET Content]
               /\ \A k \in Id : had[k] \subseteq had'[k]
               /\ \A k \in present' : content'[k] \in had'[k] \/ (k \in present /\ content'[k] = content[k])
               /\ \A j \in Job : owed'[j] \subseteq Eligible'
    BY <1>1 DEF InsertReview
  <1>2. ASSUME NEW i \in Id, NEW t \in Content, ReplaceReview(i, t)
        PROVE  /\ changes' \in 0..MaxChanges
               /\ content' \in [Id -> Content] /\ had' \in [Id -> SUBSET Content]
               /\ \A k \in Id : had[k] \subseteq had'[k]
               /\ \A k \in present' : content'[k] \in had'[k] \/ (k \in present /\ content'[k] = content[k])
               /\ owed' \in [Job -> SUBSET Id]
               /\ \A j \in Job : owed'[j] \subseteq owed[j]
               /\ \A j \in Job : owed'[j] \subseteq Eligible'
    <2>1. content' \in [Id -> Content] /\ \A k \in Id : content'[k] = IF k = i THEN t ELSE content[k]
      BY <1>2 DEF ReplaceReview
    <2>2. had' \in [Id -> SUBSET Content]
      BY <1>2 DEF ReplaceReview
    <2>3. \A j \in Job : owed'[j] = IF t = NoText THEN owed[j] \ {i} ELSE owed[j]
      BY <1>2 DEF ReplaceReview
    <2>4. \A j \in Job : owed'[j] \subseteq Eligible'
      BY <1>2, <2>1, <2>3 DEF ReplaceReview
    <2>5. \A k \in Id : had'[k] = IF k = i THEN had[k] \cup {t} ELSE had[k]
      BY <1>2 DEF ReplaceReview
    <2> QED BY <1>2, <2>1, <2>2, <2>3, <2>4, <2>5 DEF ReplaceReview
  <1>3. ASSUME NEW i \in Id, RemoveReview(i)
        PROVE  /\ changes' \in 0..MaxChanges
               /\ present' \subseteq present
               /\ owed' \in [Job -> SUBSET Id]
               /\ \A j \in Job : owed'[j] \subseteq owed[j]
               /\ \A j \in Job : owed'[j] \subseteq Eligible'
    BY <1>3 DEF RemoveReview
  <1>4. CASE \E i \in Id, t \in Content : InsertReview(i, t)
    <2> PICK i \in Id, t \in Content : InsertReview(i, t)
      BY <1>4
    <2>1. UNCHANGED <<sentiment, owed, job, faults>> /\ quiet' = {}
      BY DEF InsertReview
    <2> QED BY <1>1, <2>1
  <1>5. CASE \E i \in Id, t \in Content : ReplaceReview(i, t)
    <2> PICK i \in Id, t \in Content : ReplaceReview(i, t)
      BY <1>5
    <2>1. UNCHANGED <<present, sentiment, job, faults>> /\ quiet' = {}
      BY DEF ReplaceReview
    <2> QED BY <1>2, <2>1
  <1>6. CASE \E i \in Id : RemoveReview(i)
    <2> PICK i \in Id : RemoveReview(i)
      BY <1>6
    <2>1. UNCHANGED <<content, had, sentiment, job, faults>> /\ quiet' = {}
      BY DEF RemoveReview
    <2> QED BY <1>3, <2>1
  <1> QED BY <1>4, <1>5, <1>6 DEF TableStep

LEMMA Steps ==
  ASSUME [Next]_vars
  PROVE  \/ UNCHANGED vars
         \/ TableStep
         \/ \E j \in Job : \/ StartJob(j) \/ FetchPage(j) \/ Classify(j)
                           \/ Write(j) \/ Ends(j)
  BY DEF Next, Step, TableStep, Ends

\* What a job takes in its hand is well formed.
LEMMA PageInHand ==
  ASSUME Shape, Holding, NEW j \in Job, Classify(j)
  PROVE  /\ page[j] \in Seq(Read) /\ Len(page[j]) \in Nat \ {0}
         /\ Len(page[j]) \in DOMAIN page[j]
         /\ Last(page[j]) = page[j][Len(page[j])] /\ Last(page[j]).id \in Id
  <1>1. page[j] \in Seq(Read) /\ page[j] # <<>>
    BY DEF Shape, Holding, Classify
  <1>2. Len(page[j]) \in Nat \ {0} /\ Len(page[j]) \in DOMAIN page[j]
    BY <1>1
  <1>3. page[j][Len(page[j])] \in Read
    BY <1>1, <1>2
  <1> QED BY <1>1, <1>2, <1>3 DEF Last, Read

\* The way a job ends leaves nothing in its hand.
LEMMA EndsEmpty ==
  ASSUME Shape, NEW j \in Job, Ends(j)
  PROVE  /\ UNCHANGED <<present, content, had, dryRun, quiet, owed, changes>>
         /\ faults' \in 0..MaxFaults
         /\ sentiment' = sentiment \/ (WriteFails(j) /\ sentiment' = UpdateSentiments(results[j]))
         /\ stage' = [stage EXCEPT ![j] = "ended"]
         /\ \E status \in {"ok", "error"} :
              /\ exit' = [exit EXCEPT ![j] = status]
              /\ status = "ok" => NoMoreReviews(j)
         /\ afterId' = [afterId EXCEPT ![j] = 0]
         /\ page' = [page EXCEPT ![j] = <<>>]
         /\ results' = [results EXCEPT ![j] = <<>>]
  BY DEF Shape, Ends, End, NoMoreReviews, ClassificationFails, WriteFails, JobDies, Fault

LEMMA ShapeStep ==
  ASSUME IInv, [Next]_vars
  PROVE  Shape'
  <1>1. Shape /\ Holding
    BY DEF IInv
  <1>2. CASE UNCHANGED vars
    BY <1>1, <1>2 DEF Shape
  <1>3. CASE TableStep
    BY <1>1, <1>3, TableKept DEF Shape
  <1>4. ASSUME NEW j \in Job, StartJob(j) PROVE Shape'
    <2>1. Eligible \in SUBSET Id
      BY <1>1 DEF Shape, Eligible
    <2>2. owed' \in [Job -> SUBSET Id] /\ quiet' \subseteq Job /\ dryRun' \subseteq Job
      BY <1>1, <1>4, <2>1 DEF StartJob, Shape
    <2> QED BY <1>1, <1>4, <2>2 DEF StartJob, Shape
  <1>5. ASSUME NEW j \in Job, FetchPage(j) PROVE Shape'
    <2>1. NextPage(afterId[j]) \in Seq(Read)
      BY <1>1, PageIsNext DEF Shape
    <2> QED BY <1>1, <1>5, <2>1 DEF FetchPage, Shape
  <1>6. ASSUME NEW j \in Job, Classify(j) PROVE Shape'
    <2>1. LabelPage(page[j]) \in Seq(Verdict) /\ Last(page[j]).id \in 0..LastId
      BY <1>1, <1>6, PageInHand, LabelsAreOwn
    <2> QED BY <1>1, <1>6, <2>1 DEF Classify, Shape
  <1>7. ASSUME NEW j \in Job, Write(j) PROVE Shape'
    <2>1. UpdateSentiments(results[j]) \in [Id -> Text \cup {NULL, NEUTRAL}]
      BY <1>1, UpdateIsOfPairs DEF Shape
    <2>2. owed' \in [Job -> SUBSET Id]
      BY <1>1, <1>7 DEF Write, Shape
    <2>3. results' \in [Job -> Seq(Verdict)]
      BY <1>1, <1>7 DEF Write, Shape
    <2> QED BY <1>1, <1>7, <2>1, <2>2, <2>3 DEF Write, Shape
  <1>8. ASSUME NEW j \in Job, Ends(j) PROVE Shape'
    <2>1. UpdateSentiments(results[j]) \in [Id -> Text \cup {NULL, NEUTRAL}]
      BY <1>1, UpdateIsOfPairs DEF Shape
    <2>2. /\ page' = [page EXCEPT ![j] = <<>>] /\ results' = [results EXCEPT ![j] = <<>>]
          /\ afterId' = [afterId EXCEPT ![j] = 0] /\ stage' = [stage EXCEPT ![j] = "ended"]
          /\ sentiment' \in {sentiment, UpdateSentiments(results[j])}
          /\ faults' \in 0..MaxFaults
          /\ \E status \in {"ok", "error"} : exit' = [exit EXCEPT ![j] = status]
          /\ UNCHANGED <<present, content, had, dryRun, quiet, owed, changes>>
      BY <1>1, <1>8, EndsEmpty
    <2>3. page' \in [Job -> Seq(Read)] /\ results' \in [Job -> Seq(Verdict)]
      BY <1>1, <2>2 DEF Shape
    <2>4. exit' \in [Job -> {"none", "ok", "error"}] /\ afterId' \in [Job -> 0..LastId]
      BY <1>1, <2>2 DEF Shape
    <2> QED BY <1>1, <2>1, <2>2, <2>3, <2>4 DEF Shape
  <1> QED BY <1>2, <1>3, <1>4, <1>5, <1>6, <1>7, <1>8, Steps

LEMMA HoldingStep ==
  ASSUME IInv, [Next]_vars
  PROVE  Holding'
  <1>1. Shape /\ Holding
    BY DEF IInv
  <1>2. CASE UNCHANGED vars
    BY <1>1, <1>2 DEF Holding, Eligible
  <1>3. CASE TableStep
    <2>1. \A k \in Job : owed'[k] \subseteq Eligible'
      BY <1>1, <1>3, TableKept
    <2>2. UNCHANGED job
      BY <1>1, <1>3, TableKept
    <2> QED BY <1>1, <2>1, <2>2 DEF Holding
  <1>4. ASSUME NEW j \in Job, StartJob(j) PROVE Holding'
    <2>1. Eligible' = Eligible
      BY <1>4 DEF StartJob, Eligible
    <2> QED BY <1>1, <1>4, <2>1 DEF StartJob, Holding, Shape
  <1>5. ASSUME NEW j \in Job, FetchPage(j) PROVE Holding'
    <2>1. Eligible' = Eligible
      BY <1>5 DEF FetchPage, Eligible
    <2>2. Len(NextPage(afterId[j])) <= BatchSize
      BY <1>1, PageIsNext DEF Shape
    <2> QED BY <1>1, <1>5, <2>1, <2>2 DEF FetchPage, Holding, Shape
  <1>6. ASSUME NEW j \in Job, Classify(j) PROVE Holding'
    <2>1. Eligible' = Eligible
      BY <1>6 DEF Classify, Eligible
    <2>2. Len(LabelPage(page[j])) <= BatchSize /\ Len(<<>>) <= BatchSize
      BY <1>1, <1>6, PageInHand, LabelsAreOwn DEF Holding
    <2> QED BY <1>1, <1>6, <2>1, <2>2 DEF Classify, Holding, Shape
  <1>7. ASSUME NEW j \in Job, Write(j) PROVE Holding'
    <2>1. Eligible' = Eligible
      BY <1>7 DEF Write, Eligible
    <2>2. Len(<<>>) <= BatchSize
      OBVIOUS
    <2>3. \A k \in Job : owed'[k] \subseteq owed[k]
      BY <1>1, <1>7 DEF Write, Shape
    <2> QED BY <1>1, <1>7, <2>1, <2>2, <2>3 DEF Write, Holding, Shape
  <1>8. ASSUME NEW j \in Job, Ends(j) PROVE Holding'
    <2>1. Eligible' = Eligible
      BY <1>1, <1>8, EndsEmpty DEF Eligible
    <2>2. Len(<<>>) <= BatchSize
      OBVIOUS
    <2>3. /\ UNCHANGED owed
          /\ stage' = [stage EXCEPT ![j] = "ended"]
          /\ \E status \in {"ok", "error"} : exit' = [exit EXCEPT ![j] = status]
          /\ afterId' = [afterId EXCEPT ![j] = 0]
          /\ page' = [page EXCEPT ![j] = <<>>]
          /\ results' = [results EXCEPT ![j] = <<>>]
      BY <1>1, <1>8, EndsEmpty
    <2>4. ASSUME NEW k \in Job
          PROVE  /\ page'[k] \in {<<>>, page[k]} /\ results'[k] \in {<<>>, results[k]}
                 /\ stage'[k] = "ended" \/ (k # j /\ stage'[k] = stage[k]
                      /\ afterId'[k] = afterId[k] /\ page'[k] = page[k] /\ exit'[k] = exit[k])
                 /\ owed'[k] = owed[k]
      BY <1>1, <2>3 DEF Shape
    <2> HIDE <2>3
    <2> QED BY <1>1, <2>1, <2>2, <2>4 DEF Holding
  <1> QED BY <1>2, <1>3, <1>4, <1>5, <1>6, <1>7, <1>8, Steps

\* Writing what a job has in its hand labels rows for texts of their own.
LEMMA UpdateOwn ==
  ASSUME Shape, OwnTexts, LabelOfSomeText, NEW j \in Job, NEW i \in Id,
         UpdateSentiments(results[j])[i] # NULL
  PROVE  \E t \in had[i] \ {NoText} : UpdateSentiments(results[j])[i] = Expected(t)
  <1> DEFINE s == UpdateSentiments(results[j])
  <1>1. IF i \in present /\ Holds(results[j], i)
        THEN \E k \in DOMAIN results[j] : results[j][k].id = i /\ s[i] = results[j][k].label
        ELSE s[i] = sentiment[i]
    BY UpdateIsOfPairs DEF Shape
  <1> HIDE DEF s
  <1>2. CASE s[i] = sentiment[i]
    BY <1>2 DEF LabelOfSomeText, s
  <1>3. CASE \E k \in DOMAIN results[j] : results[j][k].id = i /\ s[i] = results[j][k].label
    BY <1>3 DEF OwnTexts, s
  <1> QED BY <1>1, <1>2, <1>3

LEMMA LabelStep ==
  ASSUME IInv, [Next]_vars
  PROVE  LabelOfSomeText'
  <1>1. Shape /\ Holding /\ OwnTexts /\ LabelOfSomeText
    BY DEF IInv
  <1>2. CASE UNCHANGED <<sentiment, had>>
    BY <1>1, <1>2 DEF LabelOfSomeText
  <1>3. CASE TableStep
    <2>1. sentiment' = sentiment /\ \A i \in Id : had[i] \subseteq had'[i]
      BY <1>1, <1>3, TableKept
    <2> QED BY <1>1, <2>1 DEF LabelOfSomeText
  <1>4. ASSUME NEW j \in Job, sentiment' = UpdateSentiments(results[j]), had' = had
        PROVE  LabelOfSomeText'
    BY <1>1, <1>4, UpdateOwn DEF LabelOfSomeText
  <1>5. ASSUME NEW j \in Job, StartJob(j) \/ FetchPage(j) \/ Classify(j) \/ Write(j) \/ Ends(j)
        PROVE  LabelOfSomeText'
    <2>1. CASE StartJob(j) \/ FetchPage(j) \/ Classify(j)
      BY <1>2, <2>1 DEF StartJob, FetchPage, Classify
    <2>2. CASE Write(j)
      BY <1>4, <2>2 DEF Write
    <2>3. CASE Ends(j)
      BY <1>1, <1>2, <1>4, <2>3, EndsEmpty
    <2> QED BY <1>5, <2>1, <2>2, <2>3
  <1> QED BY <1>2, <1>3, <1>5, Steps

LEMMA TextsStep ==
  ASSUME IInv, [Next]_vars
  PROVE  OwnTexts'
  <1> DEFINE Row(j) == \A k \in DOMAIN page[j] : page[j][k].text \in had[page[j][k].id] \ {NoText}
             Out(j) == \A k \in DOMAIN results[j] :
                         \E t \in had[results[j][k].id] \ {NoText} : results[j][k].label = Expected(t)
             Now == \A i \in present : content[i] \in had[i]
  <1>1. Shape /\ Holding /\ Now /\ \A j \in Job : Row(j) /\ Out(j)
    BY DEF IInv, OwnTexts
  <1>0. SUFFICES Now' /\ \A j \in Job : Row(j)' /\ Out(j)'
    BY DEF OwnTexts
  <1>2. CASE UNCHANGED vars
    BY <1>1, <1>2
  <1>3. CASE TableStep
    <2>1. /\ \A i \in Id : had[i] \subseteq had'[i]
          /\ \A i \in present' : content'[i] \in had'[i] \/ (i \in present /\ content'[i] = content[i])
          /\ UNCHANGED <<page, results>> /\ present' \subseteq Id
      BY <1>1, <1>3, TableKept
    <2>2. Now'
      BY <1>1, <2>1
    <2>3. \A j \in Job : /\ \A k \in DOMAIN page[j] : page[j][k].id \in Id
                        /\ \A k \in DOMAIN results[j] : results[j][k].id \in Id
      <3> TAKE j \in Job
      <3>1. /\ \A k \in DOMAIN page[j] : page[j][k] \in Read
            /\ \A k \in DOMAIN results[j] : results[j][k] \in Verdict
        BY <1>1 DEF Shape
      <3> QED BY <3>1 DEF Read, Verdict
    <2>4. \A j \in Job : Row(j)'
      BY <1>1, <2>1, <2>3
    <2>5. \A j \in Job : Out(j)'
      BY <1>1, <2>1, <2>3
    <2> QED BY <2>2, <2>4, <2>5
  <1>4. ASSUME NEW j \in Job, StartJob(j)
        PROVE  Now' /\ \A k \in Job : Row(k)' /\ Out(k)'
    BY <1>1, <1>4 DEF StartJob
  <1>5. ASSUME NEW j \in Job, FetchPage(j)
        PROVE  Now' /\ \A k \in Job : Row(k)' /\ Out(k)'
    <2> DEFINE p == NextPage(afterId[j])
    <2>1. \A k \in DOMAIN p : p[k].id \in Eligible /\ p[k].text = content[p[k].id]
      BY <1>1, PageIsNext DEF Shape
    <2> HIDE DEF p
    <2>2. \A k \in DOMAIN p : p[k].text \in had[p[k].id] \ {NoText}
      BY <1>1, <2>1 DEF Eligible
    <2>3. \A k \in Job : page'[k] = IF k = j THEN p ELSE page[k]
      BY <1>1, <1>5 DEF FetchPage, Shape, p
    <2>4. UNCHANGED <<present, content, had, results>>
      BY <1>5 DEF FetchPage
    <2>5. \A k \in Job : Row(k)'
      BY <1>1, <2>2, <2>3, <2>4
    <2> QED BY <1>1, <2>4, <2>5
  <1>6. ASSUME NEW j \in Job, Classify(j)
        PROVE  Now' /\ \A k \in Job : Row(k)' /\ Out(k)'
    <2> DEFINE q == LabelPage(page[j])
    <2>1. DOMAIN q = DOMAIN page[j]
          /\ \A k \in DOMAIN page[j] : q[k].id = page[j][k].id /\ q[k].label = Expected(page[j][k].text)
      BY <1>1, <1>6, PageInHand, LabelsAreOwn
    <2> HIDE DEF q
    <2>2. \A k \in DOMAIN q : \E t \in had[q[k].id] \ {NoText} : q[k].label = Expected(t)
      BY <1>1, <2>1
    <2>3. \A k \in Job : /\ page'[k] = IF k = j THEN <<>> ELSE page[k]
                        /\ results'[k] = IF k = j THEN q ELSE results[k]
      BY <1>1, <1>6 DEF Classify, Shape, q
    <2>4. UNCHANGED <<present, content, had>>
      BY <1>6 DEF Classify
    <2>5. \A k \in Job : Row(k)'
      BY <1>1, <2>3, <2>4
    <2>6. \A k \in Job : Out(k)'
      BY <1>1, <2>2, <2>3, <2>4
    <2> QED BY <1>1, <2>4, <2>5, <2>6
  <1>7. ASSUME NEW j \in Job, Write(j) \/ Ends(j)
        PROVE  Now' /\ \A k \in Job : Row(k)' /\ Out(k)'
    <2>1. UNCHANGED <<present, content, had>>
      BY <1>1, <1>7, EndsEmpty DEF Write
    <2>2. /\ \A k \in Job : page'[k] \in {<<>>, page[k]}
          /\ \A k \in Job : results'[k] \in {<<>>, results[k]}
      BY <1>1, <1>7, EndsEmpty DEF Write, Shape
    <2>3. ASSUME NEW k \in Job PROVE Row(k)'
      <3>1. CASE page'[k] = <<>>
        BY <3>1
      <3>2. CASE page'[k] = page[k]
        <4>1. Row(k)
          BY <1>1
        <4> QED BY <2>1, <3>2, <4>1
      <3>3. page'[k] = <<>> \/ page'[k] = page[k]
        BY <2>2
      <3> HIDE DEF Row
      <3> QED BY <3>1, <3>2, <3>3
    <2>4. \A k \in Job : Out(k)'
      BY <1>1, <2>1, <2>2
    <2> QED BY <1>1, <2>1, <2>3, <2>4
  <1> QED BY <1>2, <1>3, <1>4, <1>5, <1>6, <1>7, Steps

\* One job's step leaves what another has in its hand alone.
LEMMA OthersKept ==
  ASSUME Shape, NEW j \in Job,
         StartJob(j) \/ FetchPage(j) \/ Classify(j) \/ Write(j) \/ Ends(j)
  PROVE  /\ UNCHANGED <<present, content>> /\ Eligible' = Eligible
         /\ dryRun \subseteq dryRun'
         /\ \A k \in Job \ {j} :
              /\ stage'[k] = stage[k] /\ afterId'[k] = afterId[k]
              /\ page'[k] = page[k] /\ results'[k] = results[k]
              /\ exit'[k] = exit[k] /\ owed'[k] = owed[k]
  <1>1. CASE StartJob(j)
    BY <1>1 DEF StartJob, Shape, Eligible
  <1>2. CASE FetchPage(j)
    BY <1>2 DEF FetchPage, Shape, Eligible
  <1>3. CASE Classify(j)
    BY <1>3 DEF Classify, Shape, Eligible
  <1>4. CASE Write(j)
    BY <1>4 DEF Write, Shape, Eligible
  <1>5. CASE Ends(j)
    <2>1. UNCHANGED <<present, content, dryRun, owed>>
      BY <1>5, EndsEmpty
    <2>2. /\ stage' = [stage EXCEPT ![j] = "ended"]
          /\ \E status \in {"ok", "error"} : exit' = [exit EXCEPT ![j] = status]
          /\ afterId' = [afterId EXCEPT ![j] = 0]
          /\ page' = [page EXCEPT ![j] = <<>>]
          /\ results' = [results EXCEPT ![j] = <<>>]
      BY <1>5, EndsEmpty
    <2>3. \A k \in Job \ {j} : /\ stage'[k] = stage[k] /\ afterId'[k] = afterId[k]
                              /\ page'[k] = page[k] /\ results'[k] = results[k]
                              /\ exit'[k] = exit[k]
      BY <2>2 DEF Shape
    <2> QED BY <2>1, <2>3 DEF Eligible
  <1> QED BY <1>1, <1>2, <1>3, <1>4, <1>5

LEMMA WalkStep ==
  ASSUME IInv, [Next]_vars
  PROVE  \A j \in Job \ dryRun' : Walk(j)'
  <1>1. Shape /\ Holding /\ \A j \in Job \ dryRun : Walk(j)
    BY DEF IInv
  <1>2. CASE UNCHANGED vars
    BY <1>1, <1>2 DEF Walk, Holds
  <1>3. CASE TableStep
    <2>1. UNCHANGED job /\ \A j \in Job : owed'[j] \subseteq owed[j]
      BY <1>1, <1>3, TableKept
    <2> QED BY <1>1, <2>1 DEF Walk, Holds
  <1>4. ASSUME NEW j \in Job, NEW k \in Job \ dryRun', k # j,
               StartJob(j) \/ FetchPage(j) \/ Classify(j) \/ Write(j) \/ Ends(j)
        PROVE  Walk(k)'
    <2>1. /\ stage'[k] = stage[k] /\ afterId'[k] = afterId[k]
          /\ page'[k] = page[k] /\ results'[k] = results[k]
          /\ exit'[k] = exit[k] /\ owed'[k] = owed[k] /\ k \notin dryRun
      BY <1>1, <1>4, OthersKept
    <2> QED BY <1>1, <2>1 DEF Walk, Holds
  <1>5. ASSUME NEW j \in Job \ dryRun', StartJob(j) PROVE Walk(j)'
    <2>1. stage'[j] = "fetch" /\ afterId'[j] = 0 /\ exit'[j] # "ok" /\ owed'[j] = Eligible
      BY <1>1, <1>5 DEF StartJob, Shape, Holding
    <2>2. \A i \in Eligible : i > 0
      BY <1>1 DEF Eligible, Shape
    <2> QED BY <2>1, <2>2 DEF Walk
  <1>6. ASSUME NEW j \in Job \ dryRun, FetchPage(j) PROVE Walk(j)'
    <2> DEFINE p == NextPage(afterId[j])
    <2>1. p # <<>> => \A i \in Eligible : afterId[j] < i /\ i <= Last(p).id => Holds(p, i)
      BY <1>1, PageIsNext DEF Shape
    <2>2. p # <<>> => Last(p).id \in Int
      <3>1. p \in Seq(Read)
        BY <1>1, PageIsNext DEF Shape
      <3> HIDE DEF p
      <3>2. p # <<>> => p[Len(p)] \in Read
        BY <3>1
      <3> QED BY <3>2 DEF Read, Last
    <2>3. \A i \in owed[j] : i \in Eligible /\ i \in Int /\ i > afterId[j] /\ afterId[j] \in Int
      BY <1>1, <1>6 DEF FetchPage, Walk, Holding, Shape
    <2>4. /\ p # <<>> /\ stage'[j] = "classify" /\ page'[j] = p /\ exit'[j] # "ok"
          /\ UNCHANGED <<afterId, owed>>
      BY <1>1, <1>6 DEF FetchPage, Shape, Holding
    <2> HIDE DEF p
    <2>5. \A i \in owed[j] : i > Last(p).id \/ Holds(p, i)
      BY <2>1, <2>2, <2>3, <2>4
    <2> QED BY <2>3, <2>4, <2>5 DEF Walk, Holds
  <1>7. ASSUME NEW j \in Job \ dryRun, Classify(j) PROVE Walk(j)'
    <2> DEFINE q == LabelPage(page[j])
    <2>1. DOMAIN q = DOMAIN page[j] /\ \A k \in DOMAIN page[j] : q[k].id = page[j][k].id
      BY <1>1, <1>7, PageInHand, LabelsAreOwn
    <2> HIDE DEF q
    <2>2. \A i \in owed[j] : i > Last(page[j]).id \/ Holds(q, i)
      BY <1>1, <1>7, <2>1 DEF Classify, Walk, Holds
    <2>3. /\ stage'[j] = "write" /\ afterId'[j] = Last(page[j]).id /\ results'[j] = q
          /\ exit'[j] # "ok" /\ owed' = owed
      BY <1>1, <1>7 DEF Classify, Shape, Holding, q
    <2> QED BY <2>2, <2>3 DEF Walk, Holds
  <1>8. ASSUME NEW j \in Job \ dryRun, Write(j) PROVE Walk(j)'
    <2>1. /\ stage'[j] = "fetch" /\ afterId' = afterId /\ exit'[j] # "ok"
          /\ owed'[j] = owed[j] \ {results[j][k].id : k \in DOMAIN results[j]}
      BY <1>1, <1>8 DEF Write, Shape, Holding
    <2>2. \A i \in owed[j] : i > afterId[j] \/ Holds(results[j], i)
      BY <1>1, <1>8 DEF Write, Walk
    <2> QED BY <2>1, <2>2 DEF Walk, Holds
  <1>9. ASSUME NEW j \in Job \ dryRun, Ends(j) PROVE Walk(j)'
    <2>1. /\ stage'[j] = "ended" /\ owed' = owed
          /\ exit'[j] = "ok" => NoMoreReviews(j)
      BY <1>1, <1>9, EndsEmpty DEF Shape
    <2>2. NoMoreReviews(j) => owed[j] = {}
      <3> SUFFICES ASSUME NoMoreReviews(j), NEW i \in owed[j] PROVE FALSE
        OBVIOUS
      <3>1. i \in Eligible /\ i \in Int /\ i > afterId[j] /\ afterId[j] \in Int
        BY <1>1 DEF NoMoreReviews, Walk, Holding, Shape
      <3>2. i <= afterId[j]
        BY <1>1, <3>1, PageIsNext DEF NoMoreReviews, Shape
      <3> QED BY <3>1, <3>2
    <2> QED BY <2>1, <2>2 DEF Walk
  <1>10. ASSUME NEW j \in Job, NEW k \in Job \ dryRun',
                StartJob(j) \/ FetchPage(j) \/ Classify(j) \/ Write(j) \/ Ends(j)
         PROVE  Walk(k)'
    <2>1. k \notin dryRun
      BY <1>1, <1>10, OthersKept
    <2> QED BY <1>4, <1>5, <1>6, <1>7, <1>8, <1>9, <1>10, <2>1
  <1> QED BY <1>2, <1>3, <1>10, Steps

LEMMA QuietStep ==
  ASSUME IInv, [Next]_vars
  PROVE  \A j \in quiet' : Quiet(j)'
  <1>1. Shape /\ Holding /\ \A j \in quiet : Quiet(j)
    BY DEF IInv
  <1>2. CASE UNCHANGED vars
    BY <1>1, <1>2 DEF Quiet, Holds, Fresh, Running, Eligible
  <1>3. CASE TableStep
    BY <1>1, <1>3, TableKept
  <1>4. ASSUME NEW j \in Job, StartJob(j), NEW q \in quiet' PROVE Quiet(q)'
    <2>1. q = j /\ \A k \in Job : ~ Running(k)
      BY <1>4 DEF StartJob
    <2>2. /\ stage'[j] = "fetch" /\ afterId'[j] = 0 /\ exit'[j] # "ok"
          /\ \A k \in Job \ {j} : stage'[k] = stage[k]
      BY <1>1, <1>4 DEF StartJob, Shape, Holding
    <2>3. \A k \in Job \ {j} : ~ Running(k)'
      BY <2>1, <2>2 DEF Running
    <2>4. \A i \in Eligible' : ~ (i <= 0)
      <3>1. Eligible' = Eligible
        BY <1>1, <1>4, OthersKept
      <3>2. \A i \in Eligible : i \in 1..LastId
        BY <1>1 DEF Eligible, Shape
      <3> HIDE DEF Eligible
      <3> QED BY <3>1, <3>2
    <2> QED BY <2>1, <2>2, <2>3, <2>4 DEF Quiet
  <1>5. ASSUME NEW j \in Job, FetchPage(j) \/ Classify(j) \/ Write(j) \/ Ends(j)
        PROVE  /\ quiet' = quiet /\ dryRun' = dryRun
               /\ \A q \in quiet : q = j
               /\ j \in quiet => \A k \in Job \ {j} : ~ Running(k)'
               /\ UNCHANGED content /\ Eligible' = Eligible
    <2>1. quiet' = quiet /\ dryRun' = dryRun
      BY <1>1, <1>5, EndsEmpty DEF FetchPage, Classify, Write
    <2>2. Running(j)
      BY <1>5 DEF Running, FetchPage, Classify, Write, Ends, NoMoreReviews,
                  ClassificationFails, WriteFails, JobDies
    <2>3. \A q \in quiet : q = j
      BY <1>1, <2>2 DEF Quiet
    <2>4. j \in quiet => \A k \in Job \ {j} : ~ Running(k)'
      BY <1>1, <1>5, OthersKept DEF Quiet, Running
    <2> QED BY <1>1, <1>5, <2>1, <2>3, <2>4, OthersKept
  <1>6. ASSUME NEW j \in quiet, FetchPage(j) PROVE Quiet(j)'
    <2> DEFINE p == NextPage(afterId[j])
    <2>0. j \in Job
      BY <1>1 DEF Shape
    <2>1. /\ p # <<>> => \A i \in Eligible : afterId[j] < i /\ i <= Last(p).id => Holds(p, i)
          /\ \A k \in DOMAIN p : p[k].text = content[p[k].id]
      BY <1>1, <2>0, PageIsNext DEF Shape
    <2>2. /\ p # <<>> /\ stage'[j] = "classify" /\ page'[j] = p /\ exit'[j] # "ok"
          /\ UNCHANGED <<afterId, sentiment, content, dryRun>>
      BY <1>1, <1>6, <2>0 DEF FetchPage, Shape, Holding
    <2>3. j \notin dryRun => \A i \in Eligible : i <= afterId[j] => Fresh(i)
      BY <1>1, <1>6 DEF FetchPage, Quiet
    <2>4. (\A k \in Job \ {j} : ~ Running(k)') /\ Eligible' = Eligible
      BY <1>5, <1>6, <2>0
    <2> HIDE DEF p
    <2> QED BY <2>1, <2>2, <2>3, <2>4 DEF Quiet, Holds, Fresh
  <1>7. ASSUME NEW j \in quiet, Classify(j) PROVE Quiet(j)'
    <2> DEFINE q == LabelPage(page[j])
    <2>0. j \in Job
      BY <1>1 DEF Shape
    <2>1. DOMAIN q = DOMAIN page[j]
          /\ \A k \in DOMAIN page[j] : q[k].id = page[j][k].id /\ q[k].label = Expected(page[j][k].text)
      BY <1>1, <1>7, <2>0, PageInHand, LabelsAreOwn
    <2>2. /\ afterId'[j] = Last(page[j]).id /\ results'[j] = q
          /\ exit'[j] # "ok" /\ UNCHANGED <<sentiment, content, dryRun>>
          /\ stage'[j] = IF j \in dryRun THEN "fetch" ELSE "write"
      BY <1>1, <1>7, <2>0 DEF Classify, Shape, Holding
    <2>3. (\A k \in Job \ {j} : ~ Running(k)') /\ Eligible' = Eligible
      BY <1>5, <1>7, <2>0
    <2> HIDE DEF q
    <2>4. j \notin dryRun =>
            /\ \A k \in DOMAIN q : q[k].label = Expected(content[q[k].id])
            /\ \A i \in Eligible : i <= Last(page[j]).id => Fresh(i) \/ Holds(q, i)
      <3> SUFFICES ASSUME j \notin dryRun
                   PROVE  /\ \A k \in DOMAIN q : q[k].label = Expected(content[q[k].id])
                          /\ \A i \in Eligible : i <= Last(page[j]).id => Fresh(i) \/ Holds(q, i)
        OBVIOUS
      <3>1. /\ \A k \in DOMAIN page[j] : page[j][k].text = content[page[j][k].id]
            /\ \A i \in Eligible : afterId[j] < i /\ i <= Last(page[j]).id => Holds(page[j], i)
            /\ \A i \in Eligible : i <= afterId[j] => Fresh(i)
        BY <1>1, <1>7 DEF Quiet, Classify
      <3>2. \A i \in Eligible : i \in Int /\ afterId[j] \in Int
        BY <1>1, <2>0 DEF Shape, Eligible
      <3>3. \A i \in Eligible : Holds(page[j], i) => Holds(q, i)
        BY <2>1 DEF Holds
      <3>4. \A i \in Eligible : i <= afterId[j] \/ afterId[j] < i
        BY <3>2
      <3> QED BY <2>1, <3>1, <3>3, <3>4
    <2> QED BY <2>2, <2>3, <2>4 DEF Quiet, Holds, Fresh
  <1>8. ASSUME NEW j \in quiet, Write(j) PROVE Quiet(j)'
    <2>0. j \in Job
      BY <1>1 DEF Shape
    <2> DEFINE s == UpdateSentiments(results[j])
    <2>1. \A i \in Id :
            IF i \in present /\ Holds(results[j], i)
            THEN \E k \in DOMAIN results[j] : results[j][k].id = i /\ s[i] = results[j][k].label
            ELSE s[i] = sentiment[i]
      BY <1>1, <2>0, UpdateIsOfPairs DEF Shape
    <2>2. /\ stage'[j] = "fetch" /\ exit'[j] # "ok" /\ sentiment' = s
          /\ UNCHANGED <<afterId, content, dryRun>>
      BY <1>1, <1>8, <2>0 DEF Write, Shape, Holding
    <2>3. (\A k \in Job \ {j} : ~ Running(k)') /\ Eligible' = Eligible
      BY <1>5, <1>8, <2>0
    <2> HIDE DEF s
    <2>4. ASSUME j \notin dryRun, NEW i \in Eligible, i <= afterId[j]
          PROVE  s[i] = Expected(content[i])
      <3>1. /\ \A k \in DOMAIN results[j] : results[j][k].label = Expected(content[results[j][k].id])
            /\ Fresh(i) \/ Holds(results[j], i)
        BY <1>1, <1>8, <2>4 DEF Quiet, Write
      <3>2. i \in Id /\ i \in present
        BY <1>1 DEF Eligible, Shape
      <3> QED BY <2>1, <3>1, <3>2 DEF Fresh
    <2> QED BY <2>2, <2>3, <2>4 DEF Quiet, Fresh
  <1>9. ASSUME NEW j \in quiet, Ends(j) PROVE Quiet(j)'
    <2>0. j \in Job
      BY <1>1 DEF Shape
    <2>1. /\ stage'[j] = "ended" /\ UNCHANGED <<content, dryRun>>
          /\ exit'[j] = "ok" => NoMoreReviews(j)
      BY <1>1, <1>9, <2>0, EndsEmpty DEF Shape
    <2>2. (\A k \in Job \ {j} : ~ Running(k)') /\ Eligible' = Eligible
      BY <1>5, <1>9, <2>0
    <2>3. ASSUME NoMoreReviews(j), j \notin dryRun, NEW i \in Eligible
          PROVE  sentiment' = sentiment /\ Fresh(i)
      <3>1. i <= afterId[j]
        BY <1>1, <2>0, <2>3, PageIsNext DEF NoMoreReviews, Shape
      <3> QED BY <1>1, <2>3, <3>1 DEF NoMoreReviews, Quiet
    <2> QED BY <2>1, <2>2, <2>3 DEF Quiet, Fresh
  <1>10. ASSUME NEW j \in Job, FetchPage(j) \/ Classify(j) \/ Write(j) \/ Ends(j), NEW q \in quiet'
         PROVE  Quiet(q)'
    <2>1. q = j /\ j \in quiet
      BY <1>5, <1>10
    <2> QED BY <1>6, <1>7, <1>8, <1>9, <1>10, <2>1
  <1> QED BY <1>2, <1>3, <1>4, <1>10, Steps

-----------------------------------------------------------------------------
(* The theorems *)

\* IInv holds in every reachable state, whatever jobs run beside each other and
\* beside the consumer.
THEOREM Invariance == Spec => []IInv
  <1>1. IInv /\ [Next]_vars => IInv'
    BY ShapeStep, HoldingStep, TextsStep, LabelStep, WalkStep, QuietStep DEF IInv
  <1> QED BY Initially, <1>1, PTL DEF Spec

\* Every variable keeps its type, and a page or a result is never longer than the
\* batch (sentiment_service.py:98).
THEOREM TypeCorrect == Spec => []TypeOK
  <1>1. IInv => TypeOK
    BY DEF IInv, Shape, Holding, TypeOK
  <1> QED BY <1>1, Invariance, PTL

\* A label is always that of a text this review has had: never a neighbour's, never
\* one for a text that was absent.
THEOREM LabelsAreOfTheirReview == Spec => []LabelOfSomeText
  <1>1. IInv => LabelOfSomeText
    BY DEF IInv
  <1> QED BY <1>1, Invariance, PTL

\* A job that ends well has labelled every review that had a text throughout.
THEOREM WalkComplete == Spec => []WalkMissesNothing
  <1>1. IInv => WalkMissesNothing
    BY DEF IInv, Walk, WalkMissesNothing
  <1> QED BY <1>1, Invariance, PTL

\* A job that ran alone leaves every review with the label of the text it has.
THEOREM QuietRunLeavesFresh == Spec => []QuietRunFresh
  <1>1. IInv => QuietRunFresh
    BY DEF IInv, Quiet, Fresh, QuietRunFresh
  <1> QED BY <1>1, Invariance, PTL
=============================================================================
