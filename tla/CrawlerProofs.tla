---------------------------- MODULE CrawlerProofs ----------------------------
(***************************************************************************)
(* Theorems about the crawler: RateLimiter, for any number of workers, any *)
(* bucket and any jitter, and CrawlCycle, for any applications, workers,   *)
(* reviews, retries, cycles and faults.                                    *)
(***************************************************************************)
EXTENDS RateLimiter, CrawlCycle, SortedSetsProofs, TLAPS

-----------------------------------------------------------------------------
(* RateLimiter *)

USE LimiterAssumption DEF limiterVars, Least

LEMMA CapacityIsNat == Capacity \in Nat
  BY DEF Capacity

\* What the bucket holds once refilled is a level of the bucket.
LEMMA RefilledRange ==
  ASSUME LimiterTypeOK
  PROVE  Refilled \in 0..Capacity /\ Refilled \in Nat
  BY CapacityIsNat DEF LimiterTypeOK, Refilled

\* The state stays within the bucket's capacity, the longest sleep and the
\* requests, whoever asks and whenever (rate_limiter.py:51).
THEOREM LimiterTypeCorrect == LimiterSpec => []LimiterTypeOK
  <1>1. LimiterInit => LimiterTypeOK
    BY CapacityIsNat DEF LimiterInit, LimiterTypeOK
  <1>2. LimiterTypeOK /\ [LimiterNext]_limiterVars => LimiterTypeOK'
    <2> SUFFICES ASSUME LimiterTypeOK, [LimiterNext]_limiterVars PROVE LimiterTypeOK'
      OBVIOUS
    <2>1. CASE Tick
      BY <2>1, CapacityIsNat DEF Tick, LimiterTypeOK
    <2>2. ASSUME NEW w \in Worker, Granted(w) PROVE LimiterTypeOK'
      <3>1. Refilled - TokenTicks \in 0..Capacity
        BY <2>2, CapacityIsNat, RefilledRange DEF Granted
      <3>2. demand[w] - 1 \in 0..Requests
        BY <2>2 DEF Granted, LimiterTypeOK
      <3> QED BY <2>2, <3>1, <3>2, CapacityIsNat DEF Granted, LimiterTypeOK
    <2>3. ASSUME NEW w \in Worker, Sleeps(w) PROVE LimiterTypeOK'
      <3>1. PICK jitter \in 0..MaxJitter :
              nap' = [nap EXCEPT ![w] = TokenTicks - Refilled + jitter]
        BY <2>3 DEF Sleeps
      <3>2. TokenTicks - Refilled + jitter \in 0..(TokenTicks + MaxJitter)
        BY <2>3, RefilledRange DEF Sleeps
      <3> QED BY <2>3, <3>1, <3>2, CapacityIsNat, RefilledRange DEF Sleeps, Kept, LimiterTypeOK
    <2>4. CASE UNCHANGED limiterVars
      BY <2>4 DEF LimiterTypeOK
    <2> QED BY <2>1, <2>2, <2>3, <2>4 DEF LimiterNext, Acquire
  <1> QED BY <1>1, <1>2, PTL DEF LimiterSpec

\* A tick fills the abstract bucket by one, or finds it full.
LEMMA TickFills ==
  ASSUME LimiterTypeOK, Tick
  PROVE  Refilled' = Least(Capacity, Refilled + 1)
  BY CapacityIsNat DEF Tick, LimiterTypeOK, Refilled

\* A grant takes one token out of it.
LEMMA GrantTakes ==
  ASSUME LimiterTypeOK, NEW w \in Worker, Granted(w)
  PROVE  Refilled >= TokenTicks /\ Refilled' = Refilled - TokenTicks
  <1>1. Refilled' = Least(Capacity, Refilled - TokenTicks + 0)
    BY CapacityIsNat DEF Granted, Refilled, Capacity
  <1> QED BY <1>1, RefilledRange, CapacityIsNat DEF Granted

\* A worker that goes to sleep has only written down what had flowed in.
LEMMA SleepKeeps ==
  ASSUME LimiterTypeOK, NEW w \in Worker, Sleeps(w)
  PROVE  Refilled' = Refilled
  <1>1. Refilled' = Least(Capacity, Refilled + 0)
    BY CapacityIsNat DEF Sleeps, Kept, Refilled, Capacity
  <1> QED BY <1>1, RefilledRange, CapacityIsNat

\* The workers together are one bucket that the clock fills: refilling only when
\* asked, by whoever asks and in any order, neither makes nor loses a token
\* (rate_limiter.py:51).
THEOREM KeepsRate == LimiterSpec => NeverAboveRate
  <1>1. LimiterInit => Bucket!BucketInit
    BY CapacityIsNat DEF LimiterInit, Refilled, Bucket!BucketInit, Bucket!Capacity, Capacity
  <1>2. LimiterTypeOK /\ [LimiterNext]_limiterVars => [Bucket!Fill \/ Bucket!Take]_Refilled
    <2> SUFFICES ASSUME LimiterTypeOK, [LimiterNext]_limiterVars
                 PROVE  [Bucket!Fill \/ Bucket!Take]_Refilled
      OBVIOUS
    <2>1. CASE Tick
      BY <2>1, TickFills DEF Bucket!Fill, Bucket!Capacity, Bucket!Least, Capacity
    <2>2. ASSUME NEW w \in Worker, Granted(w) PROVE Bucket!Take
      BY <2>2, GrantTakes DEF Bucket!Take
    <2>3. ASSUME NEW w \in Worker, Sleeps(w) PROVE UNCHANGED Refilled
      BY <2>3, SleepKeeps
    <2>4. CASE UNCHANGED limiterVars
      BY <2>4 DEF Refilled, Capacity
    <2> QED BY <2>1, <2>2, <2>3, <2>4 DEF LimiterNext, Acquire
  <1> QED BY <1>1, <1>2, LimiterTypeCorrect, PTL DEF LimiterSpec, NeverAboveRate, Bucket!BucketSpec

-----------------------------------------------------------------------------
(* CrawlCycle *)

HIDE LimiterAssumption DEF limiterVars, Least
USE CrawlAssumption DEF Item, Topic, vars, worker, result, history, kafka

(* What a buffer holds.                                                    *)
Entry == [item : Item, try : Nat, cycle : Nat]

Shape ==
  /\ cycle \in {"idle", "crawling", "flushing", "reporting"}
  /\ started \in Nat /\ reports \subseteq Nat
  /\ listed \subseteq App
  /\ stage \in [App -> {"none", "queued", "fetch", "send", "await", "finished"}]
  /\ path \in [App -> Topic]
  /\ tries \in [App -> Nat] /\ got \in [App -> Nat]
  /\ pending \in [App -> SUBSET Item]
  /\ awaiting \in [App -> SUBSET Item]
  /\ failed \in [App -> SUBSET Item]
  /\ answer \in [App -> [Item -> {"none", "acked", "error"}]]
  /\ buffer \in [App \X Topic -> Seq(Entry)]
  /\ want \in [App \X Topic -> SUBSET Item]
  /\ confirmed \in [App \X Topic -> SUBSET Item]
  /\ mishaps \in [App \X Topic -> Nat]

(* Applications are worked on only while their cycle crawls.               *)
Phase ==
  /\ \A a \in App : stage[a] # "none" => a \in listed /\ cycle # "idle"
  /\ \A a \in App : stage[a] \in {"queued", "fetch", "send", "await"} => cycle = "crawling"

(* What a worker still has to do for its path, and what it has done: an    *)
(* item is wanted and confirmed, or in the attempt.                        *)
Progress(a) ==
  LET p == <<a, path[a]>>
  IN /\ stage[a] \in {"none", "queued"} => path[a] = "app-stats"
     /\ path[a] = "app-stats" => /\ stage[a] # "finished"
                                 /\ confirmed[<<a, "reviews">>] = {}
                                 /\ <<a, "reviews">> \notin ok
     /\ stage[a] # "finished" => p \notin ok
     /\ stage[a] \in {"none", "queued", "fetch"} => confirmed[p] = {}
     /\ stage[a] = "send" =>
          want[p] = confirmed[p] \cup pending[a] /\ pending[a] \cap confirmed[p] = {}
     /\ stage[a] = "await" =>
          /\ want[p] = confirmed[p] \cup awaiting[a] \cup failed[a]
          /\ awaiting[a] \cap failed[a] = {}
          /\ (awaiting[a] \cup failed[a]) \cap confirmed[p] = {}
          /\ \A i \in Item : answer[a][i] = "acked" => <<a, path[a], i>> \in landed

(* Every retry had a failure of its own.                                   *)
Excused(a) ==
  /\ mishaps[<<a, path[a]>>] >= tries[a]
  /\ stage[a] = "await" /\ failed[a] # {} => mishaps[<<a, path[a]>>] > tries[a]

(* What was confirmed has landed, and what succeeded was confirmed.        *)
Evidence ==
  /\ \A p \in App \X Topic : \A i \in confirmed[p] : <<p[1], p[2], i>> \in landed
  /\ ok \subseteq App \X Topic
  /\ \A p \in ok : want[p] \subseteq confirmed[p]

(* A cycle that has its report is over, and its records have left.         *)
Reported ==
  /\ \A r \in reports : r <= started
  /\ started \in reports => cycle = "idle"
  /\ cycle = "reporting" => Empty
  /\ \A p \in App \X Topic : \A k \in 1..Len(buffer[p]) :
       buffer[p][k].cycle <= started /\ buffer[p][k].cycle \notin reports

NotOkPaths == notOk \subseteq App \X Topic

IInv ==
  /\ Shape /\ Phase /\ NotOkPaths
  /\ \A a \in App : Progress(a)
  /\ \A a \in App : Excused(a)
  /\ FailedForItsOwnReason
  /\ Evidence /\ Reported

-----------------------------------------------------------------------------
LEMMA Pairs ==
  /\ \A a \in App, t \in Topic : <<a, t>> \in App \X Topic
  /\ \A p \in App \X Topic : p[1] \in App /\ p[2] \in Topic /\ p = <<p[1], p[2]>>
  OBVIOUS

LEMMA InitIInv == Init => IInv
  <1> SUFFICES ASSUME Init PROVE IInv
    OBVIOUS
  <1> USE DEF Init, PerPath
  <1>1. buffer \in [App \X Topic -> Seq(Entry)]
    OBVIOUS
  <1>2. Shape
    BY <1>1 DEF Shape
  <1>3. Phase /\ FailedForItsOwnReason /\ Evidence /\ NotOkPaths
    BY DEF Phase, NotOkPaths, FailedForItsOwnReason, Evidence
  <1>4. \A a \in App : Progress(a) /\ Excused(a)
    BY DEF Progress, Excused
  <1>5. Reported
    BY DEF Reported
  <1> QED BY <1>2, <1>3, <1>4, <1>5 DEF IInv

(* What one attempt hands to the producer.                                 *)
LEMMA EntriesAre ==
  ASSUME Shape, NEW a \in App, NEW items \in SUBSET Item
  PROVE  /\ Entries(a, items) \in Seq(Entry)
         /\ \A k \in 1..Len(Entries(a, items)) :
              Entries(a, items)[k].cycle = started /\ Entries(a, items)[k].try = tries[a]
  <1>0. 0 \in Int /\ ReviewCount \in Int
    OBVIOUS
  <1>1. IsFiniteSet(items) /\ items \in SUBSET Int
    <2>1. IsFiniteSet(0..ReviewCount)
      BY <1>0, FS_Interval
    <2>2. IsFiniteSet(items)
      BY <2>1, FS_Subset
    <2> QED BY <2>2
  <1>2. Cardinality(items) \in Nat /\ Ascending(items) \in [1..Cardinality(items) -> items]
    BY <1>1, AscendingLists
  <1> DEFINE n == Cardinality(items)
             e(k) == [item |-> Ascending(items)[k], try |-> tries[a], cycle |-> started]
  <1>3. ASSUME NEW k \in 1..n PROVE e(k) \in Entry
    <2>1. Ascending(items)[k] \in items
      BY <1>2
    <2>2. tries[a] \in Nat /\ started \in Nat
      BY DEF Shape
    <2> QED BY <2>1, <2>2 DEF Entry
  <1>4. Entries(a, items) = [k \in 1..n |-> e(k)]
    BY DEF Entries
  <1> HIDE DEF n, e
  <1>5. Entries(a, items) \in [1..n -> Entry]
    BY <1>3, <1>4
  <1>6. Entries(a, items) \in Seq(Entry) /\ Len(Entries(a, items)) = n
    BY <1>2, <1>5 DEF n
  <1>7. \A k \in 1..n : Entries(a, items)[k].cycle = started /\ Entries(a, items)[k].try = tries[a]
    BY <1>4 DEF e
  <1> QED BY <1>6, <1>7

-----------------------------------------------------------------------------
(* The steps, by what they do to what IInv speaks of.                      *)

\* Nothing of it changes: a page more, a signal.
Rest ==
  /\ got' \in [App -> Nat]
  /\ UNCHANGED <<cycle, started, listed, stage, path, tries, pending, awaiting, failed,
                 answer, result, buffer, landed, reports, history>>

\* What was fetched is handed over.
Hands(a, items) ==
  /\ stage[a] = "fetch" /\ Fetched(a, items)
  /\ UNCHANGED <<cycle, started, listed, kafka, reports, confirmed, mishaps, hopeless>>

\* A path fails, for a reason of its own.
GivesUp(a) ==
  /\ stage[a] \in {"fetch", "send", "await"} /\ PathFails(a)
  /\ UNCHANGED mishaps \/ Mishap(a)
  /\ hopeless \subseteq hopeless'
  /\ <<a, path[a]>> \in hopeless' \/ mishaps'[<<a, path[a]>>] > MaxRetries
  /\ UNCHANGED <<cycle, started, listed, kafka, reports, want, confirmed>>

\* All that was pending is confirmed.
Succeeds(a) ==
  /\ stage[a] = "await" /\ awaiting[a] = {} /\ failed[a] = {} /\ PathOk(a)
  /\ UNCHANGED <<cycle, started, listed, kafka, reports, history>>

\* What failed is sent again.
Resends(a) ==
  /\ stage[a] = "await" /\ awaiting[a] = {} /\ failed[a] # {}
  /\ stage' = [stage EXCEPT ![a] = "send"]
  /\ pending' = [pending EXCEPT ![a] = failed[a]]
  /\ tries' = [tries EXCEPT ![a] = @ + 1]
  /\ failed' = [failed EXCEPT ![a] = {}]
  /\ UNCHANGED <<cycle, started, listed, path, got, awaiting, answer, result, kafka, reports,
                 history>>

\* A record leaves a buffer, with the value its future gets.
Leaves(a, t, value) ==
  /\ buffer[<<a, t>>] # <<>>
  /\ buffer' = [buffer EXCEPT ![<<a, t>>] = Tail(@)]
  /\ Answer(a, t, value)
  /\ landed \subseteq landed'
  /\ value = "acked" => Landed(a, t)
  /\ UNCHANGED <<cycle, started, listed, stage, path, tries, got, pending, awaiting, failed,
                 result, reports, history>>

\* A cycle is over, with a report or without one.
Over ==
  /\ EndCycle /\ UNCHANGED started
  /\ \/ UNCHANGED reports
     \/ cycle = "reporting" /\ reports' = reports \cup {started}
  /\ UNCHANGED buffer \/ buffer' = PerPath(<<>>)

LEMMA StepIs ==
  ASSUME IInv, [Next]_vars
  PROVE  \/ Rest \/ ListingFails \/ PoolDone \/ Flushed \/ Over \/ CloseProducer
         \/ \E apps \in SUBSET App : StartCycle(apps)
         \/ \E a \in App :
              \/ TakeApp(a) \/ FetchRetried(a) \/ GivesUp(a) \/ Succeeds(a) \/ Resends(a)
              \/ \E items \in SUBSET Item : Hands(a, items)
              \/ \E refused \in SUBSET pending[a] : Enqueue(a, refused)
              \/ \E i \in Item : Confirmed(a, i) \/ NotConfirmed(a, i)
         \/ \E a \in App, t \in Topic, value \in {"acked", "error"} : Leaves(a, t, value)
  <1> DEFINE Goal ==
         \/ Rest \/ ListingFails \/ PoolDone \/ Flushed \/ Over \/ CloseProducer
         \/ \E apps \in SUBSET App : StartCycle(apps)
         \/ \E a \in App :
              \/ TakeApp(a) \/ FetchRetried(a) \/ GivesUp(a) \/ Succeeds(a) \/ Resends(a)
              \/ \E items \in SUBSET Item : Hands(a, items)
              \/ \E refused \in SUBSET pending[a] : Enqueue(a, refused)
              \/ \E i \in Item : Confirmed(a, i) \/ NotConfirmed(a, i)
         \/ \E a \in App, t \in Topic, value \in {"acked", "error"} : Leaves(a, t, value)
  <1>1. CASE UNCHANGED vars \/ Terminate
    <2>1. Rest
      BY <1>1 DEF Rest, Terminate, IInv, Shape
    <2> QED BY <2>1
  <1>2. ASSUME NEW a \in App, FetchDetails(a) PROVE Goal
    <2>1. Hands(a, {0})
      BY <1>2 DEF FetchDetails, Hands
    <2>2. {0} \in SUBSET Item
      OBVIOUS
    <2> QED BY <2>1, <2>2
  <1>3. ASSUME NEW a \in App, FetchPage(a) PROVE Goal
    <2>1. PICK n \in 0..PageSize, more \in BOOLEAN :
            LET total == got[a] + n
            IN /\ total <= ReviewCount
               /\ IF more /\ total < ReviewCount
                  THEN /\ got' = [got EXCEPT ![a] = total]
                       /\ UNCHANGED <<stage, path, tries, pending, awaiting, failed, answer,
                                      result, want>>
                  ELSE Fetched(a, 1..total)
      BY <1>3 DEF FetchPage
    <2>2. CASE more /\ got[a] + n < ReviewCount
      <3>0. got \in [App -> Nat] /\ got[a] + n \in Nat
        BY DEF IInv, Shape
      <3>1. Rest
        BY <1>3, <2>1, <2>2, <3>0 DEF FetchPage, Rest
      <3> QED BY <3>1
    <2>3. CASE ~(more /\ got[a] + n < ReviewCount)
      <3>1. Hands(a, 1..(got[a] + n))
        BY <1>3, <2>1, <2>3 DEF FetchPage, Hands
      <3>2. 1..(got[a] + n) \in SUBSET Item
        <4>1. got[a] + n <= ReviewCount /\ got[a] + n \in Nat
          BY <2>1 DEF IInv, Shape
        <4> QED BY <4>1
      <3> QED BY <3>1, <3>2
    <2> QED BY <2>2, <2>3
  <1>4. ASSUME NEW a \in App, FetchExhausted(a) \/ FetchRefused(a) \/ SendOnClosed(a)
        PROVE  Goal
    <2>1. /\ path[a] \in Topic /\ <<a, path[a]>> \in App \X Topic
          /\ tries[a] \in Nat /\ mishaps[<<a, path[a]>>] \in Nat
          /\ mishaps \in [App \X Topic -> Nat]
          /\ mishaps[<<a, path[a]>>] >= tries[a]
      BY DEF IInv, Shape, Excused
    <2>2. CASE FetchExhausted(a)
      <3>1. mishaps'[<<a, path[a]>>] = mishaps[<<a, path[a]>>] + 1 /\ tries[a] >= MaxRetries
        BY <2>1, <2>2 DEF FetchExhausted, Mishap
      <3>2. mishaps'[<<a, path[a]>>] > MaxRetries
        BY <2>1, <3>1
      <3>3. GivesUp(a)
        BY <2>2, <3>2 DEF FetchExhausted, Mishap, GivesUp
      <3> QED BY <3>3
    <2>3. CASE FetchRefused(a) \/ SendOnClosed(a)
      <3>1. GivesUp(a)
        BY <2>3 DEF FetchRefused, SendOnClosed, Mishap, Hopeless, GivesUp
      <3> QED BY <3>1
    <2> QED BY <1>4, <2>2, <2>3
  <1>5. ASSUME NEW a \in App, AttemptOver(a) PROVE Goal
    <2>1. CASE Residual(a) = {}
      <3>1. Succeeds(a)
        BY <1>5, <2>1 DEF AttemptOver, Residual, Succeeds
      <3> QED BY <3>1
    <2>2. CASE Residual(a) # {} /\ tries[a] >= MaxRetries /\ PathFails(a)
      <3>1. /\ tries[a] \in Nat /\ mishaps[<<a, path[a]>>] \in Nat
            /\ mishaps[<<a, path[a]>>] > tries[a]
        BY <1>5, <2>2 DEF AttemptOver, Residual, IInv, Shape, Excused
      <3>2. mishaps[<<a, path[a]>>] > MaxRetries
        BY <2>2, <3>1
      <3>3. GivesUp(a)
        BY <1>5, <2>2, <3>2 DEF AttemptOver, GivesUp
      <3> QED BY <3>3
    <2>3. CASE Residual(a) # {} /\ ~(tries[a] >= MaxRetries /\ PathFails(a))
      <3>1. Resends(a)
        BY <1>5, <2>3 DEF AttemptOver, Residual, Resends
      <3> QED BY <3>1
    <2> QED BY <2>1, <2>2, <2>3
  <1>6. ASSUME NEW a \in App, NEW t \in Topic, Deliver(a, t) \/ Expire(a, t) PROVE Goal
    <2>1. CASE Deliver(a, t)
      <3>1. Leaves(a, t, "acked")
        BY <2>1 DEF Deliver, Leaves, Landed
      <3> QED BY <3>1
    <2>2. CASE Expire(a, t)
      <3>1. Leaves(a, t, "error")
        BY <2>2 DEF Expire, Leaves, Landed
      <3> QED BY <3>1
    <2> QED BY <1>6, <2>1, <2>2
  <1>7. CASE FlushTimesOut \/ WriteReport \/ ReportNotWritten \/ Kill \/ StartAgain
    <2>1. Over
      BY <1>7 DEF FlushTimesOut, WriteReport, ReportNotWritten, Kill, StartAgain, NewProcess, Over
    <2> QED BY <2>1
  <1>8. ASSUME NEW a \in App, Work(a) PROVE Goal
    <2>1. {} \in SUBSET pending[a]
      OBVIOUS
    <2>2. CASE Enqueue(a, {})
      BY <2>1, <2>2
    <2> QED BY <1>2, <1>3, <1>4, <1>5, <1>8, <2>2 DEF Work
  <1>9. CASE FinishCycle
    BY <1>7, <1>9 DEF FinishCycle
  <1> QED BY <1>1, <1>4, <1>6, <1>7, <1>8, <1>9 DEF Next

\* A failure counts for the path that met it.
LEMMA MishapIs ==
  ASSUME Shape, NEW a \in App, UNCHANGED mishaps \/ Mishap(a)
  PROVE  /\ mishaps' \in [App \X Topic -> Nat]
         /\ \A p \in App \X Topic : mishaps'[p] >= mishaps[p]
         /\ \A b \in App \ {a}, t \in Topic : mishaps'[<<b, t>>] = mishaps[<<b, t>>]
  <1>1. CASE UNCHANGED mishaps
    BY <1>1 DEF Shape
  <1>2. CASE Mishap(a)
    <2>1. PICK p \in App \X Topic : p = <<a, path[a]>>
      BY DEF Shape
    <2>2. mishaps \in [App \X Topic -> Nat] /\ mishaps' = [mishaps EXCEPT ![p] = mishaps[p] + 1]
      BY <1>2, <2>1 DEF Shape, Mishap
    <2>3. \A q \in App \X Topic : mishaps[q] \in Nat /\ mishaps'[q] \in {mishaps[q], mishaps[q] + 1}
      BY <2>2
    <2>4. mishaps' \in [App \X Topic -> Nat]
      BY <2>2
    <2>5. \A q \in App \X Topic : mishaps'[q] >= mishaps[q]
      BY <2>3
    <2>6. ASSUME NEW b \in App \ {a}, NEW t \in Topic
          PROVE  mishaps'[<<b, t>>] = mishaps[<<b, t>>]
      <3>1. <<b, t>> \in App \X Topic /\ <<b, t>> # p
        BY <2>1
      <3> QED BY <2>2, <3>1
    <2> QED BY <2>4, <2>5, <2>6
  <1> QED BY <1>1, <1>2

\* The end of a path is the start of the next one, or that of the application.
LEMMA EndPathIs ==
  ASSUME Shape, NEW a \in App, EndPath(a)
  PROVE  /\ stage' \in [App -> {"none", "queued", "fetch", "send", "await", "finished"}]
         /\ path' \in [App -> Topic] /\ tries' \in [App -> Nat] /\ got' \in [App -> Nat]
         /\ pending' \in [App -> SUBSET Item] /\ awaiting' \in [App -> SUBSET Item]
         /\ failed' \in [App -> SUBSET Item]
         /\ answer' \in [App -> [Item -> {"none", "acked", "error"}]]
         /\ stage'[a] = IF path[a] = "app-stats" THEN "fetch" ELSE "finished"
         /\ path'[a] = "reviews" /\ tries'[a] = 0
         /\ \A b \in App \ {a} :
              /\ stage'[b] = stage[b] /\ path'[b] = path[b] /\ tries'[b] = tries[b]
              /\ pending'[b] = pending[b] /\ awaiting'[b] = awaiting[b]
              /\ failed'[b] = failed[b] /\ answer'[b] = answer[b]
  <1>1. /\ stage' \in [App -> {"none", "queued", "fetch", "send", "await", "finished"}]
        /\ path' \in [App -> Topic] /\ tries' \in [App -> Nat] /\ got' \in [App -> Nat]
    BY DEF Shape, EndPath
  <1>2. /\ pending' \in [App -> SUBSET Item] /\ awaiting' \in [App -> SUBSET Item]
        /\ failed' \in [App -> SUBSET Item]
        /\ answer' \in [App -> [Item -> {"none", "acked", "error"}]]
    BY DEF Shape, EndPath
  <1>3. /\ stage'[a] = IF path[a] = "app-stats" THEN "fetch" ELSE "finished"
        /\ path'[a] = "reviews" /\ tries'[a] = 0
    BY DEF Shape, EndPath
  <1>4. ASSUME NEW b \in App \ {a}
        PROVE  /\ stage'[b] = stage[b] /\ path'[b] = path[b] /\ tries'[b] = tries[b]
               /\ pending'[b] = pending[b] /\ awaiting'[b] = awaiting[b]
               /\ failed'[b] = failed[b] /\ answer'[b] = answer[b]
    BY DEF Shape, EndPath
  <1> QED BY <1>1, <1>2, <1>3, <1>4

\* Every step keeps the shapes.
LEMMA ShapeStep ==
  ASSUME IInv, [Next]_vars
  PROVE  Shape'
  <1>0. Shape
    BY DEF IInv
  <1>1. ASSUME NEW apps \in SUBSET App, StartCycle(apps)
        PROVE  Shape'
    BY <1>0, <1>1 DEF Shape, StartCycle
  <1>2. CASE ListingFails
    BY <1>0, <1>2 DEF Shape, ListingFails
  <1>3. ASSUME NEW a \in App, TakeApp(a)
        PROVE  Shape'
    BY <1>0, <1>3 DEF Shape, TakeApp
  <1>4. ASSUME NEW a \in App, FetchRetried(a)
        PROVE  Shape'
    BY <1>0, <1>4, SMTT(30) DEF Shape, FetchRetried, Mishap
  <1>5. ASSUME NEW a \in App, GivesUp(a)
        PROVE  Shape'
    <2>1. EndPath(a) /\ (UNCHANGED mishaps \/ Mishap(a))
          /\ UNCHANGED <<cycle, started, listed, kafka, reports, want, confirmed>>
      BY <1>5 DEF GivesUp, PathFails
    <2> QED BY <1>0, <2>1, EndPathIs, MishapIs DEF Shape
  <1>6. ASSUME NEW a \in App, Succeeds(a)
        PROVE  Shape'
    <2>1. EndPath(a) /\ UNCHANGED <<cycle, started, listed, kafka, reports, history>>
      BY <1>6 DEF Succeeds, PathOk
    <2> QED BY <1>0, <2>1, EndPathIs DEF Shape
  <1>7. ASSUME NEW a \in App, Resends(a)
        PROVE  Shape'
    BY <1>0, <1>7, SMTT(30) DEF Shape, Resends
  <1>8. ASSUME NEW a \in App, NEW items \in SUBSET Item, Hands(a, items)
        PROVE  Shape'
    <2>0. /\ want' = [want EXCEPT ![<<a, path[a]>>] = items]
          /\ UNCHANGED <<cycle, started, listed, kafka, reports, confirmed, mishaps>>
      BY <1>8 DEF Hands, Fetched
    <2>1. want' \in [App \X Topic -> SUBSET Item]
      BY <1>0, <2>0 DEF Shape
    <2>2. CASE items = {}
      <3>1. EndPath(a)
        BY <1>8, <2>2 DEF Hands, Fetched, PathOk
      <3> QED BY <1>0, <2>0, <2>1, <3>1, EndPathIs DEF Shape
    <2>3. CASE items # {}
      <3>1. /\ stage' = [stage EXCEPT ![a] = "send"]
            /\ pending' = [pending EXCEPT ![a] = items]
            /\ tries' = [tries EXCEPT ![a] = 0]
            /\ got' = [got EXCEPT ![a] = 0]
            /\ UNCHANGED <<path, awaiting, failed, answer, result>>
        BY <1>8, <2>3 DEF Hands, Fetched
      <3> QED BY <1>0, <2>0, <2>1, <3>1 DEF Shape
    <2> QED BY <2>2, <2>3
  <1>9. ASSUME NEW a \in App, NEW refused \in SUBSET pending[a], Enqueue(a, refused)
        PROVE  Shape'
    <2>1. path[a] \in Topic /\ pending[a] \in SUBSET Item /\ pending[a] \ refused \in SUBSET Item
      BY <1>0 DEF Shape
    <2>2. /\ Entries(a, pending[a] \ refused) \in Seq(Entry)
          /\ buffer[<<a, path[a]>>] \in Seq(Entry)
      BY <1>0, <2>1, EntriesAre DEF Shape
    <2>3. buffer[<<a, path[a]>>] \o Entries(a, pending[a] \ refused) \in Seq(Entry)
      BY <2>2, ConcatProperties
    <2>4. buffer' \in [App \X Topic -> Seq(Entry)]
      BY <1>0, <1>9, <2>3 DEF Shape, Enqueue
    <2>5. mishaps' \in [App \X Topic -> Nat]
      BY <1>0, <1>9, MishapIs DEF Enqueue
    <2> QED BY <1>0, <1>9, <2>1, <2>4, <2>5 DEF Shape, Enqueue
  <1>10. ASSUME NEW a \in App, NEW i \in Item, Confirmed(a, i)
        PROVE  Shape'
    BY <1>0, <1>10 DEF Shape, Confirmed
  <1>11. ASSUME NEW a \in App, NEW i \in Item, NotConfirmed(a, i)
        PROVE  Shape'
    BY <1>0, <1>11, SMTT(30) DEF Shape, NotConfirmed, Mishap
  <1>12. ASSUME NEW a \in App, NEW t \in Topic, NEW value \in {"acked", "error"},
               Leaves(a, t, value)
        PROVE  Shape'
    <2>1. buffer[<<a, t>>] \in Seq(Entry)
      BY <1>0 DEF Shape
    <2>2. Tail(buffer[<<a, t>>]) \in Seq(Entry)
      BY <1>12, <2>1, HeadTailProperties DEF Leaves
    <2>3. buffer' \in [App \X Topic -> Seq(Entry)]
      BY <1>0, <1>12, <2>2 DEF Shape, Leaves
    <2>4. answer' \in [App -> [Item -> {"none", "acked", "error"}]]
      BY <1>0, <1>12 DEF Shape, Leaves, Answer
    <2> QED BY <1>0, <1>12, <2>3, <2>4 DEF Shape, Leaves
  <1>13. CASE PoolDone
    BY <1>0, <1>13 DEF Shape, PoolDone
  <1>14. CASE Flushed
    BY <1>0, <1>14 DEF Shape, Flushed
  <1>15. CASE Over
    <2>1. PerPath(<<>>) \in [App \X Topic -> Seq(Entry)]
      BY DEF PerPath
    <2>2. reports' \subseteq Nat
      BY <1>0, <1>15 DEF Shape, Over
    <2>3. buffer' \in [App \X Topic -> Seq(Entry)]
      BY <1>0, <1>15, <2>1 DEF Shape, Over
    <2> QED BY <1>0, <1>15, <2>2, <2>3 DEF Shape, Over, EndCycle, NoCycle, PerPath
  <1>16. CASE CloseProducer
    BY <1>0, <1>16 DEF Shape, CloseProducer, PerPath
  <1>17. CASE Rest
    BY <1>0, <1>17 DEF Shape, Rest
  <1> QED BY <1>1, <1>2, <1>3, <1>4, <1>5, <1>6, <1>7, <1>8, <1>9, <1>10, <1>11, <1>12,
            <1>13, <1>14, <1>15, <1>16, <1>17, StepIs

\* A cycle lasts as long as one of its applications is worked on.
LEMMA PhaseStep ==
  ASSUME IInv, [Next]_vars
  PROVE  Phase'
  <1>0. Shape /\ Phase
    BY DEF IInv
  <1>1. ASSUME NEW apps \in SUBSET App, StartCycle(apps)
        PROVE  Phase'
    BY <1>0, <1>1 DEF Phase, Shape, StartCycle
  <1>2. CASE ListingFails
    BY <1>0, <1>2 DEF Phase, Shape, ListingFails
  <1>3. ASSUME NEW a \in App, TakeApp(a)
        PROVE  Phase'
    BY <1>0, <1>3 DEF Phase, Shape, TakeApp
  <1>4. ASSUME NEW a \in App, FetchRetried(a)
        PROVE  Phase'
    BY <1>0, <1>4 DEF Phase, Shape, FetchRetried, Mishap
  <1>5. ASSUME NEW a \in App, GivesUp(a)
        PROVE  Phase'
    BY <1>0, <1>5 DEF Phase, Shape, GivesUp, Mishap, PathFails, EndPath
  <1>6. ASSUME NEW a \in App, Succeeds(a)
        PROVE  Phase'
    BY <1>0, <1>6 DEF Phase, Shape, Succeeds, PathOk, EndPath
  <1>7. ASSUME NEW a \in App, Resends(a)
        PROVE  Phase'
    BY <1>0, <1>7 DEF Phase, Shape, Resends
  <1>8. ASSUME NEW a \in App, NEW items \in SUBSET Item, Hands(a, items)
        PROVE  Phase'
    BY <1>0, <1>8 DEF Phase, Shape, Hands, Fetched, PathOk, EndPath
  <1>9. ASSUME NEW a \in App, NEW refused \in SUBSET pending[a], Enqueue(a, refused)
        PROVE  Phase'
    BY <1>0, <1>9 DEF Phase, Shape, Enqueue, Mishap
  <1>10. ASSUME NEW a \in App, NEW i \in Item, Confirmed(a, i)
        PROVE  Phase'
    BY <1>0, <1>10 DEF Phase, Shape, Confirmed
  <1>11. ASSUME NEW a \in App, NEW i \in Item, NotConfirmed(a, i)
        PROVE  Phase'
    BY <1>0, <1>11 DEF Phase, Shape, NotConfirmed, Mishap
  <1>12. ASSUME NEW a \in App, NEW t \in Topic, NEW value \in {"acked", "error"},
               Leaves(a, t, value)
        PROVE  Phase'
    BY <1>0, <1>12 DEF Phase, Shape, Leaves, Answer
  <1>13. CASE PoolDone
    BY <1>0, <1>13 DEF Phase, Shape, PoolDone
  <1>14. CASE Flushed
    BY <1>0, <1>14 DEF Phase, Shape, Flushed
  <1>15. CASE Over
    BY <1>0, <1>15 DEF Phase, Shape, Over, EndCycle, NoCycle, PerPath
  <1>16. CASE CloseProducer
    BY <1>0, <1>16 DEF Phase, Shape, CloseProducer, PerPath
  <1>17. CASE Rest
    BY <1>0, <1>17 DEF Phase, Shape, Rest
  <1> QED BY <1>1, <1>2, <1>3, <1>4, <1>5, <1>6, <1>7, <1>8, <1>9, <1>10, <1>11, <1>12,
            <1>13, <1>14, <1>15, <1>16, <1>17, StepIs

\* What the other applications are at, a step of one leaves alone.
Elsewhere(a) ==
  \A b \in App \ {a} :
    /\ stage'[b] = stage[b] /\ path'[b] = path[b] /\ tries'[b] = tries[b]
    /\ pending'[b] = pending[b] /\ awaiting'[b] = awaiting[b] /\ failed'[b] = failed[b]
    /\ answer'[b] = answer[b]
    /\ \A t \in Topic :
         /\ want'[<<b, t>>] = want[<<b, t>>] /\ confirmed'[<<b, t>>] = confirmed[<<b, t>>]
         /\ mishaps'[<<b, t>>] = mishaps[<<b, t>>]
         /\ <<b, t>> \in ok' <=> <<b, t>> \in ok
    /\ landed \subseteq landed'

LEMMA OthersKeep ==
  ASSUME IInv, NEW a \in App, Elsewhere(a)
  PROVE  \A b \in App \ {a} : Progress(b)' /\ Excused(b)'
  <1> SUFFICES ASSUME NEW b \in App \ {a} PROVE Progress(b)' /\ Excused(b)'
    OBVIOUS
  <1>1. path[b] \in Topic /\ "reviews" \in Topic /\ Progress(b) /\ Excused(b)
    BY DEF IInv, Shape
  <1>2. /\ stage'[b] = stage[b] /\ path'[b] = path[b] /\ tries'[b] = tries[b]
        /\ pending'[b] = pending[b] /\ awaiting'[b] = awaiting[b] /\ failed'[b] = failed[b]
        /\ answer'[b] = answer[b]
        /\ want'[<<b, path[b]>>] = want[<<b, path[b]>>]
        /\ confirmed'[<<b, path[b]>>] = confirmed[<<b, path[b]>>]
        /\ confirmed'[<<b, "reviews">>] = confirmed[<<b, "reviews">>]
        /\ mishaps'[<<b, path[b]>>] = mishaps[<<b, path[b]>>]
        /\ <<b, path[b]>> \in ok' <=> <<b, path[b]>> \in ok
        /\ <<b, "reviews">> \in ok' <=> <<b, "reviews">> \in ok
        /\ landed \subseteq landed'
    BY <1>1 DEF Elsewhere
  <1> HIDE DEF Item, Topic
  <1>3. Progress(b)'
    BY <1>1, <1>2 DEF Progress
  <1>4. Excused(b)'
    BY <1>1, <1>2 DEF Excused
  <1> QED BY <1>3, <1>4

\* Every step keeps what workers have to do, and their excuses.
LEMMA WorkStep ==
  ASSUME IInv, [Next]_vars
  PROVE  (\A b \in App : Progress(b) /\ Excused(b))'
  <1>0. IInv /\ Shape /\ Phase /\ \A b \in App : Progress(b) /\ Excused(b)
    BY DEF IInv
  <1>1. ASSUME NEW apps \in SUBSET App, StartCycle(apps)
        PROVE  (\A b \in App : Progress(b) /\ Excused(b))'
    <2> SUFFICES ASSUME NEW b \in App PROVE Progress(b)' /\ Excused(b)'
      OBVIOUS
    <2>1. Progress(b) /\ Excused(b) /\ stage[b] = "none" /\ stage'[b] \in {"none", "queued"}
      BY <1>0, <1>1 DEF StartCycle, Phase
    <2>2. UNCHANGED <<path, tries, ok, confirmed, mishaps>>
      BY <1>1 DEF StartCycle
    <2> QED BY <2>1, <2>2 DEF Progress, Excused
  <1>2. CASE ListingFails
    BY <1>0, <1>2 DEF Progress, Excused, ListingFails
  <1>3. ASSUME NEW a \in App, TakeApp(a)
        PROVE  (\A b \in App : Progress(b) /\ Excused(b))'
    <2>1. /\ path[a] \in Topic /\ tries[a] \in Nat /\ mishaps[<<a, path[a]>>] \in Nat
          /\ Progress(a) /\ Excused(a)
      BY <1>0 DEF Shape
    <2>2. /\ stage[a] = "queued" /\ stage'[a] = "fetch"
          /\ UNCHANGED <<path, tries, want, confirmed, mishaps, ok, landed>>
      BY <1>0, <1>3 DEF Shape, TakeApp
    <2> HIDE DEF Item, Topic
    <2>7. Progress(a)'
      BY <2>1, <2>2 DEF Progress
    <2>8. Excused(a)'
      BY <2>1, <2>2 DEF Excused
    <2>9. Elsewhere(a)
      BY <1>0, <1>3 DEF Shape, Elsewhere, TakeApp
    <2> QED BY <2>7, <2>8, <2>9, OthersKeep
  <1>4. ASSUME NEW a \in App, FetchRetried(a)
        PROVE  (\A b \in App : Progress(b) /\ Excused(b))'
    <2>1. /\ path[a] \in Topic /\ tries[a] \in Nat /\ mishaps[<<a, path[a]>>] \in Nat
          /\ Progress(a) /\ Excused(a)
      BY <1>0 DEF Shape
    <2>2. /\ stage[a] = "fetch" /\ tries'[a] = tries[a] + 1
          /\ mishaps'[<<a, path[a]>>] = mishaps[<<a, path[a]>>] + 1
          /\ UNCHANGED <<stage, path, want, confirmed, ok, landed>>
      BY <1>0, <1>4 DEF Shape, FetchRetried, Mishap
    <2> HIDE DEF Item, Topic
    <2>7. Progress(a)'
      BY <2>1, <2>2 DEF Progress
    <2>8. Excused(a)'
      BY <2>1, <2>2 DEF Excused
    <2>9. Elsewhere(a)
      BY <1>0, <1>4, MishapIs DEF Shape, Elsewhere, FetchRetried
    <2> QED BY <2>7, <2>8, <2>9, OthersKeep
  <1>5. ASSUME NEW a \in App, GivesUp(a)
        PROVE  (\A b \in App : Progress(b) /\ Excused(b))'
    <2>1. /\ path[a] \in Topic /\ tries[a] \in Nat /\ mishaps[<<a, path[a]>>] \in Nat
          /\ Progress(a) /\ Excused(a)
      BY <1>0 DEF Shape
    <2>2. /\ stage'[a] = IF path[a] = "app-stats" THEN "fetch" ELSE "finished"
          /\ path'[a] = "reviews" /\ tries'[a] = 0
      BY <1>0, <1>5, EndPathIs DEF GivesUp, PathFails
    <2>3. mishaps'[<<a, "reviews">>] \in Nat
      BY <1>0, <1>5, MishapIs DEF GivesUp
    <2>4. /\ UNCHANGED <<confirmed, landed>> /\ ok' \subseteq ok \cup {<<a, path[a]>>}
          /\ stage[a] \in {"fetch", "send", "await"}
      BY <1>5 DEF GivesUp, PathFails
    <2> HIDE DEF Item, Topic
    <2>7. Progress(a)'
      BY <2>1, <2>2, <2>3, <2>4 DEF Progress
    <2>8. Excused(a)'
      BY <2>1, <2>2, <2>3, <2>4 DEF Excused
    <2>5. EndPath(a) /\ (UNCHANGED mishaps \/ Mishap(a)) /\ UNCHANGED <<want, confirmed, landed, ok>>
      BY <1>5 DEF GivesUp, PathFails
    <2>9. Elsewhere(a)
      BY <1>0, <2>5, EndPathIs, MishapIs DEF Elsewhere
    <2> QED BY <2>7, <2>8, <2>9, OthersKeep
  <1>6. ASSUME NEW a \in App, Succeeds(a)
        PROVE  (\A b \in App : Progress(b) /\ Excused(b))'
    <2>1. /\ path[a] \in Topic /\ tries[a] \in Nat /\ mishaps[<<a, path[a]>>] \in Nat
          /\ Progress(a) /\ Excused(a)
      BY <1>0 DEF Shape
    <2>2. /\ stage'[a] = IF path[a] = "app-stats" THEN "fetch" ELSE "finished"
          /\ path'[a] = "reviews" /\ tries'[a] = 0
      BY <1>0, <1>6, EndPathIs DEF Succeeds, PathOk
    <2>3. mishaps'[<<a, "reviews">>] \in Nat
      BY <1>0, <1>6 DEF Shape, Succeeds
    <2>4. /\ UNCHANGED <<confirmed, landed>> /\ ok' \subseteq ok \cup {<<a, path[a]>>}
          /\ stage[a] \in {"fetch", "send", "await"}
      BY <1>6 DEF Succeeds, PathOk
    <2> HIDE DEF Item, Topic
    <2>7. Progress(a)'
      BY <2>1, <2>2, <2>3, <2>4 DEF Progress
    <2>8. Excused(a)'
      BY <2>1, <2>2, <2>3, <2>4 DEF Excused
    <2>9. Elsewhere(a)
      BY <1>0, <1>6, EndPathIs DEF Shape, Elsewhere, Succeeds, PathOk
    <2> QED BY <2>7, <2>8, <2>9, OthersKeep
  <1>7. ASSUME NEW a \in App, Resends(a)
        PROVE  (\A b \in App : Progress(b) /\ Excused(b))'
    <2>1. /\ path[a] \in Topic /\ tries[a] \in Nat /\ mishaps[<<a, path[a]>>] \in Nat
          /\ Progress(a) /\ Excused(a)
      BY <1>0 DEF Shape
    <2>2. /\ stage[a] = "await" /\ awaiting[a] = {} /\ failed[a] # {}
          /\ stage'[a] = "send" /\ pending'[a] = failed[a] /\ tries'[a] = tries[a] + 1
          /\ UNCHANGED <<path, want, confirmed, mishaps, ok, landed>>
      BY <1>0, <1>7 DEF Shape, Resends
    <2> HIDE DEF Item, Topic
    <2>7. Progress(a)'
      BY <2>1, <2>2 DEF Progress
    <2>8. Excused(a)'
      BY <2>1, <2>2 DEF Excused
    <2>9. Elsewhere(a)
      BY <1>0, <1>7 DEF Shape, Elsewhere, Resends
    <2> QED BY <2>7, <2>8, <2>9, OthersKeep
  <1>8. ASSUME NEW a \in App, NEW items \in SUBSET Item, Hands(a, items)
        PROVE  (\A b \in App : Progress(b) /\ Excused(b))'
    <2>1. /\ path[a] \in Topic /\ tries[a] \in Nat /\ mishaps[<<a, path[a]>>] \in Nat
          /\ Progress(a) /\ Excused(a) /\ mishaps[<<a, "reviews">>] \in Nat
      BY <1>0 DEF Shape
    <2>2. /\ stage[a] = "fetch" /\ want'[<<a, path[a]>>] = items
          /\ UNCHANGED <<confirmed, mishaps, landed>>
      BY <1>0, <1>8 DEF Shape, Hands, Fetched
    <2>3. \A b \in App \ {a}, t \in Topic : want'[<<b, t>>] = want[<<b, t>>]
      BY <1>0, <1>8 DEF Shape, Hands, Fetched
    <2>4. CASE items = {}
      <3>1. EndPath(a) /\ ok' = ok \cup {<<a, path[a]>>}
        BY <1>8, <2>4 DEF Hands, Fetched, PathOk
      <3>2. /\ stage'[a] = IF path[a] = "app-stats" THEN "fetch" ELSE "finished"
            /\ path'[a] = "reviews" /\ tries'[a] = 0
        BY <1>0, <3>1, EndPathIs
      <3>3. \A b \in App \ {a}, t \in Topic : <<b, t>> \in ok' <=> <<b, t>> \in ok
        BY <3>1
      <3>4. Elsewhere(a)
        <4>1. \A b \in App \ {a} :
                /\ stage'[b] = stage[b] /\ path'[b] = path[b] /\ tries'[b] = tries[b]
                /\ pending'[b] = pending[b] /\ awaiting'[b] = awaiting[b]
                /\ failed'[b] = failed[b] /\ answer'[b] = answer[b]
          BY <1>0, <3>1, EndPathIs
        <4> QED BY <2>2, <2>3, <3>3, <4>1 DEF Elsewhere
      <3> HIDE DEF Item, Topic
      <3>5. Progress(a)' /\ Excused(a)'
        BY <2>1, <2>2, <3>1, <3>2 DEF Progress, Excused
      <3> QED BY <1>0, <3>4, <3>5, OthersKeep
    <2>5. CASE items # {}
      <3>1. /\ stage' = [stage EXCEPT ![a] = "send"]
            /\ pending' = [pending EXCEPT ![a] = items]
            /\ tries' = [tries EXCEPT ![a] = 0]
            /\ UNCHANGED <<path, awaiting, failed, answer, result>>
        BY <1>8, <2>5 DEF Hands, Fetched
      <3>2. stage'[a] = "send" /\ pending'[a] = items /\ tries'[a] = 0
        BY <1>0, <3>1 DEF Shape
      <3>3. Elsewhere(a)
        BY <1>0, <2>2, <2>3, <3>1 DEF Shape, Elsewhere
      <3> HIDE DEF Item, Topic
      <3>4. Progress(a)' /\ Excused(a)'
        BY <2>1, <2>2, <3>1, <3>2 DEF Progress, Excused
      <3> QED BY <1>0, <3>3, <3>4, OthersKeep
    <2> QED BY <2>4, <2>5
  <1>9. ASSUME NEW a \in App, NEW refused \in SUBSET pending[a], Enqueue(a, refused)
        PROVE  (\A b \in App : Progress(b) /\ Excused(b))'
    <2>1. /\ path[a] \in Topic /\ tries[a] \in Nat /\ mishaps[<<a, path[a]>>] \in Nat
          /\ Progress(a) /\ Excused(a)
      BY <1>0 DEF Shape
    <2>2. /\ stage[a] = "send" /\ stage'[a] = "await" /\ refused \subseteq pending[a]
          /\ awaiting'[a] = pending[a] \ refused /\ failed'[a] = refused
          /\ \A i \in Item : answer'[a][i] = "none"
          /\ UNCHANGED <<path, tries, want, confirmed, ok, landed>>
      BY <1>0, <1>9 DEF Shape, Enqueue
    <2>3. refused # {} => mishaps'[<<a, path[a]>>] = mishaps[<<a, path[a]>>] + 1
      BY <1>0, <1>9 DEF Shape, Enqueue, Mishap
    <2>4. refused = {} => mishaps' = mishaps
      BY <1>9 DEF Enqueue
    <2> HIDE DEF Item, Topic
    <2>7. Progress(a)'
      BY <2>1, <2>2, <2>3, <2>4 DEF Progress
    <2>8. Excused(a)'
      BY <2>1, <2>2, <2>3, <2>4 DEF Excused
    <2>9. Elsewhere(a)
      BY <1>0, <1>9, MishapIs DEF Shape, Elsewhere, Enqueue
    <2> QED BY <2>7, <2>8, <2>9, OthersKeep
  <1>10. ASSUME NEW a \in App, NEW i \in Item, Confirmed(a, i)
        PROVE  (\A b \in App : Progress(b) /\ Excused(b))'
    <2>1. /\ path[a] \in Topic /\ tries[a] \in Nat /\ mishaps[<<a, path[a]>>] \in Nat
          /\ Progress(a) /\ Excused(a)
      BY <1>0 DEF Shape
    <2>2. /\ stage[a] = "await" /\ i \in awaiting[a] /\ answer[a][i] = "acked"
          /\ awaiting'[a] = awaiting[a] \ {i}
          /\ confirmed'[<<a, path[a]>>] = confirmed[<<a, path[a]>>] \cup {i}
          /\ UNCHANGED <<stage, path, tries, failed, answer, want, mishaps, ok, landed>>
      BY <1>0, <1>10 DEF Shape, Confirmed, NextFuture
    <2>3. path[a] = "app-stats" => confirmed'[<<a, "reviews">>] = confirmed[<<a, "reviews">>]
      BY <1>0, <1>10 DEF Shape, Confirmed
    <2> HIDE DEF Item, Topic
    <2>7. Progress(a)'
      BY <2>1, <2>2, <2>3 DEF Progress
    <2>8. Excused(a)'
      BY <2>1, <2>2, <2>3 DEF Excused
    <2>9. Elsewhere(a)
      BY <1>0, <1>10 DEF Shape, Elsewhere, Confirmed
    <2> QED BY <2>7, <2>8, <2>9, OthersKeep
  <1>11. ASSUME NEW a \in App, NEW i \in Item, NotConfirmed(a, i)
        PROVE  (\A b \in App : Progress(b) /\ Excused(b))'
    <2>1. /\ path[a] \in Topic /\ tries[a] \in Nat /\ mishaps[<<a, path[a]>>] \in Nat
          /\ Progress(a) /\ Excused(a)
      BY <1>0 DEF Shape
    <2>2. /\ stage[a] = "await" /\ i \in awaiting[a]
          /\ awaiting'[a] = awaiting[a] \ {i} /\ failed'[a] = failed[a] \cup {i}
          /\ mishaps'[<<a, path[a]>>] = mishaps[<<a, path[a]>>] + 1
          /\ UNCHANGED <<stage, path, tries, answer, want, confirmed, ok, landed>>
      BY <1>0, <1>11 DEF Shape, NotConfirmed, NextFuture, Mishap
    <2> HIDE DEF Item, Topic
    <2>7. Progress(a)'
      BY <2>1, <2>2 DEF Progress
    <2>8. Excused(a)'
      BY <2>1, <2>2 DEF Excused
    <2>9. Elsewhere(a)
      BY <1>0, <1>11, MishapIs DEF Shape, Elsewhere, NotConfirmed
    <2> QED BY <2>7, <2>8, <2>9, OthersKeep
  <1>12. ASSUME NEW a \in App, NEW t \in Topic, NEW value \in {"acked", "error"},
               Leaves(a, t, value)
        PROVE  (\A b \in App : Progress(b) /\ Excused(b))'
    <2> SUFFICES ASSUME NEW b \in App PROVE Progress(b)' /\ Excused(b)'
      OBVIOUS
    <2>1. /\ UNCHANGED <<stage, path, tries, pending, awaiting, failed, ok, want, confirmed, mishaps>>
          /\ landed \subseteq landed'
      BY <1>12 DEF Leaves
    <2>2. ASSUME NEW i \in Item, answer'[b][i] = "acked", stage[b] = "await"
          PROVE  <<b, path[b], i>> \in landed'
      <3>1. CASE answer'[b][i] = answer[b][i]
        BY <1>0, <2>1, <2>2, <3>1 DEF Progress
      <3>2. CASE answer'[b][i] # answer[b][i]
        <4>1. /\ b = a /\ path[a] = t /\ i = Head(buffer[<<a, t>>]).item /\ value = "acked"
              /\ Head(buffer[<<a, t>>]).cycle = started
          BY <1>0, <1>12, <2>2, <3>2 DEF Leaves, Answer, Shape
        <4>2. cycle # "idle"
          BY <1>0, <2>2 DEF Phase
        <4> QED BY <1>12, <4>1, <4>2 DEF Leaves, Landed
      <3> QED BY <3>1, <3>2
    <2>3. Progress(b) /\ Excused(b)
      BY <1>0
    <2> HIDE DEF Item, Topic
    <2> QED BY <2>1, <2>2, <2>3 DEF Progress, Excused
  <1>13. CASE PoolDone
    BY <1>0, <1>13 DEF Progress, Excused, PoolDone
  <1>14. CASE Flushed
    BY <1>0, <1>14 DEF Progress, Excused, Flushed
  <1>15. CASE Over
    <2> SUFFICES ASSUME NEW b \in App PROVE Progress(b)' /\ Excused(b)'
      OBVIOUS
    <2>1. /\ stage'[b] = "none" /\ path'[b] = "app-stats" /\ tries'[b] = 0 /\ ok' = {}
      BY <1>15 DEF Over, EndCycle, NoCycle
    <2>2. \A p \in App \X Topic : confirmed'[p] = {} /\ mishaps'[p] = 0
      BY <1>15 DEF Over, EndCycle, NoCycle, PerPath
    <2>3. <<b, "app-stats">> \in App \X Topic /\ <<b, "reviews">> \in App \X Topic
      OBVIOUS
    <2> QED BY <2>1, <2>2, <2>3 DEF Progress, Excused
  <1>16. CASE CloseProducer
    <2> SUFFICES ASSUME NEW b \in App PROVE Progress(b)' /\ Excused(b)'
      OBVIOUS
    <2>1. UNCHANGED <<stage, path, tries, pending, awaiting, failed, ok, want, confirmed, mishaps,
                      landed>>
      BY <1>16 DEF CloseProducer
    <2>2. \A i \in Item : answer'[b][i] = "acked" => answer[b][i] = "acked"
      BY <1>0, <1>16 DEF CloseProducer, Shape
    <2>3. Progress(b) /\ Excused(b)
      BY <1>0
    <2> HIDE DEF Item, Topic
    <2> QED BY <2>1, <2>2, <2>3 DEF Progress, Excused
  <1>17. CASE Rest
    BY <1>0, <1>17 DEF Progress, Excused, Rest
  <1> QED BY <1>1, <1>2, <1>3, <1>4, <1>5, <1>6, <1>7, <1>8, <1>9, <1>10, <1>11, <1>12,
            <1>13, <1>14, <1>15, <1>16, <1>17, StepIs

\* What was confirmed has landed, and stays.
LEMMA EvidenceStep ==
  ASSUME IInv, [Next]_vars
  PROVE  Evidence'
  <1>0. Shape /\ Evidence /\ \A b \in App : Progress(b)
    BY DEF IInv
  <1>1. ASSUME NEW apps \in SUBSET App, StartCycle(apps)
        PROVE  Evidence'
    BY <1>0, <1>1 DEF Evidence, StartCycle
  <1>2. CASE ListingFails
    BY <1>0, <1>2 DEF Evidence, ListingFails
  <1>3. ASSUME NEW a \in App, TakeApp(a)
        PROVE  Evidence'
    BY <1>0, <1>3 DEF Evidence, TakeApp
  <1>4. ASSUME NEW a \in App, FetchRetried(a)
        PROVE  Evidence'
    BY <1>0, <1>4 DEF Evidence, FetchRetried
  <1>5. ASSUME NEW a \in App, GivesUp(a)
        PROVE  Evidence'
    BY <1>0, <1>5 DEF Evidence, GivesUp, PathFails
  <1>6. ASSUME NEW a \in App, Succeeds(a)
        PROVE  Evidence'
    <2>1. PICK q \in App \X Topic : q = <<a, path[a]>>
      BY <1>0 DEF Shape
    <2>2. want[q] \subseteq confirmed[q]
      <3>1. Progress(a) /\ stage[a] = "await" /\ awaiting[a] = {} /\ failed[a] = {}
        BY <1>0, <1>6 DEF Succeeds
      <3>2. want[q] = confirmed[q] \cup awaiting[a] \cup failed[a]
        BY <2>1, <3>1 DEF Progress
      <3> QED BY <3>1, <3>2
    <2>3. ok' = ok \cup {q} /\ UNCHANGED <<want, confirmed, landed>>
      BY <1>6, <2>1 DEF Succeeds, PathOk
    <2> QED BY <1>0, <2>2, <2>3 DEF Evidence
  <1>7. ASSUME NEW a \in App, Resends(a)
        PROVE  Evidence'
    BY <1>0, <1>7 DEF Evidence, Resends
  <1>8. ASSUME NEW a \in App, NEW items \in SUBSET Item, Hands(a, items)
        PROVE  Evidence'
    <2>1. PICK q \in App \X Topic : q = <<a, path[a]>>
      BY <1>0 DEF Shape
    <2>2. q \notin ok
      BY <1>0, <1>8, <2>1 DEF Progress, Hands
    <2>3. /\ want' = [want EXCEPT ![q] = items] /\ UNCHANGED <<confirmed, landed>>
          /\ ok' = ok \/ (ok' = ok \cup {q} /\ items = {})
      BY <1>8, <2>1 DEF Hands, Fetched, PathOk
    <2>4. want'[q] = items /\ \A p \in App \X Topic : p # q => want'[p] = want[p]
      BY <1>0, <2>3 DEF Shape
    <2> QED BY <1>0, <2>2, <2>3, <2>4 DEF Evidence
  <1>9. ASSUME NEW a \in App, NEW refused \in SUBSET pending[a], Enqueue(a, refused)
        PROVE  Evidence'
    BY <1>0, <1>9 DEF Evidence, Enqueue
  <1>10. ASSUME NEW a \in App, NEW i \in Item, Confirmed(a, i)
        PROVE  Evidence'
    <2>1. PICK q \in App \X Topic : q = <<a, path[a]>>
      BY <1>0 DEF Shape
    <2>2. <<q[1], q[2], i>> \in landed
      BY <1>0, <1>10, <2>1 DEF Progress, Confirmed
    <2>3. confirmed' = [confirmed EXCEPT ![q] = confirmed[q] \cup {i}] /\ UNCHANGED <<want, ok, landed>>
      BY <1>10, <2>1 DEF Confirmed
    <2>4. /\ confirmed'[q] = confirmed[q] \cup {i}
          /\ \A p \in App \X Topic : p # q => confirmed'[p] = confirmed[p]
      BY <1>0, <2>3 DEF Shape
    <2> QED BY <1>0, <2>2, <2>3, <2>4 DEF Evidence
  <1>11. ASSUME NEW a \in App, NEW i \in Item, NotConfirmed(a, i)
        PROVE  Evidence'
    BY <1>0, <1>11 DEF Evidence, NotConfirmed
  <1>12. ASSUME NEW a \in App, NEW t \in Topic, NEW value \in {"acked", "error"},
               Leaves(a, t, value)
        PROVE  Evidence'
    BY <1>0, <1>12 DEF Evidence, Leaves
  <1>13. CASE PoolDone
    BY <1>0, <1>13 DEF Evidence, PoolDone
  <1>14. CASE Flushed
    BY <1>0, <1>14 DEF Evidence, Flushed
  <1>15. CASE Over
    <2>1. ok' = {} /\ \A p \in App \X Topic : confirmed'[p] = {}
      BY <1>15 DEF Over, EndCycle, NoCycle, PerPath
    <2> QED BY <2>1 DEF Evidence
  <1>16. CASE CloseProducer
    BY <1>0, <1>16 DEF Evidence, CloseProducer
  <1>17. CASE Rest
    BY <1>0, <1>17 DEF Evidence, Rest
  <1> QED BY <1>1, <1>2, <1>3, <1>4, <1>5, <1>6, <1>7, <1>8, <1>9, <1>10, <1>11, <1>12,
            <1>13, <1>14, <1>15, <1>16, <1>17, StepIs

LEMMA MoreMishaps ==
  ASSUME Shape, FailedForItsOwnReason, NotOkPaths, NEW a \in App,
         UNCHANGED mishaps \/ Mishap(a), UNCHANGED <<notOk, hopeless>>
  PROVE  FailedForItsOwnReason'
  <1>1. \A p \in App \X Topic : mishaps'[p] \in Nat /\ mishaps[p] \in Nat /\ mishaps'[p] >= mishaps[p]
    BY MishapIs DEF Shape
  <1> QED BY <1>1 DEF FailedForItsOwnReason, NotOkPaths

\* Only paths fail.
LEMMA NotOkStep ==
  ASSUME IInv, [Next]_vars
  PROVE  NotOkPaths'
  <1>0. Shape /\ NotOkPaths
    BY DEF IInv
  <1>1. ASSUME NEW apps \in SUBSET App, StartCycle(apps)
        PROVE  NotOkPaths'
    BY <1>0, <1>1 DEF NotOkPaths, StartCycle
  <1>2. CASE ListingFails
    BY <1>0, <1>2 DEF NotOkPaths, ListingFails
  <1>3. ASSUME NEW a \in App, TakeApp(a)
        PROVE  NotOkPaths'
    BY <1>0, <1>3 DEF NotOkPaths, TakeApp
  <1>4. ASSUME NEW a \in App, FetchRetried(a)
        PROVE  NotOkPaths'
    BY <1>0, <1>4 DEF NotOkPaths, FetchRetried, Mishap
  <1>5. ASSUME NEW a \in App, GivesUp(a)
        PROVE  NotOkPaths'
    <2>1. <<a, path[a]>> \in App \X Topic
      BY <1>0 DEF Shape
    <2>2. notOk' = notOk \cup {<<a, path[a]>>}
      BY <1>5 DEF GivesUp, PathFails
    <2> QED BY <1>0, <2>1, <2>2 DEF NotOkPaths
  <1>6. ASSUME NEW a \in App, Succeeds(a)
        PROVE  NotOkPaths'
    BY <1>0, <1>6 DEF NotOkPaths, Succeeds, PathOk
  <1>7. ASSUME NEW a \in App, Resends(a)
        PROVE  NotOkPaths'
    BY <1>0, <1>7 DEF NotOkPaths, Resends
  <1>8. ASSUME NEW a \in App, NEW items \in SUBSET Item, Hands(a, items)
        PROVE  NotOkPaths'
    BY <1>0, <1>8 DEF NotOkPaths, Hands, Fetched, PathOk
  <1>9. ASSUME NEW a \in App, NEW refused \in SUBSET pending[a], Enqueue(a, refused)
        PROVE  NotOkPaths'
    BY <1>0, <1>9 DEF NotOkPaths, Enqueue, Mishap
  <1>10. ASSUME NEW a \in App, NEW i \in Item, Confirmed(a, i)
        PROVE  NotOkPaths'
    BY <1>0, <1>10 DEF NotOkPaths, Confirmed
  <1>11. ASSUME NEW a \in App, NEW i \in Item, NotConfirmed(a, i)
        PROVE  NotOkPaths'
    BY <1>0, <1>11 DEF NotOkPaths, NotConfirmed, Mishap
  <1>12. ASSUME NEW a \in App, NEW t \in Topic, NEW value \in {"acked", "error"},
               Leaves(a, t, value)
        PROVE  NotOkPaths'
    BY <1>0, <1>12 DEF NotOkPaths, Leaves, Answer
  <1>13. CASE PoolDone
    BY <1>0, <1>13 DEF NotOkPaths, PoolDone
  <1>14. CASE Flushed
    BY <1>0, <1>14 DEF NotOkPaths, Flushed
  <1>15. CASE Over
    <2>1. notOk' = {}
      BY <1>15 DEF Over, EndCycle, NoCycle
    <2> QED BY <2>1 DEF NotOkPaths
  <1>16. CASE CloseProducer
    BY <1>0, <1>16 DEF NotOkPaths, CloseProducer, PerPath
  <1>17. CASE Rest
    BY <1>0, <1>17 DEF NotOkPaths, Rest
  <1> QED BY <1>1, <1>2, <1>3, <1>4, <1>5, <1>6, <1>7, <1>8, <1>9, <1>10, <1>11, <1>12,
            <1>13, <1>14, <1>15, <1>16, <1>17, StepIs

\* A reason to give a path up stays one.
LEMMA ReasonStep ==
  ASSUME IInv, [Next]_vars
  PROVE  FailedForItsOwnReason'
  <1>0. Shape /\ FailedForItsOwnReason /\ NotOkPaths
    BY DEF IInv
  <1>1. ASSUME NEW apps \in SUBSET App, StartCycle(apps)
        PROVE  FailedForItsOwnReason'
    BY <1>0, <1>1 DEF FailedForItsOwnReason, StartCycle
  <1>2. CASE ListingFails
    BY <1>0, <1>2 DEF FailedForItsOwnReason, ListingFails
  <1>3. ASSUME NEW a \in App, TakeApp(a)
        PROVE  FailedForItsOwnReason'
    BY <1>0, <1>3 DEF FailedForItsOwnReason, TakeApp
  <1>4. ASSUME NEW a \in App, FetchRetried(a)
        PROVE  FailedForItsOwnReason'
    <2>1. UNCHANGED mishaps \/ Mishap(a)
      BY <1>4 DEF FetchRetried
    <2>2. UNCHANGED <<notOk, hopeless>>
      BY <1>4 DEF FetchRetried
    <2> QED BY <1>0, <2>1, <2>2, MoreMishaps
  <1>5. ASSUME NEW a \in App, GivesUp(a)
        PROVE  FailedForItsOwnReason'
    <2>1. PICK q \in App \X Topic : q = <<a, path[a]>>
      BY <1>0 DEF Shape
    <2>2. /\ UNCHANGED mishaps \/ Mishap(a)
          /\ hopeless \subseteq hopeless' /\ notOk' = notOk \cup {q}
          /\ q \in hopeless' \/ mishaps'[q] > MaxRetries
      BY <1>5, <2>1 DEF GivesUp, PathFails
    <2>3. \A p \in App \X Topic : mishaps'[p] \in Nat /\ mishaps[p] \in Nat /\ mishaps'[p] >= mishaps[p]
      BY <1>0, <2>2, MishapIs DEF Shape
    <2> QED BY <1>0, <2>2, <2>3 DEF FailedForItsOwnReason, NotOkPaths
  <1>6. ASSUME NEW a \in App, Succeeds(a)
        PROVE  FailedForItsOwnReason'
    BY <1>0, <1>6 DEF FailedForItsOwnReason, Succeeds, PathOk
  <1>7. ASSUME NEW a \in App, Resends(a)
        PROVE  FailedForItsOwnReason'
    BY <1>0, <1>7 DEF FailedForItsOwnReason, Resends
  <1>8. ASSUME NEW a \in App, NEW items \in SUBSET Item, Hands(a, items)
        PROVE  FailedForItsOwnReason'
    BY <1>0, <1>8 DEF FailedForItsOwnReason, Hands, Fetched, PathOk
  <1>9. ASSUME NEW a \in App, NEW refused \in SUBSET pending[a], Enqueue(a, refused)
        PROVE  FailedForItsOwnReason'
    <2>1. UNCHANGED mishaps \/ Mishap(a)
      BY <1>9 DEF Enqueue
    <2>2. UNCHANGED <<notOk, hopeless>>
      BY <1>9 DEF Enqueue
    <2> QED BY <1>0, <2>1, <2>2, MoreMishaps
  <1>10. ASSUME NEW a \in App, NEW i \in Item, Confirmed(a, i)
        PROVE  FailedForItsOwnReason'
    BY <1>0, <1>10 DEF FailedForItsOwnReason, Confirmed
  <1>11. ASSUME NEW a \in App, NEW i \in Item, NotConfirmed(a, i)
        PROVE  FailedForItsOwnReason'
    <2>1. UNCHANGED mishaps \/ Mishap(a)
      BY <1>11 DEF NotConfirmed
    <2>2. UNCHANGED <<notOk, hopeless>>
      BY <1>11 DEF NotConfirmed
    <2> QED BY <1>0, <2>1, <2>2, MoreMishaps
  <1>12. ASSUME NEW a \in App, NEW t \in Topic, NEW value \in {"acked", "error"},
               Leaves(a, t, value)
        PROVE  FailedForItsOwnReason'
    BY <1>0, <1>12 DEF FailedForItsOwnReason, Leaves
  <1>13. CASE PoolDone
    BY <1>0, <1>13 DEF FailedForItsOwnReason, PoolDone
  <1>14. CASE Flushed
    BY <1>0, <1>14 DEF FailedForItsOwnReason, Flushed
  <1>15. CASE Over
    <2>1. notOk' = {}
      BY <1>15 DEF Over, EndCycle, NoCycle
    <2> QED BY <2>1 DEF FailedForItsOwnReason
  <1>16. CASE CloseProducer
    BY <1>0, <1>16 DEF FailedForItsOwnReason, CloseProducer
  <1>17. CASE Rest
    BY <1>0, <1>17 DEF FailedForItsOwnReason, Rest
  <1> QED BY <1>1, <1>2, <1>3, <1>4, <1>5, <1>6, <1>7, <1>8, <1>9, <1>10, <1>11, <1>12,
            <1>13, <1>14, <1>15, <1>16, <1>17, StepIs

\* A cycle that has its report leaves no record.
LEMMA ReportedStep ==
  ASSUME IInv, [Next]_vars
  PROVE  Reported'
  <1>0. Shape /\ Phase /\ Reported
    BY DEF IInv
  <1>1. ASSUME NEW apps \in SUBSET App, StartCycle(apps)
        PROVE  Reported'
    <2>1. started \in Nat /\ reports \subseteq Nat /\ started' = started + 1
          /\ UNCHANGED <<buffer, reports>> /\ cycle' \in {"idle", "crawling"}
      BY <1>0, <1>1 DEF Shape, StartCycle
    <2>2. \A r \in reports : r <= started' /\ r # started'
      <3>1. \A r \in reports : r \in Nat /\ r <= started
        BY <1>0, <2>1 DEF Reported
      <3> QED BY <2>1, <3>1
    <2>3. ASSUME NEW p \in App \X Topic, NEW k \in 1..Len(buffer[p])
          PROVE  buffer[p][k].cycle <= started' /\ buffer[p][k].cycle \notin reports
      <3>1. buffer[p] \in Seq(Entry)
        BY <1>0 DEF Shape
      <3>2. buffer[p][k] \in Entry
        BY <3>1
      <3>3. buffer[p][k].cycle \in Nat
        BY <3>2 DEF Entry
      <3> QED BY <1>0, <2>1, <3>3 DEF Reported
    <2> QED BY <2>1, <2>2, <2>3 DEF Reported
  <1>2. CASE ListingFails
    <2>1. started \in Nat /\ reports \subseteq Nat /\ started' = started + 1
          /\ UNCHANGED <<buffer, reports>> /\ cycle' \in {"idle", "crawling"}
      BY <1>0, <1>2 DEF Shape, ListingFails
    <2>2. \A r \in reports : r <= started' /\ r # started'
      <3>1. \A r \in reports : r \in Nat /\ r <= started
        BY <1>0, <2>1 DEF Reported
      <3> QED BY <2>1, <3>1
    <2>3. ASSUME NEW p \in App \X Topic, NEW k \in 1..Len(buffer[p])
          PROVE  buffer[p][k].cycle <= started' /\ buffer[p][k].cycle \notin reports
      <3>1. buffer[p] \in Seq(Entry)
        BY <1>0 DEF Shape
      <3>2. buffer[p][k] \in Entry
        BY <3>1
      <3>3. buffer[p][k].cycle \in Nat
        BY <3>2 DEF Entry
      <3> QED BY <1>0, <2>1, <3>3 DEF Reported
    <2> QED BY <2>1, <2>2, <2>3 DEF Reported
  <1>3. ASSUME NEW a \in App, TakeApp(a)
        PROVE  Reported'
    BY <1>0, <1>3 DEF Reported, Empty, TakeApp
  <1>4. ASSUME NEW a \in App, FetchRetried(a)
        PROVE  Reported'
    BY <1>0, <1>4 DEF Reported, Empty, FetchRetried
  <1>5. ASSUME NEW a \in App, GivesUp(a)
        PROVE  Reported'
    BY <1>0, <1>5 DEF Reported, Empty, GivesUp
  <1>6. ASSUME NEW a \in App, Succeeds(a)
        PROVE  Reported'
    BY <1>0, <1>6 DEF Reported, Empty, Succeeds
  <1>7. ASSUME NEW a \in App, Resends(a)
        PROVE  Reported'
    BY <1>0, <1>7 DEF Reported, Empty, Resends
  <1>8. ASSUME NEW a \in App, NEW items \in SUBSET Item, Hands(a, items)
        PROVE  Reported'
    BY <1>0, <1>8 DEF Reported, Empty, Hands
  <1>9. ASSUME NEW a \in App, NEW refused \in SUBSET pending[a], Enqueue(a, refused)
        PROVE  Reported'
    <2>1. PICK q \in App \X Topic : q = <<a, path[a]>>
      BY <1>0 DEF Shape
    <2> DEFINE new == Entries(a, pending[a] \ refused)
    <2>2. cycle = "crawling" /\ started \notin reports /\ started \in Nat
      BY <1>0, <1>9 DEF Phase, Reported, Enqueue, Shape
    <2>3. pending[a] \ refused \in SUBSET Item
      BY <1>0 DEF Shape
    <2>4. new \in Seq(Entry) /\ \A k \in 1..Len(new) : new[k].cycle = started
      BY <1>0, <2>3, EntriesAre
    <2>5. buffer' = [buffer EXCEPT ![q] = buffer[q] \o new] /\ UNCHANGED <<cycle, started, reports>>
      BY <1>9, <2>1 DEF Enqueue
    <2> HIDE DEF new
    <2>6. buffer[q] \in Seq(Entry)
      BY <1>0 DEF Shape
    <2>7. ASSUME NEW k \in 1..Len(buffer[q] \o new)
          PROVE  (buffer[q] \o new)[k].cycle <= started /\ (buffer[q] \o new)[k].cycle \notin reports
      <3>0. Len(buffer[q]) \in Nat /\ Len(new) \in Nat
        BY <2>4, <2>6
      <3>1. CASE k <= Len(buffer[q])
        <4>1. k \in 1..Len(buffer[q]) /\ (buffer[q] \o new)[k] = buffer[q][k]
          BY <2>4, <2>6, <3>0, <3>1, ConcatProperties
        <4> QED BY <1>0, <4>1 DEF Reported
      <3>2. CASE ~(k <= Len(buffer[q]))
        <4>1. /\ k - Len(buffer[q]) \in 1..Len(new)
              /\ (buffer[q] \o new)[k] = new[k - Len(buffer[q])]
          BY <2>4, <2>6, <3>0, <3>2, ConcatProperties
        <4> QED BY <2>2, <2>4, <4>1
      <3> QED BY <3>1, <3>2
    <2>8. buffer'[q] = buffer[q] \o new /\ \A p \in App \X Topic : p # q => buffer'[p] = buffer[p]
      BY <1>0, <2>5 DEF Shape
    <2> QED BY <1>0, <2>2, <2>5, <2>7, <2>8 DEF Reported
  <1>10. ASSUME NEW a \in App, NEW i \in Item, Confirmed(a, i)
        PROVE  Reported'
    BY <1>0, <1>10 DEF Reported, Empty, Confirmed
  <1>11. ASSUME NEW a \in App, NEW i \in Item, NotConfirmed(a, i)
        PROVE  Reported'
    BY <1>0, <1>11 DEF Reported, Empty, NotConfirmed
  <1>12. ASSUME NEW a \in App, NEW t \in Topic, NEW value \in {"acked", "error"},
               Leaves(a, t, value)
        PROVE  Reported'
    <2>1. PICK q \in App \X Topic : q = <<a, t>>
      OBVIOUS
    <2>2. buffer[q] \in Seq(Entry) /\ buffer[q] # <<>>
      BY <1>0, <1>12, <2>1 DEF Shape, Leaves
    <2>3. buffer' = [buffer EXCEPT ![q] = Tail(buffer[q])] /\ UNCHANGED <<cycle, started, reports>>
      BY <1>12, <2>1 DEF Leaves
    <2>4. buffer'[q] = Tail(buffer[q]) /\ \A p \in App \X Topic : p # q => buffer'[p] = buffer[p]
      BY <1>0, <2>3 DEF Shape
    <2>5. cycle # "reporting"
      BY <1>0, <2>1, <2>2 DEF Reported, Empty
    <2>6. ASSUME NEW k \in 1..Len(Tail(buffer[q]))
          PROVE  k + 1 \in 1..Len(buffer[q]) /\ Tail(buffer[q])[k] = buffer[q][k + 1]
      BY <2>2, HeadTailProperties
    <2> QED BY <1>0, <2>3, <2>4, <2>5, <2>6 DEF Reported
  <1>13. CASE PoolDone
    BY <1>0, <1>13 DEF Reported, Empty, PoolDone
  <1>14. CASE Flushed
    <2>1. started \notin reports
      BY <1>0, <1>14 DEF Reported, Flushed
    <2> QED BY <1>0, <1>14, <2>1 DEF Reported, Empty, Flushed
  <1>15. CASE Over
    <2>1. cycle' = "idle" /\ started' = started
      BY <1>15 DEF Over, EndCycle
    <2>2. CASE UNCHANGED reports
      <3>1. CASE UNCHANGED buffer
        BY <1>0, <2>1, <2>2, <3>1 DEF Reported
      <3>2. CASE buffer' = PerPath(<<>>)
        BY <1>0, <2>1, <2>2, <3>2 DEF Reported, PerPath
      <3> QED BY <1>15, <3>1, <3>2 DEF Over
    <2>3. CASE cycle = "reporting" /\ reports' = reports \cup {started}
      <3>1. \A p \in App \X Topic : buffer[p] = <<>>
        <4>1. \A a \in App, t \in Topic : buffer[<<a, t>>] = <<>>
          BY <1>0, <2>3 DEF Reported, Empty
        <4>2. ASSUME NEW p \in App \X Topic PROVE buffer[p] = <<>>
          <5>1. p[1] \in App /\ p[2] \in Topic /\ p = <<p[1], p[2]>>
            BY Pairs
          <5> QED BY <4>1, <5>1
        <4> QED BY <4>2
      <3>2. \A p \in App \X Topic : buffer'[p] = <<>>
        BY <1>15, <3>1 DEF Over, PerPath
      <3>3. started \in Nat
        BY <1>0 DEF Shape
      <3> QED BY <1>0, <2>1, <2>3, <3>2, <3>3 DEF Reported
    <2> QED BY <1>15, <2>2, <2>3 DEF Over
  <1>16. CASE CloseProducer
    <2>1. buffer' = PerPath(<<>>) /\ UNCHANGED <<cycle, started, reports>>
      BY <1>16 DEF CloseProducer
    <2>2. \A p \in App \X Topic : buffer'[p] = <<>>
      BY <2>1 DEF PerPath
    <2>3. Empty'
      BY <2>2, Pairs DEF Empty
    <2> QED BY <1>0, <2>1, <2>2, <2>3 DEF Reported
  <1>17. CASE Rest
    BY <1>0, <1>17 DEF Reported, Empty, Rest
  <1> QED BY <1>1, <1>2, <1>3, <1>4, <1>5, <1>6, <1>7, <1>8, <1>9, <1>10, <1>11, <1>12,
            <1>13, <1>14, <1>15, <1>16, <1>17, StepIs

-----------------------------------------------------------------------------
LEMMA StepKeepsIInv == IInv /\ [Next]_vars => IInv'
  <1> SUFFICES ASSUME IInv, [Next]_vars PROVE IInv'
    OBVIOUS
  <1> QED BY ShapeStep, PhaseStep, WorkStep, EvidenceStep, NotOkStep, ReasonStep, ReportedStep
          DEF IInv

(* The inductive invariant: what each worker has wanted, confirmed and     *)
(* still has to do, what has landed, and what the buffers hold, across     *)
(* retries, signals, kills and new processes.                              *)
THEOREM Invariance == Spec => []IInv
  <1> QED BY InitIInv, StepKeepsIInv, PTL DEF Spec

(* The limits the code and the bounds set: tries and pages are within      *)
(* theirs, and what speaks of a cycle speaks of one that was started.      *)
Bounds ==
  /\ started \in 0..MaxCycles
  /\ cycle # "idle" => started >= 1
  /\ \A a \in App : tries[a] <= MaxRetries /\ got[a] <= ReviewCount
  /\ \A p \in App \X Topic : \A k \in 1..Len(buffer[p]) :
       buffer[p][k].try <= MaxRetries /\ buffer[p][k].cycle \in Cycle
  /\ producer \in {"open", "closing", "closed"}
  /\ landed \subseteq App \X Topic \X Item
  /\ reports \subseteq Cycle
  /\ hopeless \subseteq App \X Topic
  /\ faults \in 0..MaxFaults

\* Faults are counted up to their bound.
LEMMA FaultsBounded ==
  ASSUME faults \in 0..MaxFaults, [Next]_vars
  PROVE  faults' \in 0..MaxFaults
  <1>1. Fault => faults' \in 0..MaxFaults
    BY DEF Fault
  <1>2. UNCHANGED faults => faults' \in 0..MaxFaults
    OBVIOUS
  <1>3. ASSUME NEW a \in App, NEW refused, Enqueue(a, refused) PROVE UNCHANGED faults \/ Fault
    BY <1>3 DEF Enqueue, NoFault
  <1>4. ASSUME NEW a \in App, Work(a) PROVE UNCHANGED faults \/ Fault
    BY <1>3, <1>4 DEF Work, TakeApp, FetchDetails, FetchPage, FetchExhausted, SendOnClosed,
                      Confirmed, NotConfirmed, AttemptOver, NoFault
  <1>5. UNCHANGED faults \/ Fault
    BY <1>3, <1>4 DEF Next, FinishCycle, StartCycle, ListingFails, FetchRetried, FetchRefused,
           Deliver, Expire, PoolDone, Flushed, WriteReport, FlushTimesOut, ReportNotWritten,
           Terminate, CloseProducer, Kill, StartAgain, NoFault
  <1> QED BY <1>1, <1>2, <1>5

\* A signal and a new process: the producer is open, being closed, or closed.
LEMMA ProducerTyped ==
  ASSUME producer \in {"open", "closing", "closed"}, [Next]_vars
  PROVE  producer' \in {"open", "closing", "closed"}
  <1>1. UNCHANGED producer \/ producer' \in {"open", "closing", "closed"}
    BY DEF Next, Work, FinishCycle, StartCycle, ListingFails, TakeApp, FetchDetails, FetchPage,
           FetchExhausted, FetchRetried, FetchRefused, Enqueue, SendOnClosed, Confirmed,
           NotConfirmed, AttemptOver, Deliver, Expire, PoolDone, Flushed, WriteReport,
           FlushTimesOut, ReportNotWritten, Terminate, CloseProducer, Kill, StartAgain,
           NewProcess
  <1> QED BY <1>1

\* The history of paths that no retry could help speaks of paths.
LEMMA HopelessTyped ==
  ASSUME hopeless \subseteq App \X Topic, IInv, [Next]_vars
  PROVE  hopeless' \subseteq App \X Topic
  <1>1. \/ UNCHANGED hopeless \/ EndCycle
        \/ \E a \in App : Hopeless(a)
    <2> SUFFICES ASSUME ~UNCHANGED hopeless, ~EndCycle PROVE \E a \in App : Hopeless(a)
      OBVIOUS
    <2>1. \E a \in App : Work(a) \/ FetchRefused(a)
      BY DEF Next, FinishCycle, StartCycle, ListingFails, FetchRetried, Enqueue, Deliver, Expire,
             PoolDone, Flushed, WriteReport, FlushTimesOut, ReportNotWritten, Terminate,
             CloseProducer, Kill, StartAgain, NewProcess
    <2>2. PICK a \in App : Work(a) \/ FetchRefused(a)
      BY <2>1
    <2>3. SendOnClosed(a) \/ FetchRefused(a)
      BY <2>2 DEF Work, TakeApp, FetchDetails, FetchPage, FetchExhausted, Enqueue, Confirmed,
                  NotConfirmed, AttemptOver
    <2> QED BY <2>3 DEF SendOnClosed, FetchRefused
  <1>2. \A a \in App : path[a] \in Topic
    BY DEF IInv, Shape
  <1> QED BY <1>1, <1>2 DEF Hopeless, EndCycle, NoCycle

\* The steps that change what Bounds says of a cycle, its tries and its records.
LEMMA CountsBounded ==
  ASSUME IInv, Bounds, [Next]_vars
  PROVE  /\ started' \in 0..MaxCycles /\ (cycle' # "idle" => started' >= 1)
         /\ reports' \subseteq Cycle
         /\ \A a \in App : tries'[a] <= MaxRetries /\ got'[a] <= ReviewCount
         /\ landed' \subseteq App \X Topic \X Item
         /\ \A p \in App \X Topic : \A k \in 1..Len(buffer'[p]) :
              buffer'[p][k].try <= MaxRetries /\ buffer'[p][k].cycle \in Cycle
  <1> DEFINE Goal ==
         /\ started' \in 0..MaxCycles /\ (cycle' # "idle" => started' >= 1)
         /\ reports' \subseteq Cycle
         /\ \A a \in App : tries'[a] <= MaxRetries /\ got'[a] <= ReviewCount
         /\ landed' \subseteq App \X Topic \X Item
         /\ \A p \in App \X Topic : \A k \in 1..Len(buffer'[p]) :
              buffer'[p][k].try <= MaxRetries /\ buffer'[p][k].cycle \in Cycle
  <1> USE DEF Bounds
  <1>0. /\ tries \in [App -> Nat] /\ got \in [App -> Nat] /\ path \in [App -> Topic]
        /\ started \in Nat /\ buffer \in [App \X Topic -> Seq(Entry)]
    BY DEF IInv, Shape
  <1>1. CASE UNCHANGED vars
    BY <1>1
  <1>2. ASSUME NEW apps \in SUBSET App, StartCycle(apps) PROVE Goal
    BY <1>2 DEF StartCycle
  <1>3. CASE ListingFails
    BY <1>3 DEF ListingFails
  <1>4. ASSUME NEW a \in App,
               TakeApp(a) \/ (\E i \in Item : Confirmed(a, i) \/ NotConfirmed(a, i))
        PROVE  Goal
    BY <1>4 DEF TakeApp, Confirmed, NotConfirmed
  <1>5. ASSUME NEW a \in App, EndPath(a),
               UNCHANGED <<cycle, started, landed, reports, buffer>>
        PROVE  Goal
    BY <1>0, <1>5 DEF EndPath
  <1>6. ASSUME NEW a \in App, NEW items, Fetched(a, items),
               UNCHANGED <<cycle, started, landed, reports, buffer>>
        PROVE  Goal
    <2>1. CASE items = {}
      BY <1>5, <1>6, <2>1 DEF Fetched, PathOk
    <2>2. CASE items # {}
      <3>1. tries' = [tries EXCEPT ![a] = 0] /\ got' = [got EXCEPT ![a] = 0]
        BY <1>6, <2>2 DEF Fetched
      <3>2. \A c \in App : tries'[c] <= MaxRetries /\ got'[c] <= ReviewCount
        BY <1>0, <3>1
      <3> QED BY <1>6, <3>2
    <2> QED BY <2>1, <2>2
  <1>7. ASSUME NEW a \in App, FetchDetails(a) PROVE Goal
    BY <1>6, <1>7 DEF FetchDetails
  <1>8. ASSUME NEW a \in App, FetchPage(a) PROVE Goal
    <2>1. UNCHANGED <<cycle, started, landed, reports, buffer>>
      BY <1>8 DEF FetchPage
    <2>2. PICK n \in 0..PageSize, more \in BOOLEAN :
            LET total == got[a] + n
            IN /\ total <= ReviewCount
               /\ IF more /\ total < ReviewCount
                  THEN /\ got' = [got EXCEPT ![a] = total]
                       /\ UNCHANGED <<stage, path, tries, pending, awaiting, failed, answer,
                                      result, want>>
                  ELSE Fetched(a, 1..total)
      BY <1>8 DEF FetchPage
    <2>3. CASE more /\ got[a] + n < ReviewCount
      BY <1>0, <2>1, <2>2, <2>3
    <2>4. CASE ~(more /\ got[a] + n < ReviewCount)
      BY <1>6, <2>1, <2>2, <2>4
    <2> QED BY <2>3, <2>4
  <1>9. ASSUME NEW a \in App, FetchRetried(a) PROVE Goal
    BY <1>0, <1>9 DEF FetchRetried
  <1>10. ASSUME NEW a \in App, FetchExhausted(a) \/ FetchRefused(a) \/ SendOnClosed(a)
         PROVE  Goal
    BY <1>5, <1>10 DEF FetchExhausted, FetchRefused, SendOnClosed, PathFails
  <1>11. ASSUME NEW a \in App, AttemptOver(a) PROVE Goal
    <2>1. CASE PathOk(a) \/ PathFails(a)
      BY <1>5, <1>11, <2>1 DEF AttemptOver, PathOk, PathFails
    <2>2. CASE ~(PathOk(a) \/ PathFails(a))
      BY <1>0, <1>11, <2>2 DEF AttemptOver
    <2> QED BY <2>1, <2>2
  <1>12. ASSUME NEW a \in App, NEW refused \in SUBSET pending[a], Enqueue(a, refused)
         PROVE  Goal
    <2>1. UNCHANGED <<cycle, started, tries, got, landed, reports>>
      BY <1>12 DEF Enqueue
    <2> DEFINE p == <<a, path[a]>>
               e == Entries(a, pending[a] \ refused)
    <2>2. p \in App \X Topic /\ buffer' = [buffer EXCEPT ![p] = @ \o e]
      BY <1>0, <1>12 DEF Enqueue
    <2>3. started \in Cycle /\ tries[a] <= MaxRetries
      <3>1. stage[a] = "send" /\ cycle = "crawling"
        BY <1>12 DEF Enqueue, IInv, Phase
      <3> QED BY <1>0, <3>1 DEF Cycle
    <2>4. /\ e \in Seq(Entry)
          /\ \A k \in 1..Len(e) : e[k].cycle = started /\ e[k].try = tries[a]
      <3>1. pending[a] \ refused \in SUBSET Item /\ Shape
        BY DEF IInv, Shape
      <3> QED BY <3>1, EntriesAre
    <2> HIDE DEF p, e
    <2>5. \A k \in 1..Len(buffer'[p]) :
            buffer'[p][k].try <= MaxRetries /\ buffer'[p][k].cycle \in Cycle
      <3>1. buffer[p] \in Seq(Entry) /\ buffer'[p] = buffer[p] \o e
        BY <1>0, <2>2
      <3> DEFINE b == buffer[p]
      <3>2. /\ Len(b) \in Nat /\ Len(e) \in Nat /\ Len(b \o e) = Len(b) + Len(e)
            /\ \A k \in 1..(Len(b) + Len(e)) :
                 (b \o e)[k] = IF k <= Len(b) THEN b[k] ELSE e[k - Len(b)]
        BY <2>4, <3>1, ConcatProperties, LenProperties
      <3>3. \A k \in 1..Len(b) : b[k].try <= MaxRetries /\ b[k].cycle \in Cycle
        BY <2>2
      <3> HIDE DEF b
      <3>4. ASSUME NEW k \in 1..(Len(b) + Len(e))
            PROVE  (b \o e)[k].try <= MaxRetries /\ (b \o e)[k].cycle \in Cycle
        <4>1. CASE k <= Len(b)
          BY <3>2, <3>3, <4>1
        <4>2. CASE k > Len(b)
          <5>1. k - Len(b) \in 1..Len(e) /\ (b \o e)[k] = e[k - Len(b)]
            BY <3>2, <4>2
          <5> QED BY <2>3, <2>4, <5>1
        <4> QED BY <3>2, <4>1, <4>2
      <3> QED BY <3>1, <3>2, <3>4 DEF b
    <2>6. \A q \in App \X Topic : q # p => buffer'[q] = buffer[q]
      BY <1>0, <2>2
    <2> QED BY <1>0, <2>1, <2>5, <2>6
  <1>13. ASSUME NEW a \in App, NEW t \in Topic, Deliver(a, t) \/ Expire(a, t) PROVE Goal
    <2> DEFINE p == <<a, t>>
               b == buffer[p]
    <2>1. /\ UNCHANGED <<cycle, started, tries, got, reports>> /\ b # <<>>
          /\ buffer' = [buffer EXCEPT ![p] = Tail(@)] /\ (Landed(a, t) \/ UNCHANGED landed)
      BY <1>13 DEF Deliver, Expire
    <2>2. p \in App \X Topic /\ b \in Seq(Entry)
      BY <1>0
    <2>3. b[1] \in Entry /\ Head(b) = b[1]
      BY <2>1, <2>2
    <2>4. landed' \subseteq App \X Topic \X Item
      <3>1. Head(b).item \in Item
        BY <2>3 DEF Entry
      <3>2. landed' = landed \/ landed' = landed \cup {<<a, t, Head(b).item>>}
        BY <2>1 DEF Landed
      <3> HIDE DEF b
      <3> QED BY <3>1, <3>2
    <2>5. /\ Len(Tail(b)) = Len(b) - 1 /\ Len(b) \in Nat
          /\ \A k \in 1..(Len(b) - 1) : Tail(b)[k] = b[k + 1] /\ k + 1 \in 1..Len(b)
      <3> HIDE DEF b
      <3>1. Len(b) \in Nat /\ Len(b) # 0 /\ Len(Tail(b)) = Len(b) - 1
        BY <2>1, <2>2, EmptySeq, HeadTailProperties
      <3>2. \A k \in 1..Len(Tail(b)) : Tail(b)[k] = b[k + 1]
        BY <2>1, <2>2, HeadTailProperties
      <3> QED BY <3>1, <3>2
    <2>6. buffer'[p] = Tail(b) /\ \A q \in App \X Topic : q # p => buffer'[q] = buffer[q]
      BY <1>0, <2>1, <2>2
    <2>7. \A k \in 1..Len(b) : b[k].try <= MaxRetries /\ b[k].cycle \in Cycle
      BY <2>2
    <2> HIDE DEF p, b
    <2>8. \A k \in 1..Len(buffer'[p]) :
            buffer'[p][k].try <= MaxRetries /\ buffer'[p][k].cycle \in Cycle
      BY <2>5, <2>6, <2>7
    <2> QED BY <2>1, <2>4, <2>6, <2>8
  <1>14. CASE PoolDone \/ Flushed \/ Terminate
    BY <1>14 DEF PoolDone, Flushed, Terminate
  <1>15. ASSUME EndCycle, UNCHANGED started,
                UNCHANGED reports \/ (cycle = "reporting" /\ reports' = reports \cup {started}),
                UNCHANGED buffer \/ buffer' = PerPath(<<>>)
         PROVE  Goal
    <2>1. reports' \subseteq Cycle
      <3>1. cycle = "reporting" => started \in Cycle
        BY <1>0 DEF Cycle
      <3> QED BY <1>15, <3>1
    <2>2. cycle' = "idle" /\ tries' = [a \in App |-> 0] /\ got' = [a \in App |-> 0] /\ landed' = {}
      BY <1>15 DEF EndCycle, NoCycle
    <2>3. buffer' = PerPath(<<>>) => \A p \in App \X Topic : Len(buffer'[p]) = 0
      BY DEF PerPath
    <2> QED BY <1>15, <2>1, <2>2, <2>3
  <1>16. CASE FlushTimesOut \/ WriteReport \/ ReportNotWritten \/ Kill \/ StartAgain
    BY <1>15, <1>16 DEF FlushTimesOut, WriteReport, ReportNotWritten, Kill, StartAgain, NewProcess
  <1>17. CASE CloseProducer
    BY <1>17 DEF CloseProducer, PerPath
  <1> HIDE DEF Goal
  <1>18. ASSUME NEW a \in App, Work(a) PROVE Goal
    <2>1. Enqueue(a, {}) => Goal
      BY <1>12
    <2> QED BY <1>4, <1>7, <1>8, <1>10, <1>11, <1>18, <2>1 DEF Work
  <1>19. Goal
    <2>1. (\E a \in App : Work(a) \/ FetchRetried(a) \/ FetchRefused(a)) => Goal
      BY <1>9, <1>10, <1>18
    <2>2. (\E a \in App : \E refused \in SUBSET pending[a] :
             refused # {} /\ Enqueue(a, refused)) => Goal
      BY <1>12
    <2>3. (\E a \in App, t \in Topic : Deliver(a, t) \/ Expire(a, t)) => Goal
      BY <1>13
    <2>4. (\E apps \in SUBSET App : StartCycle(apps)) => Goal
      BY <1>2
    <2>5. \/ UNCHANGED vars \/ ListingFails
          \/ \E apps \in SUBSET App : StartCycle(apps)
          \/ \E a \in App : Work(a) \/ FetchRetried(a) \/ FetchRefused(a)
          \/ \E a \in App : \E refused \in SUBSET pending[a] :
               refused # {} /\ Enqueue(a, refused)
          \/ \E a \in App, t \in Topic : Deliver(a, t) \/ Expire(a, t)
          \/ PoolDone \/ Flushed \/ WriteReport \/ FlushTimesOut \/ ReportNotWritten
          \/ Terminate \/ CloseProducer \/ Kill \/ StartAgain
      BY DEF Next, FinishCycle
    <2> QED BY <1>1, <1>3, <1>14, <1>16, <1>17, <2>1, <2>2, <2>3, <2>4, <2>5 DEF Goal
  <1> QED BY <1>19 DEF Goal

\* Every variable of the crawler keeps its type and its limit: tries, pages and
\* cycles are counted within theirs, and what the producer holds are messages of
\* the attempts made (run_cycle, run_residual_retry).
THEOREM CrawlTypeCorrect == Spec => []TypeOK
  <1>1. Init => Bounds
    BY DEF Init, Bounds, PerPath, Cycle
  <1>2. IInv /\ Bounds /\ [Next]_vars => Bounds'
    BY CountsBounded, FaultsBounded, ProducerTyped, HopelessTyped DEF Bounds
  <1>3. IInv /\ Bounds => TypeOK
    <2> SUFFICES ASSUME IInv, Bounds PROVE TypeOK
      OBVIOUS
    <2>1. Shape /\ NotOkPaths /\ Evidence
      BY DEF IInv
    <2>2. tries \in [App -> 0..MaxRetries] /\ got \in [App -> 0..ReviewCount]
      BY <2>1 DEF Shape, Bounds
    <2>3. buffer \in [App \X Topic -> Seq([item : Item, try : 0..MaxRetries, cycle : Cycle])]
      <3>1. buffer \in [App \X Topic -> Seq(Entry)]
        BY <2>1 DEF Shape
      <3>2. ASSUME NEW p \in App \X Topic
            PROVE  buffer[p] \in Seq([item : Item, try : 0..MaxRetries, cycle : Cycle])
        <4> DEFINE b == buffer[p]
                   R == [item : Item, try : 0..MaxRetries, cycle : Cycle]
        <4>1. b \in Seq(Entry)
          BY <3>1
        <4>2. \A k \in 1..Len(b) : b[k].try <= MaxRetries /\ b[k].cycle \in Cycle
          BY DEF Bounds
        <4> HIDE DEF b
        <4>3. ASSUME NEW k \in 1..Len(b) PROVE b[k] \in R
          <5>1. b[k] \in Entry
            BY <4>1
          <5>2. b[k].try \in 0..MaxRetries /\ b[k].cycle \in Cycle
            BY <4>2, <5>1 DEF Entry
          <5> QED BY <5>1, <5>2 DEF Entry
        <4> HIDE DEF R
        <4>4. b \in Seq(R)
          BY <4>1, <4>3
        <4> QED BY <4>4 DEF b, R
      <3> QED BY <3>1, <3>2
    <2> QED BY <2>1, <2>2, <2>3 DEF Shape, NotOkPaths, Evidence, Bounds, TypeOK
  <1> QED BY <1>1, <1>2, <1>3, InitIInv, StepKeepsIInv, PTL DEF Spec

(* What the report counts as a success is in the topic, message by         *)
(* message, whatever was lost, retried or closed in between                *)
(* (run_residual_retry, publish_reviews).                                  *)
THEOREM SuccessHasLanded == Spec => []OkMeansLanded
  <1>1. IInv => OkMeansLanded
    <2> SUFFICES ASSUME IInv, NEW p \in ok, NEW i \in want[p]
                 PROVE  <<p[1], p[2], i>> \in landed
      BY DEF OkMeansLanded
    <2>1. p \in App \X Topic /\ i \in confirmed[p]
      BY DEF IInv, Evidence
    <2> QED BY <2>1 DEF IInv, Evidence
  <1> QED BY <1>1, Invariance, PTL

(* Only what failed is sent again, in any attempt of any path              *)
(* (run_residual_retry).                                                   *)
THEOREM ResidualOnly == Spec => []ConfirmedNotResent
  <1>1. IInv => ConfirmedNotResent
    <2> SUFFICES ASSUME IInv, NEW a \in App, stage[a] = "send"
                 PROVE  pending[a] \cap confirmed[<<a, path[a]>>] = {}
      BY DEF ConfirmedNotResent
    <2> QED BY DEF IInv, Progress
  <1> QED BY <1>1, Invariance, PTL

(* A path fails only for a failure no retry helps, or for one more than it *)
(* has retries: no path costs another its tries (with_retry).              *)
THEOREM OwnReason == Spec => []FailedForItsOwnReason
  <1>1. IInv => FailedForItsOwnReason
    BY DEF IInv
  <1> QED BY <1>1, Invariance, PTL

(* When the report of a cycle exists, the producer holds no record of it   *)
(* any more (run_cycle flushes before it writes the report).               *)
THEOREM NothingAfterReport == Spec => []ReportAfterLastRecord
  <1>1. IInv => ReportAfterLastRecord
    <2> SUFFICES ASSUME IInv, NEW a \in App, NEW t \in Topic,
                        NEW k \in DOMAIN buffer[<<a, t>>]
                 PROVE  buffer[<<a, t>>][k].cycle \notin reports
      BY DEF ReportAfterLastRecord
    <2>1. buffer[<<a, t>>] \in Seq(Entry)
      BY DEF IInv, Shape
    <2>2. k \in 1..Len(buffer[<<a, t>>])
      BY <2>1
    <2> QED BY <2>2, Pairs DEF IInv, Reported
  <1> QED BY <1>1, Invariance, PTL
=============================================================================
