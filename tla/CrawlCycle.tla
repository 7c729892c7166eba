----------------------------- MODULE CrawlCycle -----------------------------
(***************************************************************************)
(* A crawl cycle: the scheduler lists the active applications, a pool of   *)
(* workers fetches and publishes statistics and reviews of each, the       *)
(* producer is flushed, and the report of the cycle is written (crawler/). *)
(*                                                                         *)
(* A worker waits for a confirmation for a shorter time than the producer  *)
(* keeps a record (request_timeout_ms < delivery_timeout_ms), so a record  *)
(* that was given up and sent again may still land.  The producer sends    *)
(* the records of one key in order.  A signal closes the producer under    *)
(* the workers; a kill loses what it holds.                                *)
(*                                                                         *)
(* Waiting for a token of the shared rate limiter is part of a fetch; the  *)
(* limiter itself is RateLimiter.                                          *)
(***************************************************************************)
EXTENDS Integers, Sequences, FiniteSets, SortedSets

CONSTANTS
  App,
  MaxWorkers,
  ReviewCount,     \* reviews_fetch_count
  PageSize,        \* reviews of one Play Store page
  MaxRetries,      \* of fetches and of sends: both default to 3
  MaxCycles,       \* bound: cycles started
  MaxFaults        \* bound: failures of the Play Store, of Kafka and of the process

ASSUME CrawlAssumption ==
  /\ MaxWorkers \in Nat \ {0} /\ PageSize \in Nat \ {0}
  /\ ReviewCount \in Nat /\ MaxRetries \in Nat
  /\ MaxCycles \in Nat /\ MaxFaults \in Nat

Topic == {"app-stats", "reviews"}
Item == 0..ReviewCount       \* 0 is the statistics message, 1.. the reviews
Cycle == 1..MaxCycles

VARIABLES
  cycle,           \* "idle", "crawling", "flushing", "reporting"
  started,         \* cycles started so far; the current one
  listed,          \* applications of this cycle
  stage,           \* of each: queued, fetch, send, await, finished
  path,            \* the topic its worker is at
  tries,           \* failed attempts of the call it is in
  got,             \* reviews collected in this attempt
  pending,         \* items the send still has to confirm
  awaiting,        \* items of the attempt whose future is not classified
  failed,          \* items of the attempt that failed
  answer,          \* of each item of the attempt: "none", "acked", "error"
  ok, notOk,       \* <<application, topic>> that succeeded, that failed
  buffer,          \* producer: per application and topic, [item, try, cycle]
  producer,        \* "open", "closing" or "closed"
  landed,          \* broker: <<application, topic, item>> of the current cycle
  reports,         \* cycles whose report was written
  want,            \* history: items of each path of this cycle
  confirmed,       \* history: items each path has confirmed
  mishaps,         \* history: faults each path of this cycle has met
  hopeless,        \* history: paths a retry could not help
  faults

worker == <<stage, path, tries, got, pending, awaiting, failed, answer>>
result == <<ok, notOk>>
history == <<want, confirmed, mishaps, hopeless>>
kafka == <<buffer, producer, landed>>
vars == <<cycle, started, listed, worker, result, kafka, reports, history, faults>>

PerPath(v) == [p \in App \X Topic |-> v]

(* What a cycle holds, when there is none.                                 *)
NoCycle ==
  /\ listed' = {}
  /\ stage' = [a \in App |-> "none"]
  /\ path' = [a \in App |-> "app-stats"]
  /\ tries' = [a \in App |-> 0]
  /\ got' = [a \in App |-> 0]
  /\ pending' = [a \in App |-> {}]
  /\ awaiting' = [a \in App |-> {}]
  /\ failed' = [a \in App |-> {}]
  /\ answer' = [a \in App |-> [i \in Item |-> "none"]]
  /\ ok' = {} /\ notOk' = {}
  /\ landed' = {}
  /\ want' = PerPath({}) /\ confirmed' = PerPath({}) /\ mishaps' = PerPath(0)
  /\ hopeless' = {}

Init ==
  /\ cycle = "idle" /\ started = 0 /\ listed = {}
  /\ stage = [a \in App |-> "none"]
  /\ path = [a \in App |-> "app-stats"]
  /\ tries = [a \in App |-> 0]
  /\ got = [a \in App |-> 0]
  /\ pending = [a \in App |-> {}]
  /\ awaiting = [a \in App |-> {}]
  /\ failed = [a \in App |-> {}]
  /\ answer = [a \in App |-> [i \in Item |-> "none"]]
  /\ ok = {} /\ notOk = {}
  /\ buffer = PerPath(<<>>)
  /\ producer = "open"
  /\ landed = {}
  /\ reports = {}
  /\ want = PerPath({}) /\ confirmed = PerPath({}) /\ mishaps = PerPath(0)
  /\ hopeless = {}
  /\ faults = 0

Fault == faults < MaxFaults /\ faults' = faults + 1
NoFault == UNCHANGED faults

-----------------------------------------------------------------------------
(* The cycle *)

(* get_active_applications answers a list; an empty one skips the cycle    *)
(* and is left out.                                                        *)
StartCycle(apps) ==
  /\ cycle = "idle" /\ producer = "open"
  /\ started < MaxCycles
  /\ apps # {}
  /\ started' = started + 1
  /\ listed' = apps
  /\ cycle' = "crawling"
  /\ stage' = [a \in App |-> IF a \in apps THEN "queued" ELSE "none"]
  /\ UNCHANGED <<path, tries, got, pending, awaiting, failed, answer, result, kafka, reports,
                 history, faults>>

(* The registry fails after its retries: the cycle is skipped, it is not   *)
(* taken for a cycle without applications.                                 *)
ListingFails ==
  /\ cycle = "idle" /\ producer = "open"
  /\ started < MaxCycles
  /\ Fault
  /\ started' = started + 1
  /\ UNCHANGED <<cycle, listed, worker, result, kafka, reports, history>>

Busy == {a \in App : stage[a] \in {"fetch", "send", "await"}}

(* The pool takes the next application.                                    *)
TakeApp(a) ==
  /\ stage[a] = "queued"
  /\ Cardinality(Busy) < MaxWorkers
  /\ stage' = [stage EXCEPT ![a] = "fetch"]
  /\ UNCHANGED <<cycle, started, listed, path, tries, got, pending, awaiting, failed,
                 answer, result, kafka, reports, history, faults>>

(* A mutant: the reviews go on with the statistics' count of retries.      *)
EndPathKeepsTries(a) ==
  /\ stage' = [stage EXCEPT ![a] = IF path[a] = "app-stats" THEN "fetch" ELSE "finished"]
  /\ path' = [path EXCEPT ![a] = "reviews"]
  /\ got' = [got EXCEPT ![a] = 0]
  /\ pending' = [pending EXCEPT ![a] = {}]
  /\ awaiting' = [awaiting EXCEPT ![a] = {}]
  /\ failed' = [failed EXCEPT ![a] = {}]
  /\ answer' = [answer EXCEPT ![a] = [i \in Item |-> "none"]]
  /\ UNCHANGED tries

(* The path of a's worker ends; the reviews are tried whatever became of   *)
(* the statistics.                                                         *)
EndPath(a) ==
  /\ stage' = [stage EXCEPT ![a] = IF path[a] = "app-stats" THEN "fetch" ELSE "finished"]
  /\ path' = [path EXCEPT ![a] = "reviews"]
  /\ tries' = [tries EXCEPT ![a] = 0]
  /\ got' = [got EXCEPT ![a] = 0]
  /\ pending' = [pending EXCEPT ![a] = {}]
  /\ awaiting' = [awaiting EXCEPT ![a] = {}]
  /\ failed' = [failed EXCEPT ![a] = {}]
  /\ answer' = [answer EXCEPT ![a] = [i \in Item |-> "none"]]

PathOk(a) ==
  /\ ok' = ok \cup {<<a, path[a]>>}
  /\ UNCHANGED notOk
  /\ EndPath(a)

PathFails(a) ==
  /\ notOk' = notOk \cup {<<a, path[a]>>}
  /\ UNCHANGED ok
  /\ EndPath(a)

Mishap(a) == mishaps' = [mishaps EXCEPT ![<<a, path[a]>>] = @ + 1]
Hopeless(a) == hopeless' = hopeless \cup {<<a, path[a]>>}

-----------------------------------------------------------------------------
(* Fetching from the Play Store *)

(* What was fetched is handed to the producer; an empty list of reviews    *)
(* has nothing to retry and is a success.                                  *)
Fetched(a, items) ==
  /\ want' = [want EXCEPT ![<<a, path[a]>>] = items]
  /\ IF items = {}
     THEN PathOk(a)
     ELSE /\ stage' = [stage EXCEPT ![a] = "send"]
          /\ pending' = [pending EXCEPT ![a] = items]
          /\ tries' = [tries EXCEPT ![a] = 0]
          /\ got' = [got EXCEPT ![a] = 0]
          /\ UNCHANGED <<path, awaiting, failed, answer, result>>

FetchDetails(a) ==
  /\ stage[a] = "fetch" /\ path[a] = "app-stats"
  /\ Fetched(a, {0})
  /\ UNCHANGED <<cycle, started, listed, kafka, reports, confirmed, mishaps, hopeless,
                 faults>>

(* One page of reviews.  All pages of a call go under one token of the     *)
(* limiter.  A page that says more follow is not empty: the loop has no    *)
(* other end when the store answers empty pages with a token.              *)
FetchPage(a) ==
  /\ stage[a] = "fetch" /\ path[a] = "reviews"
  /\ \E n \in 0..PageSize, more \in BOOLEAN :
       LET total == got[a] + n
       IN /\ total <= ReviewCount
          /\ more => n > 0
          /\ IF more /\ total < ReviewCount
             THEN /\ got' = [got EXCEPT ![a] = total]
                  /\ UNCHANGED <<stage, path, tries, pending, awaiting, failed, answer,
                                 result, want>>
             ELSE Fetched(a, 1..total)
  /\ UNCHANGED <<cycle, started, listed, kafka, reports, confirmed, mishaps, hopeless,
                 faults>>

(* A transient failure: the call starts again, without the pages it had.   *)
FetchRetried(a) ==
  /\ stage[a] = "fetch"
  /\ Fault /\ Mishap(a)
  /\ tries[a] < MaxRetries
  /\ tries' = [tries EXCEPT ![a] = @ + 1]
  /\ got' = [got EXCEPT ![a] = 0]
  /\ UNCHANGED <<cycle, started, listed, stage, path, pending, awaiting, failed, answer,
                 result, kafka, reports, want, confirmed, hopeless>>

FetchExhausted(a) ==
  /\ stage[a] = "fetch"
  /\ Fault /\ Mishap(a)
  /\ tries[a] >= MaxRetries
  /\ PathFails(a)
  /\ UNCHANGED <<cycle, started, listed, kafka, reports, want, confirmed, hopeless>>

(* 404, another status that is not retried, or a payload map_* refuses.    *)
FetchRefused(a) ==
  /\ stage[a] = "fetch"
  /\ Fault /\ Mishap(a) /\ Hopeless(a)
  /\ PathFails(a)
  /\ UNCHANGED <<cycle, started, listed, kafka, reports, want, confirmed>>

-----------------------------------------------------------------------------
(* Publishing: one attempt of run_residual_retry.  with_retry, which sends *)
(* the statistics, is the case of one item.                                *)

Entries(a, items) ==
  [k \in 1..Cardinality(items) |->
     [item |-> Ascending(items)[k], try |-> tries[a], cycle |-> started]]

(* Phase 1: every pending item is handed over; send may refuse some.       *)
Enqueue(a, refused) ==
  /\ stage[a] = "send"
  /\ producer # "closed"
  /\ refused \subseteq pending[a]
  /\ IF refused = {} THEN NoFault /\ UNCHANGED mishaps ELSE Fault /\ Mishap(a)
  /\ buffer' = [buffer EXCEPT ![<<a, path[a]>>] = @ \o Entries(a, pending[a] \ refused)]
  /\ awaiting' = [awaiting EXCEPT ![a] = pending[a] \ refused]
  /\ failed' = [failed EXCEPT ![a] = refused]
  /\ answer' = [answer EXCEPT ![a] = [i \in Item |-> "none"]]
  /\ stage' = [stage EXCEPT ![a] = "await"]
  /\ UNCHANGED <<cycle, started, listed, path, tries, got, pending, result, producer,
                 landed, reports, want, confirmed, hopeless>>

(* A mutant: the send is tried again without counting.                     *)
SendOnClosedAgain(a) == stage[a] = "send" /\ producer = "closed" /\ UNCHANGED vars

(* A closed producer takes nothing, in this attempt or a later one.        *)
SendOnClosed(a) ==
  /\ stage[a] = "send"
  /\ producer = "closed"
  /\ Hopeless(a)
  /\ PathFails(a)
  /\ UNCHANGED <<cycle, started, listed, kafka, reports, want, confirmed, mishaps, faults>>

(* Phase 2: each future is classified in order, also when one has failed.  *)
NextFuture(a, i) == i \in awaiting[a] /\ \A j \in awaiting[a] : i <= j

Confirmed(a, i) ==
  /\ stage[a] = "await" /\ NextFuture(a, i)
  /\ answer[a][i] = "acked"
  /\ awaiting' = [awaiting EXCEPT ![a] = @ \ {i}]
  /\ confirmed' = [confirmed EXCEPT ![<<a, path[a]>>] = @ \cup {i}]
  /\ UNCHANGED <<cycle, started, listed, stage, path, tries, got, pending, failed, answer,
                 result, kafka, reports, want, mishaps, hopeless, faults>>

(* A mutant: a get that times out is taken for a delivery.                 *)
NotConfirmedForgiven(a, i) ==
  /\ stage[a] = "await" /\ NextFuture(a, i)
  /\ \/ answer[a][i] = "error" /\ NoFault /\ failed' = [failed EXCEPT ![a] = @ \cup {i}]
     \/ answer[a][i] = "none" /\ Fault /\ UNCHANGED failed
  /\ Mishap(a)
  /\ awaiting' = [awaiting EXCEPT ![a] = @ \ {i}]
  /\ UNCHANGED <<cycle, started, listed, stage, path, tries, got, pending, answer, result,
                 kafka, reports, want, confirmed, hopeless>>

(* Its future failed, or get gave it up while the producer still has it.   *)
NotConfirmed(a, i) ==
  /\ stage[a] = "await" /\ NextFuture(a, i)
  /\ \/ answer[a][i] = "error" /\ NoFault
     \/ answer[a][i] = "none" /\ Fault
  /\ Mishap(a)
  /\ awaiting' = [awaiting EXCEPT ![a] = @ \ {i}]
  /\ failed' = [failed EXCEPT ![a] = @ \cup {i}]
  /\ UNCHANGED <<cycle, started, listed, stage, path, tries, got, pending, answer, result,
                 kafka, reports, want, confirmed, hopeless>>

(* A mutant: everything again.                                             *)
ResidualAll(a) == IF failed[a] = {} THEN {} ELSE pending[a]

(* What an attempt hands to the next one.                                  *)
Residual(a) == failed[a]

(* All futures are classified: done, again with what failed, or given up.  *)
AttemptOver(a) ==
  /\ stage[a] = "await" /\ awaiting[a] = {}
  /\ \/ Residual(a) = {} /\ PathOk(a)
     \/ Residual(a) # {} /\ tries[a] >= MaxRetries /\ PathFails(a)
     \/ /\ Residual(a) # {} /\ tries[a] < MaxRetries
        /\ stage' = [stage EXCEPT ![a] = "send"]
        /\ pending' = [pending EXCEPT ![a] = Residual(a)]
        /\ tries' = [tries EXCEPT ![a] = @ + 1]
        /\ failed' = [failed EXCEPT ![a] = {}]
        /\ UNCHANGED <<path, got, awaiting, answer, result>>
  /\ UNCHANGED <<cycle, started, listed, kafka, reports, history, faults>>

-----------------------------------------------------------------------------
(* The producer's sender thread and the broker *)

(* The future of the head of a buffer is set, unless its attempt is over.  *)
Answer(a, t, value) ==
  LET e == Head(buffer[a, t])
  IN answer' = IF /\ stage[a] = "await" /\ path[a] = t
                  /\ e.try = tries[a] /\ e.cycle = started
               THEN [answer EXCEPT ![a][e.item] = value]
               ELSE answer

Landed(a, t) ==
  landed' = IF cycle # "idle" /\ Head(buffer[a, t]).cycle = started
            THEN landed \cup {<<a, t, Head(buffer[a, t]).item>>} ELSE landed

Deliver(a, t) ==
  /\ buffer[a, t] # <<>>
  /\ Landed(a, t)
  /\ Answer(a, t, "acked")
  /\ buffer' = [buffer EXCEPT ![<<a, t>>] = Tail(@)]
  /\ UNCHANGED <<cycle, started, listed, stage, path, tries, got, pending, awaiting, failed,
                 result, producer, reports, history, faults>>

(* delivery_timeout_ms: the record is dropped, or landed and only its      *)
(* acknowledgement was lost.                                               *)
Expire(a, t) ==
  /\ buffer[a, t] # <<>>
  /\ Fault
  /\ Landed(a, t) \/ UNCHANGED landed
  /\ Answer(a, t, "error")
  /\ buffer' = [buffer EXCEPT ![<<a, t>>] = Tail(@)]
  /\ UNCHANGED <<cycle, started, listed, stage, path, tries, got, pending, awaiting, failed,
                 result, producer, reports, history>>

-----------------------------------------------------------------------------
(* The end of the cycle *)

PoolDone ==
  /\ cycle = "crawling"
  /\ \A a \in listed : stage[a] = "finished"
  /\ cycle' = "flushing"
  /\ UNCHANGED <<started, listed, worker, result, kafka, reports, history, faults>>

EndCycle == cycle' = "idle" /\ NoCycle

Empty == \A a \in App, t \in Topic : buffer[a, t] = <<>>

(* A mutant: the report does not wait for the buffer.                      *)
FlushedAtOnce ==
  /\ cycle = "flushing"
  /\ cycle' = "reporting"
  /\ UNCHANGED <<started, listed, worker, result, kafka, reports, history, faults>>

Flushed ==
  /\ cycle = "flushing"
  /\ Empty
  /\ cycle' = "reporting"
  /\ UNCHANGED <<started, listed, worker, result, kafka, reports, history, faults>>

(* flush raises: the cycle ends there and has no report.                   *)
FlushTimesOut ==
  /\ cycle = "flushing"
  /\ Fault
  /\ EndCycle
  /\ UNCHANGED <<started, buffer, producer, reports>>

WriteReport ==
  /\ cycle = "reporting"
  /\ reports' = reports \cup {started}
  /\ EndCycle
  /\ UNCHANGED <<started, buffer, producer, faults>>

(* The directory cannot be written: logged, and there is no report.        *)
ReportNotWritten ==
  /\ cycle = "reporting"
  /\ Fault
  /\ EndCycle
  /\ UNCHANGED <<started, buffer, producer, reports>>

-----------------------------------------------------------------------------
(* The process *)

(* SIGTERM: the handler closes the producer; a running cycle goes on.      *)
Terminate ==
  /\ producer = "open"
  /\ Fault
  /\ producer' = "closing"
  /\ UNCHANGED <<cycle, started, listed, worker, result, buffer, landed, reports, history>>

(* close flushes, for a bounded time, and drops what is left; the futures  *)
(* of what it drops fail.                                                  *)
CloseProducer ==
  /\ producer = "closing"
  /\ producer' = "closed"
  /\ answer' = [a \in App |-> [i \in Item |->
                  IF i \in awaiting[a] /\ answer[a][i] = "none" THEN "error" ELSE answer[a][i]]]
  /\ buffer' = PerPath(<<>>)
  /\ UNCHANGED <<cycle, started, listed, stage, path, tries, got, pending, awaiting, failed,
                 result, landed, reports, history, faults>>

(* A new process, with a new producer; its first cycle starts at once.     *)
NewProcess ==
  /\ EndCycle
  /\ buffer' = PerPath(<<>>)
  /\ producer' = "open"
  /\ UNCHANGED <<started, reports>>

Kill == Fault /\ NewProcess

StartAgain ==
  /\ producer = "closed" /\ cycle = "idle"
  /\ started < MaxCycles
  /\ NewProcess
  /\ NoFault

-----------------------------------------------------------------------------
Work(a) ==
  \/ TakeApp(a)
  \/ FetchDetails(a) \/ FetchPage(a) \/ FetchExhausted(a)
  \/ Enqueue(a, {}) \/ SendOnClosed(a)
  \/ \E i \in Item : Confirmed(a, i) \/ NotConfirmed(a, i)
  \/ AttemptOver(a)

FinishCycle == PoolDone \/ Flushed \/ WriteReport

Next ==
  \/ \E apps \in SUBSET App : StartCycle(apps)
  \/ ListingFails
  \/ \E a \in App : Work(a) \/ FetchRetried(a) \/ FetchRefused(a)
  \/ \E a \in App : \E refused \in SUBSET pending[a] : refused # {} /\ Enqueue(a, refused)
  \/ \E a \in App, t \in Topic : Deliver(a, t) \/ Expire(a, t)
  \/ FinishCycle \/ FlushTimesOut \/ ReportNotWritten
  \/ Terminate \/ CloseProducer \/ Kill \/ StartAgain

Spec == Init /\ [][Next]_vars

(* Workers, the main thread and the sender thread go on by themselves.  A  *)
(* signal handler that started to close the producer ends.                 *)
FairSpec ==
  /\ Spec
  /\ \A a \in App : WF_vars(Work(a))
  /\ \A a \in App, t \in Topic : WF_vars(Deliver(a, t))
  /\ WF_vars(FinishCycle)
  /\ WF_vars(CloseProducer)

-----------------------------------------------------------------------------
(* Properties *)

TypeOK ==
  /\ cycle \in {"idle", "crawling", "flushing", "reporting"}
  /\ started \in 0..MaxCycles
  /\ listed \subseteq App
  /\ stage \in [App -> {"none", "queued", "fetch", "send", "await", "finished"}]
  /\ path \in [App -> Topic]
  /\ tries \in [App -> 0..MaxRetries]
  /\ got \in [App -> 0..ReviewCount]
  /\ pending \in [App -> SUBSET Item]
  /\ awaiting \in [App -> SUBSET Item]
  /\ failed \in [App -> SUBSET Item]
  /\ answer \in [App -> [Item -> {"none", "acked", "error"}]]
  /\ ok \subseteq App \X Topic /\ notOk \subseteq App \X Topic
  /\ buffer \in [App \X Topic -> Seq([item : Item, try : 0..MaxRetries, cycle : Cycle])]
  /\ producer \in {"open", "closing", "closed"}
  /\ landed \subseteq App \X Topic \X Item
  /\ reports \subseteq Cycle
  /\ want \in [App \X Topic -> SUBSET Item]
  /\ confirmed \in [App \X Topic -> SUBSET Item]
  /\ mishaps \in [App \X Topic -> Nat]
  /\ hopeless \subseteq App \X Topic
  /\ faults \in 0..MaxFaults

(* An application that the report counts as successful for a topic has     *)
(* every message of it in the topic, though attempts succeeded in part,    *)
(* acknowledgements were lost, or the producer was closed meanwhile.       *)
OkMeansLanded ==
  \A p \in ok : \A i \in want[p] : <<p[1], p[2], i>> \in landed

(* Only what failed is sent again: an item that a path has confirmed is    *)
(* never pending in a later attempt of it.                                 *)
ConfirmedNotResent ==
  \A a \in App : stage[a] = "send" => pending[a] \cap confirmed[a, path[a]] = {}

(* A path is given up only for a reason of its own: a failure that no      *)
(* retry helps, or one failure more than it has retries.  The other path   *)
(* of the application, or another application, never costs it.             *)
FailedForItsOwnReason ==
  \A p \in notOk : p \in hopeless \/ mishaps[p] > MaxRetries

(* When the report of a cycle exists, none of its records is still on its  *)
(* way, also none that a worker gave up: what the finalizer counts after   *)
(* the report is complete.                                                 *)
ReportAfterLastRecord ==
  \A a \in App, t \in Topic : \A k \in DOMAIN buffer[a, t] :
    buffer[a, t][k].cycle \notin reports

(* A cycle always ends, also when the producer is closed under it: the     *)
(* scheduler's only slot is never held for ever.                           *)
CycleEnds == cycle # "idle" ~> cycle = "idle"
=============================================================================
