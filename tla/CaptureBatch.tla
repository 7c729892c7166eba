--------------------------- MODULE CaptureBatch ---------------------------
(***************************************************************************)
(* Batches of captures: scripts/network/analyze_pcaps.sh over the files of *)
(* an inbox, the analyzer process it starts for each                       *)
(* (network_analyzer/main.py, runtime/analyzer_service.py), the registry   *)
(* it asks and the topic it publishes to.                                  *)
(*                                                                         *)
(* Several runs of the script may be at work at once, on the host and in   *)
(* the container.  A run lists the inbox once and then works on the list.  *)
(* `topic' is the set of metrics published: a second copy of one is        *)
(* dropped downstream, where analysis_id is the key.                       *)
(***************************************************************************)
EXTENDS Integers, FiniteSets

CONSTANTS
  Runs,           \* invocations of the script, each at most once
  Captures,
  BadName,        \* captures whose name does not follow the convention
  Unreadable,     \* captures that are not captures
  MaxRetries,     \* of with_retry, for the registry and for the broker
  Options,        \* options of all runs: each gives dry, keep and skip of a run
  Volatile,       \* captures whose application may change in the registry
  NoCapture       \* between two captures

ASSUME BatchAssumption ==
  /\ BadName \subseteq Captures /\ Unreadable \subseteq Captures
  /\ NoCapture \notin Captures
  /\ MaxRetries \in Nat
  /\ Volatile \subseteq Captures
  /\ Options \subseteq [Runs -> [dry : BOOLEAN, keep : BOOLEAN, skip : BOOLEAN]]

\* Exit codes of main.py that the script tells apart.
OK == 0
ERROR == 1
INPUT_REJECTED == 3
CAPTURE_UNREADABLE == 4
TRANSPORT_FAILURE == 5

Stages == {"idle", "list", "check", "analyze", "publish", "close", "route", "ended"}

VARIABLES
  where,          \* directory that holds each capture
  eligible,       \* captures of applications that are registered, active, messaging
  topic,          \* published: [capture, run]
  stage,          \* of each run
  opts,           \* of each run
  todo,           \* captures listed and not yet dealt with
  current,        \* capture the analyzer works on
  attempt,        \* of the call being retried
  unresolved,     \* a send whose outcome the producer does not know yet
  status,         \* exit code of the analyzer
  allWell,        \* the run has counted neither a failure nor a retry
  listed,         \* history: what the run listed
  blamed,         \* history: captures some run had a reason of its own to reject
  disturbed       \* history: captures whose handling a fault or another run met

stores == <<where, eligible, topic>>
history == <<listed, blamed, disturbed>>
vars == <<stores, stage, opts, todo, current, attempt, unresolved, status, allWell, history>>

Init ==
  /\ where = [c \in Captures |-> "inbox"]
  /\ eligible = Captures
  /\ topic = {}
  /\ stage = [r \in Runs |-> "idle"]
  /\ opts \in Options
  /\ todo = [r \in Runs |-> {}]
  /\ current = [r \in Runs |-> NoCapture]
  /\ attempt = [r \in Runs |-> 0]
  /\ unresolved = [r \in Runs |-> FALSE]
  /\ status = [r \in Runs |-> OK]
  /\ allWell = [r \in Runs |-> TRUE]
  /\ listed = [r \in Runs |-> {}]
  /\ blamed = {}
  /\ disturbed = {}

-----------------------------------------------------------------------------
(* The script's loop *)

Inbox == {c \in Captures : where[c] = "inbox"}

\* An empty inbox ends the run at once, with success.
ListInbox(r) ==
  /\ stage[r] = "idle"
  /\ todo' = [todo EXCEPT ![r] = Inbox]
  /\ listed' = [listed EXCEPT ![r] = Inbox]
  /\ stage' = [stage EXCEPT ![r] = "list"]
  /\ UNCHANGED <<stores, opts, current, attempt, unresolved, status,
                 allWell, blamed, disturbed>>

Exit(r, code) ==
  /\ status' = [status EXCEPT ![r] = code]
  /\ attempt' = [attempt EXCEPT ![r] = 0]
  /\ stage' = [stage EXCEPT ![r] = "close"]

\* The analyzer process is started: it reads its settings, then the name.
Launch(r, c) ==
  /\ stage[r] = "list" /\ c \in todo[r]
  /\ todo' = [todo EXCEPT ![r] = @ \ {c}]
  /\ current' = [current EXCEPT ![r] = c]
  /\ IF c \in BadName
     THEN Exit(r, INPUT_REJECTED) /\ blamed' = blamed \cup {c}
     ELSE /\ stage' = [stage EXCEPT ![r] = IF opts[r].skip THEN "analyze" ELSE "check"]
          /\ UNCHANGED <<status, attempt, blamed>>
  /\ disturbed' = IF \E q \in Runs \ {r} : c \in todo[q] \/ current[q] = c
                  THEN disturbed \cup {c} ELSE disturbed
  /\ UNCHANGED <<stores, opts, unresolved, allWell, listed>>

\* with_retry: another attempt, or the exception is raised.
TryAgain(r) ==
  IF attempt[r] < MaxRetries
  THEN attempt' = [attempt EXCEPT ![r] = @ + 1] /\ UNCHANGED <<stage, status>>
  ELSE Exit(r, TRANSPORT_FAILURE)

-----------------------------------------------------------------------------
(* The analyzer *)

RegistryAnswers(r) ==
  /\ stage[r] = "check"
  /\ IF current[r] \in eligible
     THEN /\ stage' = [stage EXCEPT ![r] = "analyze"]
          /\ attempt' = [attempt EXCEPT ![r] = 0]
          /\ UNCHANGED <<status, blamed>>
     ELSE Exit(r, INPUT_REJECTED) /\ blamed' = blamed \cup {current[r]}
  /\ UNCHANGED <<stores, opts, todo, current, unresolved, allWell, listed, disturbed>>

RegistryUnreachable(r) ==
  /\ stage[r] = "check"
  /\ TryAgain(r)
  /\ UNCHANGED <<stores, opts, todo, current, unresolved, allWell, history>>

\* The capture is read, unless another run has moved it; its analysis gets an id.
Analyze(r) ==
  LET c == current[r] IN
  /\ stage[r] = "analyze"
  /\ IF where[c] # "inbox" \/ c \in Unreadable
     THEN /\ Exit(r, CAPTURE_UNREADABLE)
          /\ blamed' = blamed \cup ({c} \cap Unreadable)
     ELSE /\ IF opts[r].dry THEN Exit(r, OK)
             ELSE stage' = [stage EXCEPT ![r] = "publish"] /\ UNCHANGED <<status, attempt>>
          /\ UNCHANGED blamed
  /\ UNCHANGED <<stores, opts, todo, current, unresolved, allWell, listed, disturbed>>

\* Each analysis has an analysis_id of its own, the same in all its sends; a run
\* analyses a capture at most once.
Message(r) == [capture |-> current[r], run |-> r]

Publish(r) ==
  /\ stage[r] = "publish"
  /\ topic' = topic \cup {Message(r)}
  /\ Exit(r, OK)
  /\ UNCHANGED <<where, eligible, opts, todo, current, unresolved, allWell, history>>

\* No acknowledgement in time: the message may be in the topic, or be on its
\* way from the producer's buffer.
PublishUnconfirmed(r) ==
  /\ stage[r] = "publish"
  /\ topic' \in {topic, topic \cup {Message(r)}}
  /\ unresolved' = [unresolved EXCEPT ![r] = TRUE]
  /\ disturbed' = disturbed \cup {current[r]}
  /\ TryAgain(r)
  /\ UNCHANGED <<where, eligible, opts, todo, current, allWell,
                 listed, blamed>>

\* Wrong settings, a request the registry refuses, an answer that is no list, an
\* interrupt: exit code 1.
Fail(r) ==
  /\ stage[r] \in {"check", "analyze", "publish"}
  /\ Exit(r, ERROR)
  /\ blamed' = blamed \cup {current[r]}
  /\ unresolved' = [unresolved EXCEPT ![r] = stage[r] = "publish"]
  /\ UNCHANGED <<stores, opts, todo, current, allWell,
                 listed, disturbed>>

\* publisher.close() in the finally block: what is buffered may still be sent,
\* and an error is logged without changing the exit code.
Close(r) ==
  /\ stage[r] = "close"
  /\ topic' \in IF unresolved[r] THEN {topic, topic \cup {Message(r)}} ELSE {topic}
  /\ unresolved' = [unresolved EXCEPT ![r] = FALSE]
  /\ stage' = [stage EXCEPT ![r] = "route"]
  /\ UNCHANGED <<where, eligible, opts, todo, current, attempt, status,
                 allWell, history>>

-----------------------------------------------------------------------------
(* Routing by exit code *)

\* A mutant: exit code 1 is filed with 0.
DestinationOffByOne(code) == IF code <= ERROR THEN "processed" ELSE "failed"

Destination(code) == IF code = OK THEN "processed" ELSE "failed"

\* A mutant: a copy.
CopyTo(r, dir) == UNCHANGED <<where, disturbed>>

\* mv, which fails if the capture is gone or the directory refuses it.
MoveTo(r, dir) ==
  LET c == current[r] IN
  \/ where[c] = "inbox" /\ where' = [where EXCEPT ![c] = dir] /\ UNCHANGED disturbed
  \/ UNCHANGED where /\ disturbed' = disturbed \cup {c}

\* A mutant: every failure is filed.
RouteEvery(r) ==
  /\ stage[r] = "route"
  /\ IF opts[r].keep
     THEN UNCHANGED where /\ disturbed' = disturbed \cup {current[r]}
     ELSE MoveTo(r, Destination(status[r]))
  /\ allWell' = [allWell EXCEPT ![r] = @ /\ status[r] = OK]
  /\ current' = [current EXCEPT ![r] = NoCapture]
  /\ status' = [status EXCEPT ![r] = OK]
  /\ stage' = [stage EXCEPT ![r] = "list"]
  /\ UNCHANGED <<eligible, topic, opts, todo, attempt, unresolved, listed, blamed>>

Route(r) ==
  /\ stage[r] = "route"
  /\ IF status[r] = TRANSPORT_FAILURE \/ opts[r].keep
     THEN UNCHANGED where /\ disturbed' = disturbed \cup {current[r]}
     ELSE MoveTo(r, Destination(status[r]))
  /\ allWell' = [allWell EXCEPT ![r] = @ /\ status[r] = OK]
  /\ current' = [current EXCEPT ![r] = NoCapture]
  /\ status' = [status EXCEPT ![r] = OK]
  /\ stage' = [stage EXCEPT ![r] = "list"]
  /\ UNCHANGED <<eligible, topic, opts, todo, attempt, unresolved, listed, blamed>>

Finish(r) ==
  /\ stage[r] = "list" /\ todo[r] = {}
  /\ stage' = [stage EXCEPT ![r] = "ended"]
  /\ status' = [status EXCEPT ![r] = IF allWell[r] THEN OK ELSE ERROR]
  /\ UNCHANGED <<stores, opts, todo, current, attempt, unresolved,
                 allWell, history>>

\* The script and its analyzer are killed; nothing more of the run happens.
Killed(r) ==
  /\ stage[r] \notin {"idle", "ended"}
  /\ stage' = [stage EXCEPT ![r] = "ended"]
  /\ status' = [status EXCEPT ![r] = ERROR]
  /\ allWell' = [allWell EXCEPT ![r] = FALSE]
  /\ disturbed' = disturbed \cup {current[r]}
  /\ current' = [current EXCEPT ![r] = NoCapture]
  /\ todo' = [todo EXCEPT ![r] = {}]
  /\ unresolved' = [unresolved EXCEPT ![r] = FALSE]
  /\ attempt' = [attempt EXCEPT ![r] = 0]
  /\ UNCHANGED <<stores, opts, listed, blamed>>

\* An operator of app_api registers, deactivates or reactivates.
RegistryChanges(c) ==
  /\ eligible' \in {eligible \cup {c}, eligible \ {c}}
  /\ UNCHANGED <<where, topic, stage, opts, todo, current, attempt, unresolved,
                 status, allWell, history>>

RunNext(r) ==
  \/ ListInbox(r) \/ (\E c \in Captures : Launch(r, c)) \/ Finish(r)
  \/ RegistryAnswers(r) \/ RegistryUnreachable(r) \/ Analyze(r)
  \/ Publish(r) \/ PublishUnconfirmed(r) \/ Fail(r) \/ Close(r) \/ Route(r)

Next ==
  \/ \E r \in Runs : RunNext(r) \/ Killed(r)
  \/ \E c \in Volatile : RegistryChanges(c)

Spec == Init /\ [][Next]_vars

-----------------------------------------------------------------------------
(* Properties *)

TypeOK ==
  /\ where \in [Captures -> {"inbox", "processed", "failed"}]
  /\ eligible \subseteq Captures
  /\ topic \subseteq [capture : Captures, run : Runs]
  /\ stage \in [Runs -> Stages]
  /\ opts \in Options
  /\ todo \in [Runs -> SUBSET Captures] /\ listed \in [Runs -> SUBSET Captures]
  /\ current \in [Runs -> Captures \cup {NoCapture}]
  /\ attempt \in [Runs -> 0..MaxRetries]
  /\ unresolved \in [Runs -> BOOLEAN] /\ allWell \in [Runs -> BOOLEAN]
  /\ status \in [Runs -> {OK, ERROR, INPUT_REJECTED, CAPTURE_UNREADABLE, TRANSPORT_FAILURE}]
  /\ blamed \subseteq Captures /\ disturbed \subseteq Captures \cup {NoCapture}

Published(c) == \E m \in topic : m.capture = c
DryRuns == {r \in Runs : opts[r].dry}

\* A capture in processed/ has been published, or a dry run filed it there: no
\* failure is filed as a success (analyze_pcaps.sh:286, network_analyzer/README:304).
ProcessedIsPublished ==
  \A c \in Captures :
    where[c] = "processed" => Published(c) \/ \E r \in DryRuns : c \in listed[r]

\* "An unreachable broker must not quarantine a perfectly good capture": what is
\* in failed/ was rejected for a reason of its own, however often the broker or
\* the registry could not be reached and whatever other runs did to the file.
GoodNotQuarantined == \A c \in Captures : where[c] = "failed" => c \in blamed

\* A run that ends with exit code 0 has left a published metric for each capture
\* it listed, unless it was dry.
CleanExit ==
  \A r \in Runs :
    stage[r] = "ended" /\ status[r] = OK /\ ~opts[r].dry
      => \A c \in listed[r] : Published(c)

\* "Reruns are therefore idempotent: a successful capture has already left the inbox"
\* (network_analyzer/README.md:327-328).  It does not hold (CaptureRerunClaim.cfg): a
\* capture that could not be moved counts as analyzed, and the run ends with 0
\* (analyze_pcaps.sh:310-314).
SuccessLeavesInbox ==
  \A r \in Runs :
    stage[r] = "ended" /\ status[r] = OK /\ ~opts[r].keep
      => \A c \in listed[r] : where[c] # "inbox"

\* Rerunning is idempotent as long as nothing disturbs a capture: two analyses of
\* it are published only after a send without an answer, a capture that could
\* not be moved, an exit code that says retry, --keep, or a second run at work.
AnalyzedOnceIfUndisturbed ==
  \A c \in Captures \ disturbed : Cardinality({m \in topic : m.capture = c}) <= 1
=============================================================================
