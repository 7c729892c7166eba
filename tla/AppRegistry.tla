---------------------------- MODULE AppRegistry ----------------------------
(***************************************************************************)
(* The application registry (app_api/apps_registry) and the cache through  *)
(* which the storage consumer looks applications up                        *)
(* (storage_consumer/persistence/application_resolver.py).                 *)
(*                                                                         *)
(* Requests run in threads, without a transaction around them: one reads,  *)
(* and writes later.  save() writes every column of the copy it has, and   *)
(* inserts it when no row has its id any more.  The admin site deletes and *)
(* renames applications.  The resolver's clock is kept relative.           *)
(***************************************************************************)
EXTENDS Integers, FiniteSets

CONSTANTS
  Request,         \* threads that serve requests
  Package,
  NoRow,           \* of an id without a row
  Ttl,             \* ticks a cached id is used for
  LastId,          \* bound: ids the sequence gives
  MaxRequests,     \* bound: requests served
  MaxAdmin         \* bound: deletes and renames on the admin site

ASSUME RegistryAssumption ==
  Ttl \in Nat \ {0} /\ LastId \in Nat /\ MaxRequests \in Nat /\ MaxAdmin \in Nat

Id == 1..LastId
Field == {"display_name", "is_active"}    \* two of those that can be updated
Update == UNION {[S -> BOOLEAN] : S \in SUBSET Field}
Row == [package : Package, field : [Field -> BOOLEAN]]
NoId == 0
Never == Ttl + 1

ASSUME RowAssumption == NoRow \notin Row

VARIABLES
  row,             \* the table, by id
  nextId,          \* the sequence; a failed insert uses a value up as well
  step,            \* of each thread: "idle", "create" or "save"
  copy,            \* what it will write: [id, row]
  data,            \* history: the fields its request gives
  cache,           \* resolver: of each name, [id, left] with the ticks left to it
  batch,           \* names of the batch the consumer has; {} when it polls
  ids,             \* ids resolved for it; NoId for a name without a row
  held,            \* consumer: "polling", "resolving" or "writing"
  touched,         \* history: threads whose row another wrote since they read it
  since,           \* history: ticks since an id was that of a name, up to Never
  renamed,         \* history: ids the admin has renamed
  wins,            \* history: of each name, creates answered 201
  losses,          \* history: of each name, rows deleted or renamed away
  served, admin

table == <<row, nextId>>
api == <<step, copy, data, served>>
resolver == <<cache, batch, ids, held>>
history == <<touched, renamed, wins, losses>>
vars == <<table, api, resolver, history, since, admin>>

Present == {i \in Id : row[i] # NoRow}
Named(p) == {i \in Present : row[i].package = p}
NoCopy == [id |-> NoId, row |-> NoRow]
NoEntry == [id |-> NoId, left |-> 0]

Init ==
  /\ row = [i \in Id |-> NoRow]
  /\ nextId = 1
  /\ step = [r \in Request |-> "idle"]
  /\ copy = [r \in Request |-> NoCopy]
  /\ data = [r \in Request |-> <<>>]
  /\ cache = [p \in Package |-> NoEntry]
  /\ batch = {} /\ ids = [p \in Package |-> NoId] /\ held = "polling"
  /\ touched = {} /\ renamed = {}
  /\ since = [i \in Id |-> [p \in Package |-> Never]]
  /\ wins = [p \in Package |-> 0] /\ losses = [p \in Package |-> 0]
  /\ served = 0 /\ admin = 0

(* The table becomes `new'; an id is its name's from then on.              *)
SetTable(new) ==
  /\ row' = new
  /\ since' = [i \in Id |-> [p \in Package |->
                 IF new[i] # NoRow /\ new[i].package = p THEN 0 ELSE since[i][p]]]

(* Copies of id i are out of date, but for the writers'.                   *)
Outdate(i, writers) ==
  touched' = (touched \cup {s \in Request : step[s] = "save" /\ copy[s].id = i}) \ writers

-----------------------------------------------------------------------------
(* The API.  A request that is refused at once (404, 400, or 409 for a     *)
(* name that is there) reads and changes nothing, and is no step.          *)

Serve == served < MaxRequests /\ served' = served + 1

(* create_application: the check before the insert.                        *)
CheckName(r, p) ==
  /\ step[r] = "idle" /\ Serve
  /\ Named(p) = {}
  /\ step' = [step EXCEPT ![r] = "create"]
  /\ copy' = [copy EXCEPT ![r] =
       [id |-> NoId, row |-> [package |-> p, field |-> [f \in Field |-> TRUE]]]]
  /\ UNCHANGED <<table, data, resolver, history, since, admin>>

Return(r) ==
  /\ step' = [step EXCEPT ![r] = "idle"]
  /\ copy' = [copy EXCEPT ![r] = NoCopy]
  /\ data' = [data EXCEPT ![r] = <<>>]
  /\ UNCHANGED served

(* A mutant: no unique index.                                              *)
FreeAlways(p, i) == TRUE

(* unique=True of package_name: rows other than i.                         *)
Free(p, i) == Named(p) \subseteq {i}

(* A mutant: ids of deleted rows are given again.                          *)
InsertReusing(r) ==
  /\ step[r] = "create"
  /\ nextId <= LastId
  /\ nextId' = nextId + 1
  /\ LET p == copy[r].row.package
         i == CHOOSE x \in Id \ Present : \A y \in Id \ Present : x <= y
     IN /\ Free(p, NoId)
        /\ SetTable([row EXCEPT ![i] = copy[r].row])
        /\ wins' = [wins EXCEPT ![p] = @ + 1]
  /\ Return(r)
  /\ UNCHANGED <<resolver, touched, renamed, losses, admin>>

Insert(r) ==
  /\ step[r] = "create"
  /\ nextId <= LastId
  /\ nextId' = nextId + 1
  /\ LET p == copy[r].row.package
     IN /\ Free(p, NoId)
        /\ SetTable([row EXCEPT ![nextId] = copy[r].row])
        /\ wins' = [wins EXCEPT ![p] = @ + 1]
  /\ Return(r)
  /\ UNCHANGED <<resolver, touched, renamed, losses, admin>>

(* Another create came in between: an IntegrityError, answered 400.        *)
InsertRefused(r) ==
  /\ step[r] = "create"
  /\ nextId <= LastId
  /\ nextId' = nextId + 1
  /\ ~Free(copy[r].row.package, NoId)
  /\ Return(r)
  /\ UNCHANGED <<row, resolver, history, since, admin>>

(* A mutant: a field that is not given gets its default.                   *)
ReadForReplace(r, i, given) ==
  /\ step[r] = "idle" /\ Serve
  /\ i \in Present
  /\ step' = [step EXCEPT ![r] = "save"]
  /\ copy' = [copy EXCEPT ![r] = [id |-> i, row |-> [row[i] EXCEPT !.field =
       [f \in Field |-> IF f \in DOMAIN given THEN given[f] ELSE TRUE]]]]
  /\ data' = [data EXCEPT ![r] = given]
  /\ touched' = touched \ {r}
  /\ UNCHANGED <<table, resolver, renamed, wins, losses, since, admin>>

(* update_application, deactivate_application, reactivate_application: get *)
(* the row, set the given fields of the copy.                              *)
ReadForUpdate(r, i, given) ==
  /\ step[r] = "idle" /\ Serve
  /\ i \in Present
  /\ step' = [step EXCEPT ![r] = "save"]
  /\ copy' = [copy EXCEPT ![r] = [id |-> i, row |-> [row[i] EXCEPT !.field =
       [f \in Field |-> IF f \in DOMAIN given THEN given[f] ELSE row[i].field[f]]]]]
  /\ data' = [data EXCEPT ![r] = given]
  /\ touched' = touched \ {r}
  /\ UNCHANGED <<table, resolver, renamed, wins, losses, since, admin>>

UpdateApplication(r, i) == \E given \in Update : ReadForUpdate(r, i, given)
Deactivate(r, i) == ReadForUpdate(r, i, [f \in {"is_active"} |-> FALSE])
Reactivate(r, i) == ReadForUpdate(r, i, [f \in {"is_active"} |-> TRUE])

(* save(): UPDATE of every column, or an INSERT when no row has the id.    *)
Save(r) ==
  /\ step[r] = "save"
  /\ Free(copy[r].row.package, copy[r].id)
  /\ SetTable([row EXCEPT ![copy[r].id] = copy[r].row])
  /\ Outdate(copy[r].id, {r})
  /\ Return(r)
  /\ UNCHANGED <<nextId, resolver, renamed, wins, losses, admin>>

(* The name of the copy is another row's by now: answered 400.             *)
SaveRefused(r) ==
  /\ step[r] = "save"
  /\ ~Free(copy[r].row.package, copy[r].id)
  /\ Return(r)
  /\ UNCHANGED <<table, resolver, history, since, admin>>

-----------------------------------------------------------------------------
(* The admin site *)

Lose(i) == losses' = [losses EXCEPT ![row[i].package] = @ + 1]

AdminDelete(i) ==
  /\ i \in Present
  /\ admin < MaxAdmin /\ admin' = admin + 1
  /\ SetTable([row EXCEPT ![i] = NoRow])
  /\ Outdate(i, {})
  /\ Lose(i)
  /\ UNCHANGED <<nextId, api, resolver, renamed, wins>>

(* package_name is a field of the admin's form.                            *)
AdminRename(i, p) ==
  /\ i \in Present /\ Named(p) = {}
  /\ admin < MaxAdmin /\ admin' = admin + 1
  /\ SetTable([row EXCEPT ![i].package = p])
  /\ Outdate(i, {})
  /\ Lose(i)
  /\ renamed' = renamed \cup {i}
  /\ UNCHANGED <<nextId, api, resolver, wins>>

-----------------------------------------------------------------------------
(* The storage consumer's resolver *)

Tick ==
  /\ cache' = [p \in Package |->
       IF cache[p].left > 1 THEN [cache[p] EXCEPT !.left = @ - 1] ELSE NoEntry]
  /\ since' = [i \in Id |-> [p \in Package |->
       IF i \in Named(p) \/ since[i][p] = Never THEN since[i][p] ELSE since[i][p] + 1]]
  /\ UNCHANGED <<table, api, batch, ids, held, history, admin>>

PollBatch(names) ==
  /\ held = "polling" /\ names # {}
  /\ batch' = names
  /\ held' = "resolving"
  /\ UNCHANGED <<table, api, cache, ids, history, since, admin>>

(* The one row a name has, if any, whether it is active or not.            *)
Query(p) == IF Named(p) = {} THEN NoId ELSE CHOOSE i \in Named(p) : TRUE

(* What is kept of an answer: a miss is not.                               *)
Remember(p, id) == IF id = NoId THEN cache[p] ELSE [id |-> id, left |-> Ttl]

(* A mutant: a hit starts the time to live again.                          *)
ResolveRefreshing ==
  /\ held = "resolving"
  /\ LET missing == {p \in batch : cache[p].left = 0}
     IN /\ ids' = [p \in Package |-> IF p \notin batch THEN NoId
                     ELSE IF p \in missing THEN Query(p) ELSE cache[p].id]
        /\ cache' = [p \in Package |-> IF p \notin batch THEN cache[p]
                       ELSE Remember(p, IF p \in missing THEN Query(p) ELSE cache[p].id)]
  /\ held' = "writing"
  /\ UNCHANGED <<table, api, batch, history, since, admin>>

Resolve ==
  /\ held = "resolving"
  /\ LET missing == {p \in batch : cache[p].left = 0}
     IN /\ ids' = [p \in Package |-> IF p \notin batch THEN NoId
                     ELSE IF p \in missing THEN Query(p) ELSE cache[p].id]
        /\ cache' = [p \in Package |-> IF p \in missing THEN Remember(p, Query(p)) ELSE cache[p]]
  /\ held' = "writing"
  /\ UNCHANGED <<table, api, batch, history, since, admin>>

Resolved == {p \in batch : ids[p] # NoId}

(* A mutant: a batch with an unknown name waits until it is registered.    *)
WriteBatchKnown ==
  /\ held = "writing"
  /\ \A p \in batch : ids[p] \in Present
  /\ held' = "polling" /\ batch' = {} /\ ids' = [p \in Package |-> NoId]
  /\ UNCHANGED <<table, api, cache, history, since, admin>>

(* The rows reference applications that exist, and names without an id are *)
(* dead-lettered, in one transaction.                                      *)
WriteBatch ==
  /\ held = "writing"
  /\ \A p \in Resolved : ids[p] \in Present
  /\ held' = "polling" /\ batch' = {} /\ ids' = [p \in Package |-> NoId]
  /\ UNCHANGED <<table, api, cache, history, since, admin>>

(* A cached id without a row violates the foreign key.  That is no         *)
(* transient fault: the process ends, and its successor meets the batch    *)
(* with an empty cache.                                                    *)
WriteViolates ==
  /\ held = "writing"
  /\ \E p \in Resolved : ids[p] \notin Present
  /\ held' = "resolving" /\ ids' = [p \in Package |-> NoId]
  /\ cache' = [p \in Package |-> NoEntry]
  /\ UNCHANGED <<table, api, batch, history, since, admin>>

-----------------------------------------------------------------------------
ServeStep(r) == Insert(r) \/ InsertRefused(r) \/ Save(r) \/ SaveRefused(r)
ConsumerStep == Resolve \/ WriteBatch \/ WriteViolates

Next ==
  \/ \E r \in Request : (\E p \in Package : CheckName(r, p)) \/ ServeStep(r)
  \/ \E r \in Request, i \in Id :
       UpdateApplication(r, i) \/ Deactivate(r, i) \/ Reactivate(r, i)
  \/ \E i \in Id : AdminDelete(i) \/ \E p \in Package : AdminRename(i, p)
  \/ Tick
  \/ \E names \in SUBSET Package : PollBatch(names)
  \/ ConsumerStep

Spec == Init /\ [][Next]_vars

(* The consumer goes on with a batch it has, and the clock goes on.        *)
FairSpec == Spec /\ WF_vars(ConsumerStep) /\ WF_vars(Tick)

-----------------------------------------------------------------------------
(* Properties *)

TypeOK ==
  /\ row \in [Id -> Row \cup {NoRow}]
  /\ nextId \in 1..(LastId + 1)
  /\ step \in [Request -> {"idle", "create", "save"}]
  /\ copy \in [Request -> [id : Id \cup {NoId}, row : Row \cup {NoRow}]]
  /\ cache \in [Package -> [id : Id \cup {NoId}, left : 0..Ttl]]
  /\ batch \subseteq Package
  /\ ids \in [Package -> Id \cup {NoId}]
  /\ held \in {"polling", "resolving", "writing"}
  /\ since \in [Id -> [Package -> 0..Never]]

(* Of creates that race for one name at most one is answered 201, unless   *)
(* the name was given up in between, and none that wins is undone.         *)
OneCreateWins == \A p \in Package : wins[p] <= 1 + losses[p]

(* A request that no other write overlapped changes no column it was not   *)
(* given.  (One that was overlapped writes back what it read: an update of *)
(* another field, a deactivation, or a delete is lost.)                    *)
UndisturbedSaveKeepsRest ==
  [][\A r \in Request \ touched : Save(r) =>
       \A i \in Id : row[i] # row'[i] =>
         /\ row[i] # NoRow /\ row'[i].package = row[i].package
         /\ \A f \in Field \ DOMAIN data[r] : row'[i].field[f] = row[i].field[f]]_vars

(* The consumer never works with an id that was not its name's for longer  *)
(* than the time to live, whatever was deleted, renamed or created.        *)
IdNotOlderThanTtl ==
  [][Resolve => \A p \in batch : ids'[p] # NoId => since[ids'[p]][p] < Ttl]_vars

(* A name that is registered when its batch is resolved is never taken for *)
(* unknown: that nobody knew it a moment ago is not remembered.            *)
RegisteredIsResolved ==
  [][Resolve => \A p \in batch : ids'[p] = NoId => Named(p) = {}]_vars

(* Data of a name is never stored under an application of another name,    *)
(* however stale the id, as ids are not given twice: only a rename on the  *)
(* admin site makes it possible.                                           *)
NeverMisfiled ==
  [][WriteBatch => \A p \in Resolved : ids[p] \in renamed \/ row[ids[p]].package = p]_vars

(* A stale id never blocks a batch for good.                               *)
BatchSettled == held # "polling" ~> held = "polling"
=============================================================================
