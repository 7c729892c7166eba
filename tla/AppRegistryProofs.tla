------------------------- MODULE AppRegistryProofs -------------------------
(***************************************************************************)
(* Theorems about AppRegistry, for any number of threads, names, ids and   *)
(* requests, and any time to live.                                         *)
(***************************************************************************)
EXTENDS AppRegistry, TLAPS

USE RegistryAssumption, RowAssumption
    DEF vars, table, api, resolver, history, Id, NoId, Never

(* What a thread holds.                                                    *)
Holding ==
  /\ data = [r \in Request |-> data[r]]
  /\ wins \in [Package -> Nat] /\ losses \in [Package -> Nat]
  /\ \A r \in Request :
       /\ step[r] # "idle" => copy[r].row \in Row
       /\ step[r] = "save" => copy[r].id \in Id

(* A copy that no other write has outdated is the row, but for the fields  *)
(* the request gives.                                                      *)
CopyInv ==
  \A r \in Request : step[r] = "save" /\ r \notin touched =>
    /\ row[copy[r].id] # NoRow
    /\ copy[r].row.package = row[copy[r].id].package
    /\ \A f \in Field \ DOMAIN data[r] :
         copy[r].row.field[f] = row[copy[r].id].field[f]

(* A cached id has been its name's within the part of its time to live     *)
(* that is over.                                                           *)
AgeInv ==
  /\ \A p \in Package : \A i \in Named(p) : since[i][p] = 0
  /\ \A p \in Package : cache[p].left > 0 =>
       cache[p].id \in Id /\ since[cache[p].id][p] + cache[p].left <= Ttl

(* Where an id is used for a name: the row, a copy of it, the cache, the   *)
(* batch.                                                                  *)
Mentions(i, p) ==
  \/ row[i] # NoRow /\ row[i].package = p
  \/ \E r \in Request : step[r] = "save" /\ copy[r].id = i /\ copy[r].row.package = p
  \/ cache[p].id = i
  \/ ids[p] = i

(* Ids the sequence has not given are not in use, and a given one that the *)
(* admin has not renamed is used for one name.                             *)
MentionInv ==
  \A i \in Id :
    /\ i >= nextId => i \notin renamed /\ \A p \in Package : ~Mentions(i, p)
    /\ i \notin renamed => \A p, q \in Package : Mentions(i, p) /\ Mentions(i, q) => p = q

(* A create that was answered 201 has its row still, or it was given up.   *)
WinsInv ==
  \A p \in Package :
    \/ wins[p] <= losses[p]
    \/ wins[p] <= losses[p] + 1 /\ \E i \in Named(p) : i \notin renamed

IInv == TypeOK /\ Holding /\ CopyInv /\ AgeInv /\ MentionInv /\ WinsInv

-----------------------------------------------------------------------------
LEMMA InitIInv == Init => IInv
  <1> SUFFICES ASSUME Init PROVE IInv
    OBVIOUS
  <1> USE DEF Init
  <1>1. TypeOK
    BY DEF TypeOK, NoCopy, NoEntry
  <1>2. Holding /\ CopyInv /\ WinsInv
    BY DEF Holding, CopyInv, WinsInv
  <1>3. AgeInv /\ MentionInv
    BY DEF AgeInv, Named, Present, NoEntry, MentionInv, Mentions
  <1> QED BY <1>1, <1>2, <1>3 DEF IInv

\* What an update gives is Boolean.
LEMMA GivenFields ==
  ASSUME NEW given \in Update, NEW fields \in [Field -> BOOLEAN]
  PROVE  [f \in Field |-> IF f \in DOMAIN given THEN given[f] ELSE fields[f]] \in [Field -> BOOLEAN]
  <1>1. \A f \in DOMAIN given : given[f] \in BOOLEAN
    BY DEF Update
  <1> QED BY <1>1

LEMMA TogglesAreUpdates ==
  ASSUME NEW b \in BOOLEAN
  PROVE  [f \in {"is_active"} |-> b] \in Update
  <1>1. {"is_active"} \in SUBSET Field
    BY DEF Field
  <1>2. [{"is_active"} -> BOOLEAN] \in {[S -> BOOLEAN] : S \in SUBSET Field}
    BY <1>1
  <1>3. [f \in {"is_active"} |-> b] \in [{"is_active"} -> BOOLEAN]
    OBVIOUS
  <1> QED BY <1>2, <1>3 DEF Update

\* A request that reads a row holds a copy of it with the given fields.
LEMMA ReadIs ==
  ASSUME IInv, NEW r \in Request, NEW i \in Id, NEW given \in Update,
         ReadForUpdate(r, i, given)
  PROVE  /\ row[i] \in Row
         /\ step' = [step EXCEPT ![r] = "save"]
         /\ copy' \in [Request -> [id : Id \cup {NoId}, row : Row \cup {NoRow}]]
         /\ copy'[r].id = i /\ copy'[r].row \in Row
         /\ copy'[r].row.package = row[i].package
         /\ \A f \in Field \ DOMAIN given : copy'[r].row.field[f] = row[i].field[f]
         /\ data' = [data EXCEPT ![r] = given] /\ touched' = touched \ {r}
         /\ \A s \in Request \ {r} : copy'[s] = copy[s]
         /\ UNCHANGED <<table, resolver, renamed, wins, losses, since>>
  <1> DEFINE mine == [row[i] EXCEPT !.field =
        [f \in Field |-> IF f \in DOMAIN given THEN given[f] ELSE row[i].field[f]]]
  <1>1. row[i] \in Row /\ TypeOK
    BY DEF ReadForUpdate, Present, IInv, TypeOK
  <1>2. row[i].field \in [Field -> BOOLEAN] /\ row[i].package \in Package
    BY <1>1 DEF Row
  <1>3. mine = [package |-> row[i].package, field |->
          [f \in Field |-> IF f \in DOMAIN given THEN given[f] ELSE row[i].field[f]]]
    BY <1>1 DEF Row
  <1>4. /\ mine \in Row /\ mine.package = row[i].package
        /\ \A f \in Field \ DOMAIN given : mine.field[f] = row[i].field[f]
    BY <1>2, <1>3, GivenFields DEF Row
  <1> HIDE DEF mine
  <1>5. copy' = [copy EXCEPT ![r] = [id |-> i, row |-> mine]]
    BY DEF ReadForUpdate, mine
  <1>6. [id |-> i, row |-> mine] \in [id : Id \cup {NoId}, row : Row \cup {NoRow}]
    BY <1>4
  <1>7. /\ copy'[r] = [id |-> i, row |-> mine] /\ \A s \in Request \ {r} : copy'[s] = copy[s]
        /\ copy' \in [Request -> [id : Id \cup {NoId}, row : Row \cup {NoRow}]]
    BY <1>1, <1>5, <1>6 DEF TypeOK
  <1>8. /\ step' = [step EXCEPT ![r] = "save"]
        /\ data' = [data EXCEPT ![r] = given] /\ touched' = touched \ {r}
        /\ UNCHANGED <<table, resolver, renamed, wins, losses, since>>
    BY DEF ReadForUpdate
  <1> QED BY <1>1, <1>4, <1>7, <1>8

\* What Return, Insert and Save do to the thread and the table.
LEMMA ReturnIs ==
  ASSUME TypeOK, Holding, NEW r \in Request, Return(r)
  PROVE  /\ step' \in [Request -> {"idle", "create", "save"}]
         /\ copy' \in [Request -> [id : Id \cup {NoId}, row : Row \cup {NoRow}]]
         /\ step'[r] = "idle" /\ data' = [q \in Request |-> data'[q]]
         /\ \A s \in Request \ {r} :
              step'[s] = step[s] /\ copy'[s] = copy[s] /\ data'[s] = data[s]
  BY DEF Return, TypeOK, Holding, NoCopy

LEMMA SetTableIs ==
  ASSUME TypeOK, NEW new \in [Id -> Row \cup {NoRow}], SetTable(new)
  PROVE  /\ row' = new /\ since' \in [Id -> [Package -> 0..Never]]
         /\ \A i \in Id, p \in Package :
              since'[i][p] = IF new[i] # NoRow /\ new[i].package = p THEN 0 ELSE since[i][p]
  BY DEF SetTable, TypeOK

-----------------------------------------------------------------------------
(* The table that a step leaves, and what a step of the API, of the admin  *)
(* site or of the resolver keeps.                                          *)

LEMMA InsertIs ==
  ASSUME IInv, NEW r \in Request, Insert(r)
  PROVE  /\ nextId \in Id /\ nextId' = nextId + 1
         /\ copy[r].row \in Row /\ copy[r].row.package \in Package /\ step[r] = "create"
         /\ Named(copy[r].row.package) = {}
         /\ [row EXCEPT ![nextId] = copy[r].row] \in [Id -> Row \cup {NoRow}]
         /\ SetTable([row EXCEPT ![nextId] = copy[r].row])
         /\ wins' = [wins EXCEPT ![copy[r].row.package] = @ + 1]
         /\ Return(r) /\ UNCHANGED <<resolver, touched, renamed, losses>>
  <1>1. TypeOK /\ Holding /\ step[r] = "create" /\ nextId <= LastId
    BY DEF IInv, Insert
  <1>2. nextId \in Id /\ copy[r].row \in Row
    BY <1>1 DEF TypeOK, Holding
  <1>3. copy[r].row.package \in Package
    BY <1>2 DEF Row
  <1>4. \A i \in Named(copy[r].row.package) : i # NoId
    BY DEF Named, Present
  <1>5. Named(copy[r].row.package) = {}
    BY <1>4 DEF Insert, Free
  <1>6. [row EXCEPT ![nextId] = copy[r].row] \in [Id -> Row \cup {NoRow}]
    BY <1>1, <1>2 DEF TypeOK
  <1> QED BY <1>1, <1>2, <1>3, <1>5, <1>6 DEF Insert

LEMMA SaveIs ==
  ASSUME IInv, NEW r \in Request, Save(r)
  PROVE  /\ copy[r].id \in Id /\ step[r] = "save"
         /\ copy[r].row \in Row /\ copy[r].row.package \in Package
         /\ [row EXCEPT ![copy[r].id] = copy[r].row] \in [Id -> Row \cup {NoRow}]
         /\ SetTable([row EXCEPT ![copy[r].id] = copy[r].row])
         /\ Outdate(copy[r].id, {r}) /\ Return(r)
         /\ UNCHANGED <<nextId, resolver, renamed, wins, losses>>
  <1>1. TypeOK /\ Holding /\ step[r] = "save"
    BY DEF IInv, Save
  <1>2. copy[r].id \in Id /\ copy[r].row \in Row
    BY <1>1 DEF Holding
  <1>3. copy[r].row.package \in Package
    BY <1>2 DEF Row
  <1>4. [row EXCEPT ![copy[r].id] = copy[r].row] \in [Id -> Row \cup {NoRow}]
    BY <1>1, <1>2 DEF TypeOK
  <1> QED BY <1>1, <1>2, <1>3, <1>4 DEF Save

LEMMA DeleteIs ==
  ASSUME IInv, NEW i \in Id, AdminDelete(i)
  PROVE  /\ row[i] \in Row /\ row[i].package \in Package
         /\ [row EXCEPT ![i] = NoRow] \in [Id -> Row \cup {NoRow}]
         /\ SetTable([row EXCEPT ![i] = NoRow])
         /\ losses' = [losses EXCEPT ![row[i].package] = @ + 1]
  <1>1. row[i] \in Row /\ TypeOK
    BY DEF AdminDelete, Present, IInv, TypeOK
  <1>2. row[i].package \in Package
    BY <1>1 DEF Row
  <1>3. [row EXCEPT ![i] = NoRow] \in [Id -> Row \cup {NoRow}]
    BY <1>1 DEF TypeOK
  <1> QED BY <1>1, <1>2, <1>3 DEF AdminDelete, Lose

LEMMA RenameIs ==
  ASSUME IInv, NEW i \in Id, NEW p \in Package, AdminRename(i, p)
  PROVE  /\ row[i] \in Row /\ row[i].package \in Package
         /\ \E new \in [Id -> Row \cup {NoRow}] :
              /\ SetTable(new) /\ new[i].package = p /\ new[i] \in Row
              /\ \A j \in Id \ {i} : new[j] = row[j]
         /\ losses' = [losses EXCEPT ![row[i].package] = @ + 1]
  <1>1. row[i] \in Row /\ TypeOK
    BY DEF AdminRename, Present, IInv, TypeOK
  <1>2. row[i].package \in Package /\ row[i].field \in [Field -> BOOLEAN]
    BY <1>1 DEF Row
  <1> DEFINE mine == [row[i] EXCEPT !.package = p]
  <1>3. mine = [package |-> p, field |-> row[i].field]
    BY <1>1 DEF Row
  <1>4. mine \in Row /\ mine.package = p
    BY <1>2, <1>3 DEF Row
  <1> DEFINE new == [row EXCEPT ![i].package = p]
  <1>5. new = [row EXCEPT ![i] = mine]
    OBVIOUS
  <1> HIDE DEF mine
  <1>6. /\ new \in [Id -> Row \cup {NoRow}] /\ new[i] = mine
        /\ \A j \in Id \ {i} : new[j] = row[j]
    BY <1>1, <1>4, <1>5 DEF TypeOK
  <1>7. SetTable(new)
    BY DEF AdminRename
  <1>8. losses' = [losses EXCEPT ![row[i].package] = @ + 1]
    BY DEF AdminRename, Lose
  <1> HIDE DEF new
  <1> QED BY <1>1, <1>2, <1>4, <1>6, <1>7, <1>8

LEMMA QueryIs ==
  ASSUME NEW p \in Package
  PROVE  IF Named(p) = {} THEN Query(p) = NoId ELSE Query(p) \in Named(p)
  BY DEF Query

-----------------------------------------------------------------------------
\* Every step keeps the types.
LEMMA TypeStep ==
  ASSUME IInv, [Next]_vars
  PROVE  TypeOK'
  <1>0. TypeOK /\ Holding
    BY DEF IInv
  <1>1. ASSUME NEW r \in Request, NEW p \in Package, CheckName(r, p)
        PROVE  TypeOK'
    <2>1. [package |-> p, field |-> [f \in Field |-> TRUE]] \in Row
      BY DEF Row
    <2>2. copy' \in [Request -> [id : Id \cup {NoId}, row : Row \cup {NoRow}]]
      BY <1>0, <1>1, <2>1 DEF TypeOK, CheckName
    <2> QED BY <1>0, <1>1, <2>2 DEF TypeOK, CheckName
  <1>2. ASSUME NEW r \in Request, Insert(r)
        PROVE  TypeOK'
    <2>1. \E new \in [Id -> Row \cup {NoRow}] : SetTable(new)
      BY <1>2, InsertIs
    <2>2. row' \in [Id -> Row \cup {NoRow}] /\ since' \in [Id -> [Package -> 0..Never]]
      BY <1>0, <2>1, SetTableIs
    <2>3. /\ nextId \in Id /\ nextId' = nextId + 1 /\ Return(r)
          /\ UNCHANGED <<cache, batch, ids, held>>
      BY <1>2, InsertIs
    <2>4. nextId' \in 1..(LastId + 1)
      BY <2>3
    <2>5. /\ step' \in [Request -> {"idle", "create", "save"}]
          /\ copy' \in [Request -> [id : Id \cup {NoId}, row : Row \cup {NoRow}]]
      BY <1>0, <2>3, ReturnIs
    <2> QED BY <1>0, <2>2, <2>3, <2>4, <2>5 DEF TypeOK
  <1>3. ASSUME NEW r \in Request, InsertRefused(r)
        PROVE  TypeOK'
    BY <1>0, <1>3, ReturnIs DEF TypeOK, InsertRefused
  <1>4. ASSUME NEW r \in Request, NEW i \in Id, NEW given \in Update,
               ReadForUpdate(r, i, given)
        PROVE  TypeOK'
    BY <1>0, <1>4, ReadIs DEF TypeOK, ReadForUpdate
  <1>5. ASSUME NEW r \in Request, Save(r)
        PROVE  TypeOK'
    <2>1. \E new \in [Id -> Row \cup {NoRow}] : SetTable(new)
      BY <1>5, SaveIs
    <2>2. row' \in [Id -> Row \cup {NoRow}] /\ since' \in [Id -> [Package -> 0..Never]]
      BY <1>0, <2>1, SetTableIs
    <2>3. Return(r) /\ UNCHANGED <<nextId, cache, batch, ids, held>>
      BY <1>5, SaveIs
    <2> QED BY <1>0, <2>2, <2>3, ReturnIs DEF TypeOK
  <1>6. ASSUME NEW r \in Request, SaveRefused(r)
        PROVE  TypeOK'
    BY <1>0, <1>6, ReturnIs DEF TypeOK, SaveRefused
  <1>7. ASSUME NEW i \in Id, AdminDelete(i)
        PROVE  TypeOK'
    <2>1. \E new \in [Id -> Row \cup {NoRow}] : SetTable(new)
      BY <1>7, DeleteIs
    <2>2. row' \in [Id -> Row \cup {NoRow}] /\ since' \in [Id -> [Package -> 0..Never]]
      BY <1>0, <2>1, SetTableIs
    <2> QED BY <1>0, <1>7, <2>2 DEF TypeOK, AdminDelete
  <1>8. ASSUME NEW i \in Id, NEW p \in Package, AdminRename(i, p)
        PROVE  TypeOK'
    <2>1. \E new \in [Id -> Row \cup {NoRow}] : SetTable(new)
      BY <1>8, RenameIs
    <2>2. row' \in [Id -> Row \cup {NoRow}] /\ since' \in [Id -> [Package -> 0..Never]]
      BY <1>0, <2>1, SetTableIs
    <2> QED BY <1>0, <1>8, <2>2 DEF TypeOK, AdminRename
  <1>9. CASE Tick
    <2>1. cache' \in [Package -> [id : Id \cup {NoId}, left : 0..Ttl]]
      <3> SUFFICES ASSUME NEW p \in Package
                   PROVE  cache'[p] \in [id : Id \cup {NoId}, left : 0..Ttl]
        BY <1>9 DEF Tick
      <3>1. cache[p] \in [id : Id \cup {NoId}, left : 0..Ttl]
        BY <1>0 DEF TypeOK
      <3>2. CASE cache[p].left > 1
        BY <1>9, <3>1, <3>2 DEF Tick
      <3>3. CASE ~(cache[p].left > 1)
        BY <1>9, <3>3 DEF Tick, NoEntry
      <3> QED BY <3>2, <3>3
    <2>2. since' \in [Id -> [Package -> 0..Never]]
      BY <1>0, <1>9 DEF TypeOK, Tick
    <2> QED BY <1>0, <1>9, <2>1, <2>2 DEF TypeOK, Tick
  <1>10. ASSUME NEW names \in SUBSET Package, PollBatch(names)
        PROVE  TypeOK'
    BY <1>0, <1>10 DEF TypeOK, PollBatch
  <1>11. CASE Resolve
    <2>1. \A p \in Package : Query(p) \in Id \cup {NoId}
      BY QueryIs DEF Named, Present
    <2>2. ids' \in [Package -> Id \cup {NoId}]
      BY <1>0, <1>11, <2>1 DEF TypeOK, Resolve
    <2>3. cache' \in [Package -> [id : Id \cup {NoId}, left : 0..Ttl]]
      BY <1>0, <1>11, <2>1 DEF TypeOK, Resolve, Remember
    <2> QED BY <1>0, <1>11, <2>2, <2>3 DEF TypeOK, Resolve
  <1>12. CASE WriteBatch
    BY <1>0, <1>12 DEF TypeOK, WriteBatch
  <1>13. CASE WriteViolates
    BY <1>0, <1>13 DEF TypeOK, WriteViolates, NoEntry
  <1>14. CASE UNCHANGED vars
    BY <1>0, <1>14 DEF TypeOK
  <1> QED BY <1>1, <1>2, <1>3, <1>4, <1>5, <1>6, <1>7, <1>8, <1>9, <1>10, <1>11, <1>12, <1>13,
            <1>14, TogglesAreUpdates
         DEF Next, ServeStep, ConsumerStep, UpdateApplication, Deactivate, Reactivate

\* Every step keeps what threads hold.
LEMMA HoldingStep ==
  ASSUME IInv, [Next]_vars
  PROVE  Holding'
  <1>0. TypeOK /\ Holding
    BY DEF IInv
  <1>1. ASSUME NEW r \in Request, NEW p \in Package, CheckName(r, p)
        PROVE  Holding'
    <2>1. [package |-> p, field |-> [f \in Field |-> TRUE]] \in Row
      BY DEF Row
    <2> QED BY <1>0, <1>1, <2>1 DEF TypeOK, Holding, CheckName
  <1>2. ASSUME NEW r \in Request, Insert(r)
        PROVE  Holding'
    <2>1. copy[r].row.package \in Package /\ Return(r) /\ UNCHANGED losses
          /\ wins' = [wins EXCEPT ![copy[r].row.package] = @ + 1]
      BY <1>2, InsertIs
    <2>2. wins' \in [Package -> Nat]
      BY <1>0, <2>1 DEF Holding
    <2> QED BY <1>0, <2>1, <2>2, ReturnIs DEF Holding
  <1>3. ASSUME NEW r \in Request, InsertRefused(r)
        PROVE  Holding'
    BY <1>0, <1>3, ReturnIs DEF Holding, InsertRefused
  <1>4. ASSUME NEW r \in Request, NEW i \in Id, NEW given \in Update,
               ReadForUpdate(r, i, given)
        PROVE  Holding'
    <2>1. /\ copy'[r].id \in Id /\ copy'[r].row \in Row
          /\ step' = [step EXCEPT ![r] = "save"] /\ data' = [data EXCEPT ![r] = given]
          /\ \A s \in Request \ {r} : copy'[s] = copy[s]
          /\ UNCHANGED <<wins, losses>>
      BY <1>4, ReadIs
    <2> QED BY <1>0, <2>1 DEF TypeOK, Holding
  <1>5. ASSUME NEW r \in Request, Save(r)
        PROVE  Holding'
    BY <1>0, <1>5, SaveIs, ReturnIs DEF Holding
  <1>6. ASSUME NEW r \in Request, SaveRefused(r)
        PROVE  Holding'
    BY <1>0, <1>6, ReturnIs DEF Holding, SaveRefused
  <1>7. ASSUME NEW i \in Id, AdminDelete(i)
        PROVE  Holding'
    <2>1. row[i].package \in Package /\ losses' = [losses EXCEPT ![row[i].package] = @ + 1]
      BY <1>7, DeleteIs
    <2>2. losses' \in [Package -> Nat]
      BY <1>0, <2>1 DEF Holding
    <2> QED BY <1>0, <1>7, <2>2 DEF Holding, AdminDelete
  <1>8. ASSUME NEW i \in Id, NEW p \in Package, AdminRename(i, p)
        PROVE  Holding'
    <2>1. row[i].package \in Package /\ losses' = [losses EXCEPT ![row[i].package] = @ + 1]
      BY <1>8, RenameIs
    <2>2. losses' \in [Package -> Nat]
      BY <1>0, <2>1 DEF Holding
    <2> QED BY <1>0, <1>8, <2>2 DEF Holding, AdminRename
  <1>9. CASE Tick
    BY <1>0, <1>9 DEF Holding, Tick
  <1>10. ASSUME NEW names \in SUBSET Package, PollBatch(names)
        PROVE  Holding'
    BY <1>0, <1>10 DEF Holding, PollBatch
  <1>11. CASE Resolve
    BY <1>0, <1>11 DEF Holding, Resolve
  <1>12. CASE WriteBatch
    BY <1>0, <1>12 DEF Holding, WriteBatch
  <1>13. CASE WriteViolates
    BY <1>0, <1>13 DEF Holding, WriteViolates
  <1>14. CASE UNCHANGED vars
    BY <1>0, <1>14 DEF Holding
  <1> QED BY <1>1, <1>2, <1>3, <1>4, <1>5, <1>6, <1>7, <1>8, <1>9, <1>10, <1>11, <1>12, <1>13,
            <1>14, TogglesAreUpdates
         DEF Next, ServeStep, ConsumerStep, UpdateApplication, Deactivate, Reactivate

\* A copy is of an id that the sequence has given.
LEMMA CopiesAreGiven ==
  ASSUME IInv, NEW r \in Request, step[r] = "save"
  PROVE  copy[r].id \in Id /\ ~(copy[r].id >= nextId)
  <1>1. Holding /\ MentionInv
    BY DEF IInv
  <1>2. copy[r].id \in Id /\ copy[r].row.package \in Package
    BY <1>1 DEF Holding, Row
  <1>3. Mentions(copy[r].id, copy[r].row.package)
    BY DEF Mentions
  <1> QED BY <1>1, <1>2, <1>3 DEF MentionInv

\* Whoever writes a row outdates the copies of the others.
LEMMA CopyStep ==
  ASSUME IInv, [Next]_vars
  PROVE  CopyInv'
  <1>0. TypeOK /\ Holding /\ CopyInv
    BY DEF IInv
  <1>1. ASSUME NEW r \in Request, NEW p \in Package, CheckName(r, p)
        PROVE  CopyInv'
    <2>1. /\ UNCHANGED <<row, data, touched>> /\ step'[r] = "create"
          /\ \A s \in Request \ {r} : step'[s] = step[s] /\ copy'[s] = copy[s]
      BY <1>0, <1>1 DEF TypeOK, CheckName
    <2> QED BY <1>0, <2>1 DEF CopyInv
  <1>2. ASSUME NEW r \in Request, Insert(r)
        PROVE  CopyInv'
    <2>1. /\ nextId \in Id /\ Return(r) /\ UNCHANGED touched
          /\ SetTable([row EXCEPT ![nextId] = copy[r].row])
      BY <1>2, InsertIs
    <2>2. ASSUME NEW s \in Request, step[s] = "save" PROVE copy[s].id \in Id \ {nextId}
      BY <2>1, <2>2, CopiesAreGiven
    <2>3. \A i \in Id \ {nextId} : row'[i] = row[i]
      BY <1>0, <2>1 DEF SetTable, TypeOK
    <2> QED BY <1>0, <2>1, <2>2, <2>3, ReturnIs DEF CopyInv
  <1>3. ASSUME NEW r \in Request, InsertRefused(r)
        PROVE  CopyInv'
    BY <1>0, <1>3, ReturnIs DEF CopyInv, InsertRefused
  <1>4. ASSUME NEW r \in Request, NEW i \in Id, NEW given \in Update,
               ReadForUpdate(r, i, given)
        PROVE  CopyInv'
    <2>1. /\ row[i] \in Row /\ copy'[r].id = i /\ copy'[r].row.package = row[i].package
          /\ \A f \in Field \ DOMAIN given : copy'[r].row.field[f] = row[i].field[f]
          /\ step' = [step EXCEPT ![r] = "save"] /\ data' = [data EXCEPT ![r] = given]
          /\ touched' = touched \ {r}
          /\ \A s \in Request \ {r} : copy'[s] = copy[s]
          /\ UNCHANGED row
      BY <1>4, ReadIs
    <2>2. row[i] # NoRow /\ data'[r] = given
      BY <1>0, <2>1 DEF Holding
    <2> QED BY <1>0, <2>1, <2>2 DEF TypeOK, Holding, CopyInv
  <1>5. ASSUME NEW r \in Request, Save(r)
        PROVE  CopyInv'
    <2>1. /\ copy[r].id \in Id /\ Return(r)
          /\ SetTable([row EXCEPT ![copy[r].id] = copy[r].row]) /\ Outdate(copy[r].id, {r})
      BY <1>5, SaveIs
    <2>2. \A i \in Id \ {copy[r].id} : row'[i] = row[i]
      BY <1>0, <2>1 DEF SetTable, TypeOK
    <2>3. ASSUME NEW s \in Request \ {r}, step[s] = "save", s \notin touched'
          PROVE  s \notin touched /\ copy[s].id \in Id \ {copy[r].id}
      BY <1>0, <2>1, <2>3 DEF Outdate, Holding
    <2> QED BY <1>0, <2>1, <2>2, <2>3, ReturnIs DEF CopyInv
  <1>6. ASSUME NEW r \in Request, SaveRefused(r)
        PROVE  CopyInv'
    BY <1>0, <1>6, ReturnIs DEF CopyInv, SaveRefused
  <1>7. ASSUME NEW i \in Id, AdminDelete(i)
        PROVE  CopyInv'
    <2>1. \A j \in Id \ {i} : row'[j] = row[j]
      BY <1>0, <1>7 DEF SetTable, TypeOK, AdminDelete
    <2>2. ASSUME NEW s \in Request, step[s] = "save", s \notin touched'
          PROVE  s \notin touched /\ copy[s].id \in Id \ {i}
      BY <1>0, <1>7, <2>2 DEF Outdate, Holding, AdminDelete
    <2> QED BY <1>0, <1>7, <2>1, <2>2 DEF CopyInv, AdminDelete
  <1>8. ASSUME NEW i \in Id, NEW p \in Package, AdminRename(i, p)
        PROVE  CopyInv'
    <2>1. \A j \in Id \ {i} : row'[j] = row[j]
      BY <1>0, <1>8 DEF SetTable, TypeOK, AdminRename
    <2>2. ASSUME NEW s \in Request, step[s] = "save", s \notin touched'
          PROVE  s \notin touched /\ copy[s].id \in Id \ {i}
      BY <1>0, <1>8, <2>2 DEF Outdate, Holding, AdminRename
    <2> QED BY <1>0, <1>8, <2>1, <2>2 DEF CopyInv, AdminRename
  <1>9. CASE Tick
    BY <1>0, <1>9 DEF CopyInv, Tick
  <1>10. ASSUME NEW names \in SUBSET Package, PollBatch(names)
        PROVE  CopyInv'
    BY <1>0, <1>10 DEF CopyInv, PollBatch
  <1>11. CASE Resolve
    BY <1>0, <1>11 DEF CopyInv, Resolve
  <1>12. CASE WriteBatch
    BY <1>0, <1>12 DEF CopyInv, WriteBatch
  <1>13. CASE WriteViolates
    BY <1>0, <1>13 DEF CopyInv, WriteViolates
  <1>14. CASE UNCHANGED vars
    BY <1>0, <1>14 DEF CopyInv
  <1> QED BY <1>1, <1>2, <1>3, <1>4, <1>5, <1>6, <1>7, <1>8, <1>9, <1>10, <1>11, <1>12, <1>13,
            <1>14, TogglesAreUpdates
         DEF Next, ServeStep, ConsumerStep, UpdateApplication, Deactivate, Reactivate

\* A write to the table ages no id; one that is a name's from then on is new.
LEMMA SetTableKeepsAge ==
  ASSUME TypeOK, AgeInv, NEW new \in [Id -> Row \cup {NoRow}], SetTable(new), UNCHANGED cache
  PROVE  AgeInv'
  <1>1. row' = new /\ \A i \in Id, p \in Package :
          since'[i][p] = IF new[i] # NoRow /\ new[i].package = p THEN 0 ELSE since[i][p]
    BY SetTableIs
  <1>2. \A i \in Id, p \in Package :
          since[i][p] \in Nat /\ since'[i][p] \in Nat /\ since'[i][p] <= since[i][p]
    <2> SUFFICES ASSUME NEW i \in Id, NEW p \in Package
                 PROVE  since[i][p] \in Nat /\ since'[i][p] \in {0, since[i][p]}
      OBVIOUS
    <2>1. since[i][p] \in 0..Never
      BY DEF TypeOK
    <2> QED BY <1>1, <2>1
  <1>3. ASSUME NEW p \in Package, NEW i \in Named(p)' PROVE since'[i][p] = 0
    BY <1>1, <1>3 DEF Named, Present
  <1>4. ASSUME NEW p \in Package, cache[p].left > 0
        PROVE  cache[p].id \in Id /\ since'[cache[p].id][p] + cache[p].left <= Ttl
    <2>1. cache[p].id \in Id /\ since[cache[p].id][p] + cache[p].left <= Ttl
      BY <1>4 DEF AgeInv
    <2>2. cache[p].left \in Nat
      <3>1. cache[p] \in [id : Id \cup {NoId}, left : 0..Ttl]
        BY DEF TypeOK
      <3> QED BY <3>1
    <2>3. /\ since[cache[p].id][p] \in Nat /\ since'[cache[p].id][p] \in Nat
          /\ since'[cache[p].id][p] <= since[cache[p].id][p]
      BY <1>2, <2>1
    <2> QED BY <2>1, <2>2, <2>3
  <1> QED BY <1>3, <1>4 DEF AgeInv

\* A cached id ages as fast as its entry.
LEMMA AgeStep ==
  ASSUME IInv, [Next]_vars
  PROVE  AgeInv'
  <1>0. TypeOK /\ AgeInv
    BY DEF IInv
  <1>1. ASSUME NEW r \in Request, NEW p \in Package, CheckName(r, p)
        PROVE  AgeInv'
    BY <1>0, <1>1 DEF AgeInv, Named, Present, CheckName
  <1>2. ASSUME NEW r \in Request, Insert(r)
        PROVE  AgeInv'
    <2>1. PICK new \in [Id -> Row \cup {NoRow}] : SetTable(new)
      BY <1>2, InsertIs
    <2>2. UNCHANGED cache
      BY <1>2 DEF Insert
    <2> QED BY <1>0, <2>1, <2>2, SetTableKeepsAge
  <1>3. ASSUME NEW r \in Request, InsertRefused(r)
        PROVE  AgeInv'
    BY <1>0, <1>3 DEF AgeInv, Named, Present, InsertRefused
  <1>4. ASSUME NEW r \in Request, NEW i \in Id, NEW given \in Update,
               ReadForUpdate(r, i, given)
        PROVE  AgeInv'
    BY <1>0, <1>4 DEF AgeInv, Named, Present, ReadForUpdate
  <1>5. ASSUME NEW r \in Request, Save(r)
        PROVE  AgeInv'
    <2>1. PICK new \in [Id -> Row \cup {NoRow}] : SetTable(new)
      BY <1>5, SaveIs
    <2>2. UNCHANGED cache
      BY <1>5 DEF Save
    <2> QED BY <1>0, <2>1, <2>2, SetTableKeepsAge
  <1>6. ASSUME NEW r \in Request, SaveRefused(r)
        PROVE  AgeInv'
    BY <1>0, <1>6 DEF AgeInv, Named, Present, SaveRefused
  <1>7. ASSUME NEW i \in Id, AdminDelete(i)
        PROVE  AgeInv'
    <2>1. PICK new \in [Id -> Row \cup {NoRow}] : SetTable(new)
      BY <1>7, DeleteIs
    <2>2. UNCHANGED cache
      BY <1>7 DEF AdminDelete
    <2> QED BY <1>0, <2>1, <2>2, SetTableKeepsAge
  <1>8. ASSUME NEW i \in Id, NEW p \in Package, AdminRename(i, p)
        PROVE  AgeInv'
    <2>1. PICK new \in [Id -> Row \cup {NoRow}] : SetTable(new)
      BY <1>8, RenameIs
    <2>2. UNCHANGED cache
      BY <1>8 DEF AdminRename
    <2> QED BY <1>0, <2>1, <2>2, SetTableKeepsAge
  <1>9. CASE Tick
    <2>1. \A i \in Id, p \in Package : since'[i][p] =
            IF i \in Named(p) \/ since[i][p] = Never THEN since[i][p] ELSE since[i][p] + 1
      BY <1>9 DEF Tick
    <2>2. \A p \in Package : Named(p)' = Named(p)
      BY <1>9 DEF Tick, Named, Present
    <2>3. \A p \in Package : \A i \in Named(p)' : since'[i][p] = 0
      BY <1>0, <2>1, <2>2 DEF AgeInv, Named, Present
    <2>4. ASSUME NEW p \in Package, cache'[p].left > 0
          PROVE  cache'[p].id \in Id /\ since'[cache'[p].id][p] + cache'[p].left <= Ttl
      <3>1. /\ cache[p].left > 1 /\ cache'[p] = [cache[p] EXCEPT !.left = cache[p].left - 1]
            /\ cache[p] \in [id : Id \cup {NoId}, left : 0..Ttl]
        BY <1>0, <1>9, <2>4 DEF Tick, NoEntry, TypeOK
      <3>2. cache'[p].id = cache[p].id /\ cache'[p].left = cache[p].left - 1
        BY <3>1
      <3>3. cache[p].id \in Id /\ since[cache[p].id][p] + cache[p].left <= Ttl
        BY <1>0, <3>1 DEF AgeInv
      <3>4. since[cache[p].id][p] \in Nat /\ cache[p].left \in Nat
        BY <1>0, <3>3 DEF TypeOK
      <3> QED BY <2>1, <3>2, <3>3, <3>4
    <2> QED BY <2>3, <2>4 DEF AgeInv
  <1>10. ASSUME NEW names \in SUBSET Package, PollBatch(names)
        PROVE  AgeInv'
    BY <1>0, <1>10 DEF AgeInv, Named, Present, PollBatch
  <1>11. CASE Resolve
    <2>1. UNCHANGED <<row, since>>
      BY <1>11 DEF Resolve
    <2>2. ASSUME NEW p \in Package, cache'[p].left > 0
          PROVE  cache'[p].id \in Id /\ since[cache'[p].id][p] + cache'[p].left <= Ttl
      <3>1. CASE cache'[p] = cache[p]
        BY <1>0, <2>2, <3>1 DEF AgeInv
      <3>2. CASE cache'[p] # cache[p]
        <4>1. Query(p) # NoId /\ cache'[p] = [id |-> Query(p), left |-> Ttl]
          BY <1>11, <3>2 DEF Resolve, Remember
        <4>2. Query(p) \in Named(p)
          BY <4>1, QueryIs
        <4>3. Query(p) \in Id /\ since[Query(p)][p] = 0
          BY <1>0, <4>2 DEF AgeInv, Named, Present
        <4> QED BY <4>1, <4>3
      <3> QED BY <3>1, <3>2
    <2> QED BY <1>0, <2>1, <2>2 DEF AgeInv, Named, Present
  <1>12. CASE WriteBatch
    BY <1>0, <1>12 DEF AgeInv, Named, Present, WriteBatch
  <1>13. CASE WriteViolates
    BY <1>0, <1>13 DEF AgeInv, Named, Present, WriteViolates, NoEntry
  <1>14. CASE UNCHANGED vars
    BY <1>0, <1>14 DEF AgeInv, Named, Present
  <1> QED BY <1>1, <1>2, <1>3, <1>4, <1>5, <1>6, <1>7, <1>8, <1>9, <1>10, <1>11, <1>12, <1>13,
            <1>14, TogglesAreUpdates
         DEF Next, ServeStep, ConsumerStep, UpdateApplication, Deactivate, Reactivate

\* A step that uses no id for a new name keeps ids to their names.
LEMMA NoNewMention ==
  ASSUME TypeOK, MentionInv, nextId' \in {nextId, nextId + 1}, renamed' = renamed,
         \A j \in Id, q \in Package : Mentions(j, q)' => Mentions(j, q)
  PROVE  MentionInv'
  <1>1. \A j \in Id : j >= nextId' => j >= nextId
    BY DEF TypeOK
  <1> QED BY <1>1 DEF MentionInv

\* Only an insert uses an id for a new name, one that was not used; and a rename.
LEMMA MentionStep ==
  ASSUME IInv, [Next]_vars
  PROVE  MentionInv'
  <1>0. TypeOK /\ Holding /\ MentionInv
    BY DEF IInv
  <1>1. ASSUME NEW r \in Request, NEW p \in Package, CheckName(r, p)
        PROVE  MentionInv'
    <2> SUFFICES ASSUME NEW j \in Id, NEW q \in Package, Mentions(j, q)'
                 PROVE  Mentions(j, q)
      BY <1>0, <1>1, NoNewMention DEF CheckName
    <2> QED BY <1>0, <1>1 DEF Mentions, TypeOK, CheckName
  <1>2. ASSUME NEW r \in Request, Insert(r)
        PROVE  MentionInv'
    <2> DEFINE p == copy[r].row.package
    <2>1. /\ nextId \in Id /\ nextId' = nextId + 1 /\ UNCHANGED <<cache, ids, renamed>>
          /\ p \in Package /\ Return(r) /\ SetTable([row EXCEPT ![nextId] = copy[r].row])
      BY <1>2, InsertIs
    <2>2. row'[nextId] = copy[r].row /\ \A j \in Id \ {nextId} : row'[j] = row[j]
      BY <1>0, <2>1 DEF SetTable, TypeOK
    <2>3. ASSUME NEW j \in Id, NEW q \in Package, Mentions(j, q)'
          PROVE  Mentions(j, q) \/ (j = nextId /\ q = p)
      <3>1. CASE j = nextId
        BY <1>0, <2>1, <2>2, <2>3, <3>1, ReturnIs DEF Mentions
      <3>2. CASE j # nextId
        BY <1>0, <2>1, <2>2, <2>3, <3>2, ReturnIs DEF Mentions
      <3> QED BY <3>1, <3>2
    <2>4. ASSUME NEW j \in Id, NEW q \in Package, j >= nextId' PROVE ~Mentions(j, q)'
      <3>1. j >= nextId /\ j # nextId
        BY <2>1, <2>4
      <3> QED BY <1>0, <2>3, <3>1 DEF MentionInv
    <2>5. ASSUME NEW j \in Id \ renamed, NEW q \in Package, NEW s \in Package,
                 Mentions(j, q)', Mentions(j, s)'
          PROVE  q = s
      <3>1. CASE j = nextId
        <4>1. nextId >= nextId
          BY <2>1
        <4> QED BY <1>0, <2>3, <2>5, <3>1, <4>1 DEF MentionInv
      <3>2. CASE j # nextId
        BY <1>0, <2>3, <2>5, <3>2 DEF MentionInv
      <3> QED BY <3>1, <3>2
    <2>6. ASSUME NEW j \in Id, j >= nextId' PROVE j \notin renamed'
      <3>1. j >= nextId
        BY <2>1, <2>6
      <3> QED BY <1>0, <2>1, <3>1 DEF MentionInv
    <2> QED BY <2>1, <2>4, <2>5, <2>6 DEF MentionInv
  <1>3. ASSUME NEW r \in Request, InsertRefused(r)
        PROVE  MentionInv'
    <2> SUFFICES ASSUME NEW j \in Id, NEW q \in Package, Mentions(j, q)'
                 PROVE  Mentions(j, q)
      BY <1>0, <1>3, NoNewMention DEF InsertRefused
    <2>1. /\ step'[r] = "idle" /\ UNCHANGED <<row, cache, ids>>
          /\ \A s \in Request \ {r} : step'[s] = step[s] /\ copy'[s] = copy[s]
      BY <1>0, <1>3, ReturnIs DEF InsertRefused
    <2> QED BY <2>1 DEF Mentions
  <1>4. ASSUME NEW r \in Request, NEW i \in Id, NEW given \in Update,
               ReadForUpdate(r, i, given)
        PROVE  MentionInv'
    <2>1. /\ row[i] \in Row /\ copy'[r].id = i /\ copy'[r].row.package = row[i].package
          /\ step' = [step EXCEPT ![r] = "save"]
          /\ \A s \in Request \ {r} : copy'[s] = copy[s]
          /\ UNCHANGED <<row, nextId, cache, ids, renamed>>
      BY <1>4, ReadIs
    <2> SUFFICES ASSUME NEW j \in Id, NEW q \in Package, Mentions(j, q)'
                 PROVE  Mentions(j, q)
      BY <1>0, <2>1, NoNewMention
    <2> QED BY <1>0, <2>1 DEF Mentions, TypeOK
  <1>5. ASSUME NEW r \in Request, Save(r)
        PROVE  MentionInv'
    <2>1. /\ copy[r].id \in Id /\ step[r] = "save" /\ Return(r)
          /\ SetTable([row EXCEPT ![copy[r].id] = copy[r].row])
          /\ UNCHANGED <<nextId, cache, ids, renamed>>
      BY <1>5, SaveIs
    <2>2. row'[copy[r].id] = copy[r].row /\ \A j \in Id \ {copy[r].id} : row'[j] = row[j]
      BY <1>0, <2>1 DEF SetTable, TypeOK
    <2> SUFFICES ASSUME NEW j \in Id, NEW q \in Package, Mentions(j, q)'
                 PROVE  Mentions(j, q)
      BY <1>0, <2>1, NoNewMention
    <2>3. CASE j = copy[r].id
      BY <1>0, <2>1, <2>2, <2>3, ReturnIs DEF Mentions
    <2>4. CASE j # copy[r].id
      BY <1>0, <2>1, <2>2, <2>4, ReturnIs DEF Mentions
    <2> QED BY <2>3, <2>4
  <1>6. ASSUME NEW r \in Request, SaveRefused(r)
        PROVE  MentionInv'
    <2> SUFFICES ASSUME NEW j \in Id, NEW q \in Package, Mentions(j, q)'
                 PROVE  Mentions(j, q)
      BY <1>0, <1>6, NoNewMention DEF SaveRefused
    <2>1. /\ step'[r] = "idle" /\ UNCHANGED <<row, cache, ids>>
          /\ \A s \in Request \ {r} : step'[s] = step[s] /\ copy'[s] = copy[s]
      BY <1>0, <1>6, ReturnIs DEF SaveRefused
    <2> QED BY <2>1 DEF Mentions
  <1>7. ASSUME NEW i \in Id, AdminDelete(i)
        PROVE  MentionInv'
    <2>1. row' = [row EXCEPT ![i] = NoRow]
          /\ UNCHANGED <<nextId, step, copy, cache, ids, renamed>>
      BY <1>7 DEF AdminDelete, SetTable
    <2> SUFFICES ASSUME NEW j \in Id, NEW q \in Package, Mentions(j, q)'
                 PROVE  Mentions(j, q)
      BY <1>0, <2>1, NoNewMention
    <2> QED BY <1>0, <2>1 DEF Mentions, TypeOK
  <1>8. ASSUME NEW i \in Id, NEW p \in Package, AdminRename(i, p)
        PROVE  MentionInv'
    <2>1. /\ \A j \in Id \ {i} : row'[j] = row[j]
          /\ renamed' = renamed \cup {i} /\ UNCHANGED <<nextId, step, copy, cache, ids>>
      BY <1>0, <1>8 DEF AdminRename, SetTable, TypeOK
    <2>2. i < nextId
      <3>1. row[i].package \in Package /\ nextId \in Nat
        BY <1>0, <1>8, RenameIs DEF TypeOK
      <3>2. Mentions(i, row[i].package)
        BY <1>8 DEF AdminRename, Present, Mentions
      <3> QED BY <1>0, <3>1, <3>2 DEF MentionInv
    <2>3. ASSUME NEW j \in Id \ {i}, NEW q \in Package, Mentions(j, q)'
          PROVE  Mentions(j, q)
      BY <2>1, <2>3 DEF Mentions
    <2>4. ASSUME NEW j \in Id, NEW q \in Package, j >= nextId PROVE ~Mentions(j, q)'
      <3>1. j # i
        BY <1>0, <2>2, <2>4 DEF TypeOK
      <3> QED BY <1>0, <2>3, <2>4, <3>1 DEF MentionInv
    <2>5. ASSUME NEW j \in Id \ renamed', NEW q \in Package, NEW s \in Package,
                 Mentions(j, q)', Mentions(j, s)'
          PROVE  q = s
      BY <1>0, <2>1, <2>3, <2>5 DEF MentionInv
    <2>6. ASSUME NEW j \in Id, j >= nextId PROVE j \notin renamed'
      <3>1. j # i
        BY <1>0, <2>2, <2>6 DEF TypeOK
      <3> QED BY <1>0, <2>1, <2>6, <3>1 DEF MentionInv
    <2> QED BY <2>1, <2>4, <2>5, <2>6 DEF MentionInv
  <1>9. CASE Tick
    <2>1. \A q \in Package : cache'[q] = NoEntry \/ cache'[q].id = cache[q].id
      <3> SUFFICES ASSUME NEW q \in Package, cache[q].left > 1
                   PROVE  cache'[q].id = cache[q].id
        BY <1>9 DEF Tick
      <3>1. cache[q] \in [id : Id \cup {NoId}, left : 0..Ttl]
        BY <1>0 DEF TypeOK
      <3> QED BY <1>9, <3>1 DEF Tick
    <2> SUFFICES ASSUME NEW j \in Id, NEW q \in Package, Mentions(j, q)'
                 PROVE  Mentions(j, q)
      BY <1>0, <1>9, NoNewMention DEF Tick
    <2> QED BY <1>9, <2>1 DEF Mentions, Tick, NoEntry
  <1>10. ASSUME NEW names \in SUBSET Package, PollBatch(names)
        PROVE  MentionInv'
    <2> SUFFICES ASSUME NEW j \in Id, NEW q \in Package, Mentions(j, q)'
                 PROVE  Mentions(j, q)
      BY <1>0, <1>10, NoNewMention DEF PollBatch
    <2> QED BY <1>0, <1>10 DEF Mentions, TypeOK, PollBatch
  <1>11. CASE Resolve
    <2>1. \A q \in Package : Query(q) \in Id => Mentions(Query(q), q)
      BY QueryIs DEF Named, Present, Mentions
    <2>2. ASSUME NEW q \in Package
          PROVE  /\ cache'[q].id \in {cache[q].id, Query(q)}
                 /\ ids'[q] \in {NoId, cache[q].id, Query(q)}
      BY <1>11 DEF Resolve, Remember
    <2> SUFFICES ASSUME NEW j \in Id, NEW q \in Package, Mentions(j, q)'
                 PROVE  Mentions(j, q)
      BY <1>0, <1>11, NoNewMention DEF Resolve
    <2> QED BY <1>11, <2>1, <2>2 DEF Mentions, Resolve
  <1>12. CASE WriteBatch
    <2> SUFFICES ASSUME NEW j \in Id, NEW q \in Package, Mentions(j, q)'
                 PROVE  Mentions(j, q)
      BY <1>0, <1>12, NoNewMention DEF WriteBatch
    <2> QED BY <1>0, <1>12 DEF Mentions, TypeOK, WriteBatch
  <1>13. CASE WriteViolates
    <2> SUFFICES ASSUME NEW j \in Id, NEW q \in Package, Mentions(j, q)'
                 PROVE  Mentions(j, q)
      BY <1>0, <1>13, NoNewMention DEF WriteViolates
    <2> QED BY <1>13 DEF Mentions, WriteViolates, NoEntry
  <1>14. CASE UNCHANGED vars
    <2> SUFFICES ASSUME NEW j \in Id, NEW q \in Package, Mentions(j, q)'
                 PROVE  Mentions(j, q)
      BY <1>0, <1>14, NoNewMention
    <2> QED BY <1>14 DEF Mentions
  <1> QED BY <1>1, <1>2, <1>3, <1>4, <1>5, <1>6, <1>7, <1>8, <1>9, <1>10, <1>11, <1>12, <1>13,
            <1>14, TogglesAreUpdates
         DEF Next, ServeStep, ConsumerStep, UpdateApplication, Deactivate, Reactivate

\* A create wins when no row has its name; then it has one until it is given up.
LEMMA WinsStep ==
  ASSUME IInv, [Next]_vars
  PROVE  WinsInv'
  <1>0. TypeOK /\ Holding /\ MentionInv /\ WinsInv
    BY DEF IInv
  <1>1. ASSUME NEW r \in Request, NEW p \in Package, CheckName(r, p)
        PROVE  WinsInv'
    BY <1>0, <1>1 DEF WinsInv, Named, Present, CheckName
  <1>2. ASSUME NEW r \in Request, Insert(r)
        PROVE  WinsInv'
    <2>0. PICK p \in Package : p = copy[r].row.package
      BY <1>2, InsertIs
    <2>1. /\ nextId \in Id /\ p \in Package /\ Named(p) = {}
          /\ copy[r].row \in Row /\ SetTable([row EXCEPT ![nextId] = copy[r].row])
          /\ wins' = [wins EXCEPT ![p] = @ + 1] /\ UNCHANGED <<losses, renamed>>
      BY <1>2, <2>0, InsertIs
    <2>2. row'[nextId] = copy[r].row /\ \A j \in Id \ {nextId} : row'[j] = row[j]
      BY <1>0, <2>1 DEF SetTable, TypeOK
    <2>3. row[nextId] = NoRow
      <3>1. row[nextId] \in Row => Mentions(nextId, row[nextId].package)
        BY DEF Mentions
      <3>2. row[nextId] \in Row => row[nextId].package \in Package
        BY DEF Row
      <3>3. nextId >= nextId
        BY <2>1
      <3> QED BY <1>0, <2>1, <3>1, <3>2, <3>3 DEF MentionInv, TypeOK
    <2>4. ASSUME NEW q \in Package \ {p}, NEW i \in Named(q) PROVE i \in Named(q)'
      BY <2>2, <2>3, <2>4 DEF Named, Present
    <2>5. ASSUME NEW q \in Package \ {p}
          PROVE  \/ wins'[q] <= losses'[q]
                 \/ /\ wins'[q] <= losses'[q] + 1
                    /\ \E i \in Named(q)' : i \notin renamed'
      BY <1>0, <2>1, <2>4 DEF WinsInv, Holding
    <2>6. wins'[p] <= losses'[p] + 1
      <3>1. wins[p] \in Nat /\ losses[p] \in Nat /\ wins[p] <= losses[p]
        BY <1>0, <2>1 DEF WinsInv, Holding
      <3> QED BY <1>0, <2>1, <3>1 DEF Holding
    <2>7. nextId \in Named(p)'
      BY <2>0, <2>1, <2>2 DEF Named, Present
    <2>8. nextId \notin renamed
      <3>1. nextId >= nextId
        BY <2>1
      <3> QED BY <1>0, <2>1, <3>1 DEF MentionInv
    <2>9. \E i \in Named(p)' : i \notin renamed'
      BY <2>1, <2>7, <2>8
    <2> QED BY <2>5, <2>6, <2>9 DEF WinsInv
  <1>3. ASSUME NEW r \in Request, InsertRefused(r)
        PROVE  WinsInv'
    BY <1>0, <1>3 DEF WinsInv, Named, Present, InsertRefused
  <1>4. ASSUME NEW r \in Request, NEW i \in Id, NEW given \in Update,
               ReadForUpdate(r, i, given)
        PROVE  WinsInv'
    BY <1>0, <1>4 DEF WinsInv, Named, Present, ReadForUpdate
  <1>5. ASSUME NEW r \in Request, Save(r)
        PROVE  WinsInv'
    <2> DEFINE c == copy[r].id
               p == copy[r].row.package
    <2>1. /\ c \in Id /\ p \in Package /\ step[r] = "save"
          /\ copy[r].row \in Row /\ SetTable([row EXCEPT ![c] = copy[r].row])
          /\ UNCHANGED <<wins, losses, renamed>>
      BY <1>5, SaveIs
    <2>2. row'[c] = copy[r].row /\ \A j \in Id \ {c} : row'[j] = row[j]
      BY <1>0, <2>1 DEF SetTable, TypeOK
    <2>3. Mentions(c, p)
      BY <2>1 DEF Mentions
    <2>4. ASSUME NEW q \in Package, NEW i \in Named(q), i \notin renamed PROVE i \in Named(q)'
      <3>1. CASE i = c
        <4>1. Mentions(c, q)
          BY <2>4, <3>1 DEF Named, Present, Mentions
        <4>2. q = p
          BY <1>0, <2>1, <2>3, <2>4, <3>1, <4>1 DEF MentionInv
        <4> QED BY <2>1, <2>2, <3>1, <4>2 DEF Named, Present
      <3>2. CASE i # c
        BY <2>2, <2>4, <3>2 DEF Named, Present
      <3> QED BY <3>1, <3>2
    <2> QED BY <1>0, <2>1, <2>4 DEF WinsInv
  <1>6. ASSUME NEW r \in Request, SaveRefused(r)
        PROVE  WinsInv'
    BY <1>0, <1>6 DEF WinsInv, Named, Present, SaveRefused
  <1>7. ASSUME NEW i \in Id, AdminDelete(i)
        PROVE  WinsInv'
    <2> DEFINE p == row[i].package
    <2>1. /\ p \in Package /\ losses' = [losses EXCEPT ![p] = @ + 1]
      BY <1>7, DeleteIs
    <2>2. UNCHANGED <<wins, renamed>> /\ \A j \in Id \ {i} : row'[j] = row[j]
      BY <1>0, <1>7 DEF AdminDelete, SetTable, TypeOK
    <2>3. ASSUME NEW q \in Package \ {p}, NEW j \in Named(q) PROVE j \in Named(q)'
      BY <2>2, <2>3 DEF Named, Present
    <2>4. ASSUME NEW q \in Package \ {p}
          PROVE  \/ wins'[q] <= losses'[q]
                 \/ /\ wins'[q] <= losses'[q] + 1
                    /\ \E j \in Named(q)' : j \notin renamed'
      BY <1>0, <2>1, <2>2, <2>3 DEF WinsInv, Holding
    <2>5. wins'[p] <= losses'[p]
      <3>1. wins[p] \in Nat /\ losses[p] \in Nat /\ wins[p] <= losses[p] + 1
        BY <1>0, <2>1 DEF WinsInv, Holding
      <3> QED BY <1>0, <2>1, <2>2, <3>1 DEF Holding
    <2> QED BY <2>4, <2>5 DEF WinsInv
  <1>8. ASSUME NEW i \in Id, NEW p \in Package, AdminRename(i, p)
        PROVE  WinsInv'
    <2> DEFINE o == row[i].package
    <2>1. /\ o \in Package /\ losses' = [losses EXCEPT ![o] = @ + 1]
      BY <1>8, RenameIs
    <2>2. /\ wins' = wins /\ renamed' = renamed \cup {i}
          /\ \A j \in Id \ {i} : row'[j] = row[j]
      BY <1>0, <1>8 DEF AdminRename, SetTable, TypeOK
    <2>3. ASSUME NEW q \in Package \ {o}, NEW j \in Named(q), j \notin renamed
          PROVE  j \in Named(q)' /\ j \notin renamed'
      BY <2>2, <2>3 DEF Named, Present
    <2>4. ASSUME NEW q \in Package \ {o}
          PROVE  \/ wins'[q] <= losses'[q]
                 \/ /\ wins'[q] <= losses'[q] + 1
                    /\ \E j \in Named(q)' : j \notin renamed'
      BY <1>0, <2>1, <2>2, <2>3 DEF WinsInv, Holding
    <2>5. wins'[o] <= losses'[o]
      <3>1. wins[o] \in Nat /\ losses[o] \in Nat /\ wins[o] <= losses[o] + 1
        BY <1>0, <2>1 DEF WinsInv, Holding
      <3> QED BY <1>0, <2>1, <2>2, <3>1 DEF Holding
    <2> QED BY <2>4, <2>5 DEF WinsInv
  <1>9. CASE Tick
    BY <1>0, <1>9 DEF WinsInv, Named, Present, Tick
  <1>10. ASSUME NEW names \in SUBSET Package, PollBatch(names)
        PROVE  WinsInv'
    BY <1>0, <1>10 DEF WinsInv, Named, Present, PollBatch
  <1>11. CASE Resolve
    BY <1>0, <1>11 DEF WinsInv, Named, Present, Resolve
  <1>12. CASE WriteBatch
    BY <1>0, <1>12 DEF WinsInv, Named, Present, WriteBatch
  <1>13. CASE WriteViolates
    BY <1>0, <1>13 DEF WinsInv, Named, Present, WriteViolates
  <1>14. CASE UNCHANGED vars
    BY <1>0, <1>14 DEF WinsInv, Named, Present
  <1> QED BY <1>1, <1>2, <1>3, <1>4, <1>5, <1>6, <1>7, <1>8, <1>9, <1>10, <1>11, <1>12, <1>13,
            <1>14, TogglesAreUpdates
         DEF Next, ServeStep, ConsumerStep, UpdateApplication, Deactivate, Reactivate

-----------------------------------------------------------------------------
LEMMA StepKeepsIInv == IInv /\ [Next]_vars => IInv'
  <1> SUFFICES ASSUME IInv, [Next]_vars PROVE IInv'
    OBVIOUS
  <1> QED BY TypeStep, HoldingStep, CopyStep, AgeStep, MentionStep, WinsStep DEF IInv

(* The inductive invariant holds in every behaviour of the registry and    *)
(* the resolver: what requests hold, how old cached ids are, and that an   *)
(* id the admin site has not renamed is used for one name.                 *)
THEOREM Invariance == Spec => []IInv
  <1> QED BY InitIInv, StepKeepsIInv, PTL DEF Spec

(* The table, the requests and the resolver keep their types.              *)
THEOREM TypeCorrect == Spec => []TypeOK
  <1>1. IInv => TypeOK
    BY DEF IInv
  <1> QED BY <1>1, Invariance, PTL

(* However requests race, at most one create of a name is answered 201 for *)
(* each time the name is free (create_application, the unique index).      *)
THEOREM CreatesOnce == Spec => []OneCreateWins
  <1>1. IInv => OneCreateWins
    <2> SUFFICES ASSUME IInv, NEW p \in Package PROVE wins[p] <= 1 + losses[p]
      BY DEF OneCreateWins
    <2>1. wins[p] \in Nat /\ losses[p] \in Nat
      BY DEF IInv, Holding
    <2> QED BY <2>1 DEF IInv, WinsInv
  <1> QED BY <1>1, Invariance, PTL

(* What the resolver takes from its cache was its name's less than the     *)
(* time to live ago (resolve_many, the expiry of its entries).             *)
THEOREM CacheBounded == Spec => IdNotOlderThanTtl
  <1>1. IInv /\ Resolve =>
          \A p \in batch : ids'[p] # NoId => since[ids'[p]][p] < Ttl
    <2> SUFFICES ASSUME IInv, Resolve, NEW p \in batch, ids'[p] # NoId
                 PROVE  since[ids'[p]][p] < Ttl
      OBVIOUS
    <2>1. p \in Package /\ TypeOK /\ AgeInv
      BY DEF IInv, TypeOK
    <2>2. CASE cache[p].left = 0
      <3>1. ids'[p] = Query(p)
        BY <2>1, <2>2 DEF Resolve
      <3>2. ids'[p] \in Named(p)
        BY <2>1, <3>1, QueryIs
      <3>3. since[ids'[p]][p] = 0
        BY <2>1, <3>2 DEF AgeInv
      <3> QED BY <3>3, RegistryAssumption
    <2>3. CASE cache[p].left # 0
      <3>1. ids'[p] = cache[p].id
        BY <2>1, <2>3 DEF Resolve
      <3>2. cache[p] \in [id : Id \cup {NoId}, left : 0..Ttl]
        BY <2>1 DEF TypeOK
      <3>3. cache[p].left > 0 /\ cache[p].left \in Nat
        BY <2>3, <3>2
      <3>4. cache[p].id \in Id /\ since[cache[p].id][p] + cache[p].left <= Ttl
        BY <2>1, <3>3 DEF AgeInv
      <3>5. since[cache[p].id][p] \in Nat
        BY <2>1, <3>4 DEF TypeOK
      <3> QED BY <3>1, <3>3, <3>4, <3>5
    <2> QED BY <2>2, <2>3
  <1> QED BY <1>1, Invariance, PTL DEF IdNotOlderThanTtl

(* A registered name resolves: an unknown name is never remembered as one  *)
(* (resolve_many stores no misses).                                        *)
THEOREM RegisteredResolves == Spec => RegisteredIsResolved
  <1>1. IInv /\ Resolve =>
          \A p \in batch : ids'[p] = NoId => Named(p) = {}
    <2> SUFFICES ASSUME IInv, Resolve, NEW p \in batch, ids'[p] = NoId
                 PROVE  Named(p) = {}
      OBVIOUS
    <2>1. p \in Package /\ TypeOK /\ AgeInv
      BY DEF IInv, TypeOK
    <2>2. CASE cache[p].left = 0
      <3>1. Query(p) = NoId
        BY <2>1, <2>2 DEF Resolve
      <3> QED BY <2>1, <3>1, QueryIs DEF Named, Present
    <2>3. CASE cache[p].left # 0
      <3>1. cache[p].id = NoId
        BY <2>1, <2>3 DEF Resolve
      <3>2. cache[p] \in [id : Id \cup {NoId}, left : 0..Ttl]
        BY <2>1 DEF TypeOK
      <3>3. cache[p].left > 0
        BY <2>3, <3>2
      <3> QED BY <2>1, <3>1, <3>3 DEF AgeInv
    <2> QED BY <2>2, <2>3
  <1> QED BY <1>1, Invariance, PTL DEF RegisteredIsResolved

(* However old an id is, data is never written under another name's        *)
(* application, unless the admin site renamed it.                          *)
THEOREM FiledUnderItsName == Spec => NeverMisfiled
  <1>1. IInv /\ WriteBatch =>
          \A p \in Resolved : ids[p] \in renamed \/ row[ids[p]].package = p
    <2> SUFFICES ASSUME IInv, WriteBatch, NEW p \in Resolved, ids[p] \notin renamed
                 PROVE  row[ids[p]].package = p
      OBVIOUS
    <2>1. TypeOK /\ MentionInv
      BY DEF IInv
    <2>2. p \in Package /\ ids[p] \in Id /\ row[ids[p]] # NoRow
      BY <2>1 DEF WriteBatch, Resolved, Present, TypeOK
    <2>3. row[ids[p]] \in Row
      BY <2>1, <2>2 DEF TypeOK
    <2>4. row[ids[p]].package \in Package
      BY <2>3 DEF Row
    <2>5. Mentions(ids[p], p) /\ Mentions(ids[p], row[ids[p]].package)
      BY <2>2 DEF Mentions
    <2> QED BY <2>1, <2>2, <2>4, <2>5 DEF MentionInv
  <1> QED BY <1>1, Invariance, PTL DEF NeverMisfiled

(* A request that no other write overlapped changes no column it was not   *)
(* given, though save() writes all of them.                                *)
THEOREM SaveKeepsRest == Spec => UndisturbedSaveKeepsRest
  <1> DEFINE Keeps ==
        \A r \in Request \ touched : Save(r) =>
          \A i \in Id : row[i] # row'[i] =>
            /\ row[i] # NoRow /\ row'[i].package = row[i].package
            /\ \A f \in Field \ DOMAIN data[r] : row'[i].field[f] = row[i].field[f]
  <1>1. IInv => Keeps
    <2> SUFFICES ASSUME IInv, NEW r \in Request \ touched, Save(r),
                        NEW i \in Id, row[i] # row'[i]
                 PROVE  /\ row[i] # NoRow /\ row'[i].package = row[i].package
                        /\ \A f \in Field \ DOMAIN data[r] : row'[i].field[f] = row[i].field[f]
      OBVIOUS
    <2>1. TypeOK /\ CopyInv
      BY DEF IInv
    <2>2. /\ copy[r].id \in Id /\ step[r] = "save"
          /\ SetTable([row EXCEPT ![copy[r].id] = copy[r].row])
      BY SaveIs
    <2>3. i = copy[r].id /\ row'[i] = copy[r].row
      BY <2>1, <2>2 DEF SetTable, TypeOK
    <2> QED BY <2>1, <2>2, <2>3 DEF CopyInv
  <1> QED BY <1>1, Invariance, PTL DEF UndisturbedSaveKeepsRest

=============================================================================
