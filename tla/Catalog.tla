------------------------------ MODULE Catalog ------------------------------
(***************************************************************************)
(* Where the payment core's catalogue comes from: instances of the service *)
(* start and seed the database (app/main.py, app/database/seed_data.py),   *)
(* clients with an API key create users, archives and records with their   *)
(* ledger accounts (app/api, app/services), and others read it: a card     *)
(* authorization that names no user looks for the default researcher, a    *)
(* client walks through GET /users page by page.                           *)
(*                                                                         *)
(* Every actor - a starting instance or a request - has one database       *)
(* session on PostgreSQL.  It inserts row after row, sees what is          *)
(* committed, and waits where another session has inserted the same unique *)
(* value and not ended.  created_at is now(), the start of the             *)
(* transaction: rows of one transaction share it, and so may those of      *)
(* transactions that began in one tick of the clock.                       *)
(***************************************************************************)
EXTENDS Integers, Sequences, FiniteSets

CONSTANTS
  Instances,    \* processes of the service
  Sessions,     \* requests
  Requests,     \* what a request may ask for
  Role,         \* [email -> role of the user who registers with it]
  Misconfigured,\* instances in production with a default secret
  Inactive,     \* API clients that were deactivated
  DefaultPage,  \* rows of a page when no limit is given: 50 in the code
  Limit,        \* rows of a page of the walk
  MaxCrashes,
  None

CatalogAssumption ==
  /\ Instances \cap Sessions = {}
  /\ Misconfigured \subseteq Instances
  /\ DefaultPage \in Nat \ {0}
  /\ Limit \in Nat \ {0}
  /\ MaxCrashes \in Nat
  /\ None \notin Instances \cup Sessions \cup Requests
  /\ \A r \in Requests : r.kind \in {"user", "archive", "record", "walk", "cardauth"}

ASSUME CatalogAssumption

Actors == Instances \cup Sessions

VARIABLES
  rows,     \* committed rows of all tables
  draft,    \* [Actors -> rows its session has inserted and not committed]
  todo,     \* [Actors -> rows it has still to insert]
  pc, req,
  began,    \* [Actors -> when the transaction that inserts users began, or 0:
            \* their created_at, the only one that the readers here sort by]
  clock,
  picked,   \* [Sessions -> default researcher a card authorization found]
  offset,   \* [Sessions -> of the next page of a walk]
  seen,     \* [Sessions -> users a walk has listed]
  known,    \* [Sessions -> users there were when it began]
  crashes

tables == <<rows, draft>>
reading == <<picked, offset, seen, known>>
vars == <<tables, todo, pc, req, began, clock, reading, crashes>>

(* A row; `by` stands for its fresh id, `needs` are the rows it refers to. *)
Row(table, name, by, needs) == [table |-> table, name |-> name, by |-> by, needs |-> needs]

Of(set, table) == {r \in set : r.table = table}

Init ==
  /\ rows = {}
  /\ draft = [a \in Actors |-> {}]
  /\ todo = [a \in Actors |-> <<>>]
  /\ pc = [a \in Actors |-> IF a \in Instances THEN "down" ELSE "idle"]
  /\ req = [s \in Sessions |-> None]
  /\ began = [a \in Actors |-> 0]
  /\ clock = 1
  /\ picked = [s \in Sessions |-> None]
  /\ offset = [s \in Sessions |-> 0]
  /\ seen = [s \in Sessions |-> {}]
  /\ known = [s \in Sessions |-> {}]
  /\ crashes = 0

Go(a, step) == pc' = [pc EXCEPT ![a] = step]

(* The clock may not have moved since another transaction began.           *)
Begin(a) ==
  /\ clock' \in {clock, clock + 1}
  /\ began' = [began EXCEPT ![a] = clock']

-----------------------------------------------------------------------------
(* Rows and constraints.                                                   *)

(* user_service.create_user *)
UserRows(s, email) ==
  LET user == Row("users", email, s, {})
  IN <<user, Row("accounts", "user", s, {user})>>

(* archive_service.create_archive; `owner` is empty or one user.           *)
ArchiveRows(s, name, owner) ==
  LET archive == Row("archives", name, s, owner)
  IN <<archive, Row("accounts", "archive", s, {archive})>>

RecordRows(s, reference, needs) == <<Row("records", reference, s, needs)>>

PlatformAccount(s) == Row("accounts", "platform", s, {})

(* seed *)
SeedRows(i) ==
  LET archive == ArchiveRows(i, "National Census Archive", {})
      mark == UserRows(i, "mark")
      jane == UserRows(i, "jane")
  IN <<Row("clients", "internal-admin", i, {}), Row("clients", "processor-webhook", i, {}),
       PlatformAccount(i),
       archive[1], archive[2], mark[1], mark[2], jane[1], jane[2],
       Row("records", "CENSUS-1880-004", i, {archive[1], mark[1]})>>

(* Two rows of the first page are seeded, one of them a researcher; NULL is *)
(* no row.                                                                 *)
SeedAssumption ==
  /\ DefaultPage >= 2
  /\ Role["mark"] = "transcriptionist"
  /\ Role["jane"] = "researcher"
  /\ \A i \in Instances : \A n \in DOMAIN SeedRows(i) : SeedRows(i)[n] # None

ASSUME SeedAssumption

(* Unique: api_clients.name, users.email, research_records.record_reference *)
(* and the owner of a ledger account; the platform account has none.       *)
SameKey(r, q) ==
  /\ r.table = q.table
  /\ \/ r.table \in {"clients", "users", "records"} /\ r.name = q.name
     \/ r.table = "accounts" /\ r.needs # {} /\ r.needs = q.needs

(* Mutant: the table has no unique index. *)
TakenNever(row) == FALSE

Taken(row) == \E r \in rows : SameKey(r, row)

(* Foreign keys; a session refers to its own rows and to committed ones.   *)
Dangling(a, row) == ~ (row.needs \subseteq rows \cup draft[a])

(* Sessions that have inserted the value a is to insert next.              *)
Blockers(a) == {b \in Actors \ {a} : \E r \in draft[b] : SameKey(r, Head(todo[a]))}

Waits(a) == Blockers(a) # {}

Fails(a) == Taken(Head(todo[a])) \/ Dangling(a, Head(todo[a]))

(* Mutant: the session is not closed, and keeps what it has inserted. *)
LeaveOpen(a) == UNCHANGED draft /\ todo' = [todo EXCEPT ![a] = <<>>]

(* db.close() *)
Close(a) ==
  /\ draft' = [draft EXCEPT ![a] = {}]
  /\ todo' = [todo EXCEPT ![a] = <<>>]

(* Mutant: repositories commit instead of flushing. *)
InsertAndCommit(a) ==
  /\ pc[a] = "insert"
  /\ todo[a] # <<>>
  /\ ~ Waits(a)
  /\ ~ Fails(a)
  /\ rows' = rows \cup {Head(todo[a])}
  /\ todo' = [todo EXCEPT ![a] = Tail(@)]
  /\ UNCHANGED <<draft, pc, req, began, clock, reading, crashes>>

(* db.flush() of one new row. *)
Insert(a) ==
  /\ pc[a] = "insert"
  /\ todo[a] # <<>>
  /\ ~ Waits(a)
  /\ ~ Fails(a)
  /\ draft' = [draft EXCEPT ![a] = @ \cup {Head(todo[a])}]
  /\ todo' = [todo EXCEPT ![a] = Tail(@)]
  /\ UNCHANGED <<rows, pc, req, began, clock, reading, crashes>>

Commit(a) ==
  /\ rows' = rows \cup draft[a]
  /\ Close(a)

-----------------------------------------------------------------------------
(* Start-up: lifespan of app/main.py.                                      *)

Serving == {i \in Instances : pc[i] = "serving"}

(* _check_secrets_are_not_defaults stops the others before they connect.   *)
Boot(i) ==
  /\ pc[i] = "down"
  /\ i \notin Misconfigured
  /\ Go(i, "check")
  /\ UNCHANGED <<tables, todo, req, began, clock, reading, crashes>>

(* get_platform_account: whoever finds one does not seed.                  *)
CheckPlatform(i) ==
  /\ pc[i] = "check"
  /\ IF \E r \in Of(rows, "accounts") : r.name = "platform"
     THEN Go(i, "serving") /\ UNCHANGED <<todo, began, clock>>
     ELSE Go(i, "insert") /\ todo' = [todo EXCEPT ![i] = SeedRows(i)] /\ Begin(i)
  /\ UNCHANGED <<tables, req, reading, crashes>>

CommitSeed(i) ==
  /\ i \in Instances
  /\ pc[i] = "insert"
  /\ todo[i] = <<>>
  /\ Commit(i)
  /\ Go(i, "serving")
  /\ UNCHANGED <<req, began, clock, reading, crashes>>

(* IntegrityError: "someone else already seeded it".                       *)
AlreadySeeded(i) ==
  /\ i \in Instances
  /\ pc[i] = "insert"
  /\ todo[i] # <<>>
  /\ ~ Waits(i)
  /\ Fails(i)
  /\ Close(i)
  /\ Go(i, "serving")
  /\ UNCHANGED <<rows, req, began, clock, reading, crashes>>

-----------------------------------------------------------------------------
(* Requests that create.                                                   *)

Arrive(s, r) ==
  /\ pc[s] = "idle"
  /\ Serving # {}
  /\ req' = [req EXCEPT ![s] = r]
  /\ Go(s, IF r.kind = "cardauth" THEN "pick" ELSE "gate")
  /\ UNCHANGED <<tables, todo, began, clock, reading, crashes>>

(* require_api_key: the client is looked up by the hash of its key.        *)
Authenticated(key) ==
  \E r \in Of(rows, "clients") : r.name = key /\ key \notin Inactive

Deny(s) ==
  /\ pc[s] = "gate"
  /\ ~ Authenticated(req[s].key)
  /\ Go(s, "done")
  /\ UNCHANGED <<tables, todo, req, began, clock, reading, crashes>>

(* A client refers to rows by the ids it was told, committed or not.       *)
Told(table) == Of(rows \cup UNION {draft[a] : a \in Actors}, table)

AtMostOne(set) == {{}} \cup {{x} : x \in set}

(* What the request may ask to be inserted.                                *)
Asked(s) ==
  LET r == req[s] IN
  CASE r.kind = "user"    -> {UserRows(s, r.name)}
    [] r.kind = "archive" -> {ArchiveRows(s, r.name, o) : o \in AtMostOne(Told("users"))}
    [] r.kind = "record"  -> {RecordRows(s, r.name, {a} \cup u) :
                                a \in Told("archives"), u \in AtMostOne(Told("users"))}

AdmitReader(s) ==
  /\ pc[s] = "gate"
  /\ req[s].kind = "walk"
  /\ Authenticated(req[s].key)
  /\ Go(s, "walk")
  /\ UNCHANGED <<tables, todo, req, began, clock, reading, crashes>>

Admit(s) ==
  /\ pc[s] = "gate"
  /\ req[s].kind # "walk"
  /\ Authenticated(req[s].key)
  /\ IF req[s].kind = "user" THEN Begin(s) ELSE UNCHANGED <<began, clock>>
  /\ \E list \in Asked(s) : todo' = [todo EXCEPT ![s] = list]
  /\ Go(s, "insert")
  /\ UNCHANGED <<tables, req, reading, crashes>>

(* The response is sent and the session committed.                         *)
CommitRequest(s) ==
  /\ s \in Sessions
  /\ pc[s] = "insert"
  /\ todo[s] = <<>>
  /\ Commit(s)
  /\ Go(s, "done")
  /\ UNCHANGED <<req, began, clock, reading, crashes>>

(* IntegrityError: 500, and get_db rolls back.                             *)
Violate(s) ==
  /\ s \in Sessions
  /\ pc[s] = "insert"
  /\ todo[s] # <<>>
  /\ ~ Waits(s)
  /\ Fails(s)
  /\ Close(s)
  /\ Go(s, "done")
  /\ UNCHANGED <<rows, req, began, clock, reading, crashes>>

-----------------------------------------------------------------------------
(* Requests that read: select(User).order_by(created_at).limit().offset(). *)

(* Mutants: no ORDER BY; newest first. *)
AnyOrder(r, q) == TRUE
NewestFirst(r, q) == began[r.by] >= began[q.by]

(* Row r may come before row q.                                            *)
MayPrecede(r, q) == began[r.by] <= began[q.by]

(* The pages a SELECT may return: `before` rows are skipped, rows with the *)
(* same created_at come in any order.                                      *)
Pages(set, skip, limit) ==
  {page \in SUBSET set :
     \E before \in SUBSET (set \ page) :
       LET after == set \ (page \cup before) IN
       /\ Cardinality(before) = skip \/ (Cardinality(before) < skip /\ page \cup after = {})
       /\ Cardinality(page) = limit \/ (Cardinality(page) < limit /\ after = {})
       /\ \A r \in before, q \in page \cup after : MayPrecede(r, q)
       /\ \A r \in page, q \in after : MayPrecede(r, q)}

Researchers(page) == {u \in page : Role[u.name] = "researcher"}

(* handle_card_authorization without a user_id: the first researcher of    *)
(* the first page, or a ValueError.                                        *)
PickResearcher(s) ==
  /\ pc[s] = "pick"
  /\ \E page \in Pages(Of(rows, "users"), 0, DefaultPage) :
       LET found == Researchers(page) IN
       IF found = {} THEN UNCHANGED picked
       ELSE \E u \in found : /\ \A v \in found : MayPrecede(u, v)
                             /\ picked' = [picked EXCEPT ![s] = u]
  /\ Go(s, "done")
  /\ UNCHANGED <<tables, todo, req, began, clock, offset, seen, known, crashes>>

(* One GET of a client that reads page after page until one is not full.   *)
ReadPage(s) ==
  /\ pc[s] = "walk"
  /\ known' = [known EXCEPT ![s] = IF offset[s] = 0 THEN Of(rows, "users") ELSE @]
  /\ \E page \in Pages(Of(rows, "users"), offset[s], Limit) :
       /\ seen' = [seen EXCEPT ![s] = @ \cup page]
       /\ Go(s, IF Cardinality(page) < Limit THEN "done" ELSE "walk")
  /\ offset' = [offset EXCEPT ![s] = @ + Limit]
  /\ UNCHANGED <<tables, todo, req, began, clock, picked, crashes>>

-----------------------------------------------------------------------------

Open(a) == pc[a] \in {"check", "insert", "gate", "pick", "walk"}

(* The process or its connection dies; an instance may be started again.   *)
Crash(a) ==
  /\ Open(a)
  /\ crashes < MaxCrashes
  /\ crashes' = crashes + 1
  /\ Close(a)
  /\ Go(a, IF a \in Instances THEN "down" ELSE "lost")
  /\ UNCHANGED <<rows, req, began, clock, reading>>

Step(a) ==
  \/ Insert(a)
  \/ a \in Instances /\ (CheckPlatform(a) \/ CommitSeed(a) \/ AlreadySeeded(a))
  \/ a \in Sessions /\ (Deny(a) \/ AdmitReader(a) \/ Admit(a) \/ CommitRequest(a) \/ Violate(a)
                          \/ PickResearcher(a) \/ ReadPage(a))

Next ==
  \/ \E a \in Actors : Step(a) \/ Crash(a)
  \/ \E i \in Instances : Boot(i)
  \/ \E s \in Sessions, r \in Requests : Arrive(s, r)

Spec == Init /\ [][Next]_vars

-----------------------------------------------------------------------------

(* However many instances start at once, and whatever dies on the way, the *)
(* database is seeded once: there is never a second platform account, and  *)
(* an instance that serves finds everything that seed creates.             *)
SeededOnce ==
  /\ Cardinality({r \in Of(rows, "accounts") : r.name = "platform"}) <= 1
  /\ Serving # {} =>
       \E i \in Instances : \A n \in DOMAIN SeedRows(i) : SeedRows(i)[n] \in rows

AccountsOf(owner) == {r \in Of(rows, "accounts") : r.needs = {owner}}

(* What settle_authorization looks for is there: every user and archive    *)
(* has exactly one ledger account, and the archive and transcriptionist of *)
(* a record are committed with it.                                         *)
Provisioned ==
  /\ \A r \in Of(rows, "users") \cup Of(rows, "archives") : Cardinality(AccountsOf(r)) = 1
  /\ \A r \in rows : r.needs \subseteq rows

(* A user of another transaction has the same created_at, and list_all has *)
(* no second key to sort by.                                               *)
Tied(u) == \E v \in Of(rows, "users") : v.by # u.by /\ began[v.by] = began[u.by]

(* docs/api-spec.md: without a user_id "the first seeded researcher-role   *)
(* user is used" - the same one at every call, however many users register *)
(* and in whatever order they commit; unless one of them has the           *)
(* created_at of the seed.                                                 *)
DefaultIsSeeded ==
  \A s \in Sessions :
    (pc[s] = "done" /\ req[s].kind = "cardauth") =>
      \E u \in Of(rows, "users") :
        /\ u.name = "jane" /\ u.by \in Instances
        /\ picked[s] = u \/ Tied(u)

(* A walk through the pages of GET /users misses nobody who was there when *)
(* it began, although users register during the walk (list_all); unless a  *)
(* user of another transaction has the same created_at.                    *)
WalkMissesNobody ==
  \A s \in Sessions :
    (pc[s] = "done" /\ req[s].kind = "walk") => \A u \in known[s] \ seen[s] : Tied(u)

(* Whoever waits for a unique value gets it or is refused: it waits for a  *)
(* session that is still open, and sessions never wait in a circle.        *)
WaitsEnd ==
  LET Waiting(a) == pc[a] = "insert" /\ todo[a] # <<>> /\ Waits(a) IN
  /\ \A a \in Actors : Waiting(a) => \A b \in Blockers(a) : Open(b)
  /\ \A circle \in (SUBSET Actors) \ {{}} :
       ~ \A a \in circle : Waiting(a) /\ Blockers(a) \cap circle # {}
=============================================================================
