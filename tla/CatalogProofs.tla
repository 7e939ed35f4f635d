---------------------------- MODULE CatalogProofs ----------------------------
(***************************************************************************)
(* Proofs about Catalog, for any number of instances and requests: the     *)
(* database is seeded once, what is committed is provisioned, nobody waits *)
(* for ever, and those who read find the researcher of the seed and        *)
(* everybody else.                                                         *)
(***************************************************************************)
EXTENDS Catalog, FiniteSetTheorems, TLAPS

Elements(seq) == {seq[n] : n \in DOMAIN seq}

-----------------------------------------------------------------------------
(* Types.                                                                  *)

Names ==
  {"internal-admin", "processor-webhook", "platform", "National Census Archive",
   "user", "archive", "mark", "jane", "CENSUS-1880-004"} \cup {r.name : r \in Requests}

Rows(table, refs) == [table: {table}, name: Names, by: Actors, needs: SUBSET refs]

UserRow    == Rows("users", {})
ArchiveRow == Rows("archives", UserRow)
OwnerRow   == UserRow \cup ArchiveRow

AnyRow ==
  OwnerRow \cup Rows("clients", {}) \cup Rows("accounts", OwnerRow) \cup Rows("records", OwnerRow)

Steps ==
  {"down", "check", "insert", "serving", "idle", "gate", "pick", "walk", "done", "lost"}

Typed ==
  /\ rows \subseteq AnyRow
  /\ draft \in [Actors -> SUBSET AnyRow]
  /\ todo \in [Actors -> Seq(AnyRow)]
  /\ pc \in [Actors -> Steps]
  /\ req \in [Sessions -> Requests \cup {None}]
  /\ \A s \in Sessions : pc[s] = "gate" => req[s] \in Requests /\ req[s].kind # "cardauth"

-----------------------------------------------------------------------------
(* The inductive invariant.                                                *)

(* What a session inserts between its beginning and its commit.            *)
Bundle(a) == draft[a] \cup Elements(todo[a])

AccountOf(owner) ==
  Row("accounts", IF owner.table = "users" THEN "user" ELSE "archive", owner.by, {owner})

(* Every owner comes with its account, and with no other.                  *)
Complete(set) ==
  /\ \A r \in set : r.table \in {"users", "archives"} => AccountOf(r) \in set
  /\ \A q \in set, r \in OwnerRow :
       (q.table = "accounts" /\ q.needs = {r}) => q = AccountOf(r)

IsPlatform(r) == r.table = "accounts" /\ r.name = "platform"

SeedSet(i) == Elements(SeedRows(i))

Bundles ==
  \A a \in Actors :
    /\ Complete(Bundle(a))
    /\ \A r \in Bundle(a) : r.by = a /\ (IsPlatform(r) => a \in Instances)
    /\ \A r \in draft[a] : r.needs \subseteq rows \cup draft[a]
    /\ pc[a] # "insert" => draft[a] = {} /\ todo[a] = <<>>

(* A seed needs only what it has inserted before.                          *)
Ordered(set, list) ==
  \A n \in DOMAIN list : list[n].needs \subseteq set \cup {list[m] : m \in 1 .. n - 1}

Seeding ==
  \A i \in Instances : pc[i] = "insert" =>
    Bundle(i) = SeedSet(i) /\ Ordered(draft[i], todo[i])

Committed ==
  /\ Complete(rows)
  /\ \A r \in rows : r.needs \subseteq rows
  /\ \A r \in rows :
       IsPlatform(r) => r.by \in Instances /\ r \in SeedSet(r.by) /\ SeedSet(r.by) \subseteq rows

Inserted == rows \cup UNION {draft[a] : a \in Actors}

(* The unique constraints.                                                 *)
Unique == \A r, q \in Inserted : SameKey(r, q) => r.by = q.by

(* Nothing is served or committed before the seed.                         *)
SeededFirst ==
  (rows # {} \/ Serving # {} \/ \E s \in Sessions : pc[s] # "idle")
    => \E i \in Instances : SeedSet(i) \subseteq rows

IInv ==
  /\ Typed
  /\ Bundles
  /\ Seeding
  /\ Committed
  /\ Unique
  /\ SeededFirst

-----------------------------------------------------------------------------
(* Lists of rows.                                                          *)

LEMMA ElementsEmpty == Elements(<<>>) = {}
  BY DEF Elements

LEMMA ElementsOfTail ==
  ASSUME NEW S, NEW list \in Seq(S), list # <<>>
  PROVE  /\ Head(list) \in S /\ Tail(list) \in Seq(S)
         /\ Elements(list) = {Head(list)} \cup Elements(Tail(list))
  <1>1. /\ Head(list) = list[1] /\ 1 \in DOMAIN list /\ DOMAIN list = 1 .. Len(list)
        /\ Tail(list) \in Seq(S) /\ DOMAIN Tail(list) = 1 .. Len(list) - 1
        /\ \A n \in 1 .. Len(list) - 1 : Tail(list)[n] = list[n + 1]
        /\ Len(list) \in Nat \ {0} /\ list[1] \in S
    OBVIOUS
  <1>2. ASSUME NEW x \in Elements(list), x # list[1] PROVE x \in Elements(Tail(list))
    <2>1. PICK n \in 1 .. Len(list) : x = list[n]
      BY <1>1, <1>2 DEF Elements
    <2>2. n - 1 \in 1 .. Len(list) - 1 /\ x = Tail(list)[n - 1]
      BY <1>1, <1>2, <2>1
    <2>3. QED
      BY <1>1, <2>2 DEF Elements
  <1>3. ASSUME NEW x \in Elements(Tail(list)) PROVE x \in Elements(list)
    <2>1. PICK n \in 1 .. Len(list) - 1 : x = list[n + 1]
      BY <1>1, <1>3 DEF Elements
    <2>2. n + 1 \in DOMAIN list
      BY <1>1
    <2>3. QED
      BY <2>1, <2>2 DEF Elements
  <1>4. list[1] \in Elements(list)
    BY <1>1 DEF Elements
  <1>5. QED
    BY <1>1, <1>2, <1>3, <1>4

(* Inserting the head keeps the order.                                     *)
LEMMA OrderedTail ==
  ASSUME NEW S, NEW list \in Seq(S), list # <<>>, NEW set, Ordered(set, list)
  PROVE  /\ Head(list).needs \subseteq set
         /\ Ordered(set \cup {Head(list)}, Tail(list))
  <1>1. /\ Head(list) = list[1] /\ 1 \in DOMAIN list /\ DOMAIN list = 1 .. Len(list)
        /\ DOMAIN Tail(list) = 1 .. Len(list) - 1
        /\ \A n \in 1 .. Len(list) - 1 : Tail(list)[n] = list[n + 1]
        /\ Len(list) \in Nat \ {0}
    OBVIOUS
  <1>2. Head(list).needs \subseteq set
    BY <1>1 DEF Ordered
  <1>3. ASSUME NEW n \in DOMAIN Tail(list), NEW x \in Tail(list)[n].needs
        PROVE  x \in set \cup {Head(list)} \cup {Tail(list)[m] : m \in 1 .. n - 1}
    <2>1. n + 1 \in DOMAIN list /\ n \in Nat \ {0} /\ x \in list[n + 1].needs
      BY <1>1, <1>3
    <2>2. CASE x \in set
      BY <2>2
    <2>3. CASE x \notin set
      <3>1. PICK m \in 1 .. n : x = list[m]
        BY <2>1, <2>3 DEF Ordered
      <3>2. CASE m = 1
        BY <1>1, <3>1, <3>2
      <3>3. CASE m # 1
        <4>1. m - 1 \in 1 .. n - 1 /\ m - 1 \in 1 .. Len(list) - 1
          BY <1>1, <1>3, <2>1, <3>3
        <4>2. x = Tail(list)[m - 1]
          BY <1>1, <3>1, <4>1
        <4>3. QED
          BY <4>1, <4>2
      <3>4. QED
        BY <3>2, <3>3
    <2>4. QED
      BY <2>2, <2>3
  <1>4. QED
    BY <1>2, <1>3 DEF Ordered

-----------------------------------------------------------------------------
(* The lists that are inserted.                                            *)

LEMMA RowTypes ==
  ASSUME NEW a \in Actors, NEW name \in Names
  PROVE  /\ Row("users", name, a, {}) \in UserRow
         /\ Row("clients", name, a, {}) \in AnyRow
         /\ \A refs \in SUBSET UserRow : Row("archives", name, a, refs) \in ArchiveRow
         /\ \A refs \in SUBSET OwnerRow : /\ Row("accounts", name, a, refs) \in AnyRow
                                          /\ Row("records", name, a, refs) \in AnyRow
  BY DEF Row, UserRow, ArchiveRow, AnyRow, Rows

(* An owner and its account.                                               *)
LEMMA OwnerBundle ==
  ASSUME NEW a \in Actors, NEW owner \in OwnerRow, owner.by = a
  PROVE  /\ AccountOf(owner) \in AnyRow
         /\ <<owner, AccountOf(owner)>> \in Seq(AnyRow)
         /\ Elements(<<owner, AccountOf(owner)>>) = {owner, AccountOf(owner)}
         /\ Complete({owner, AccountOf(owner)})
         /\ \A r \in {owner, AccountOf(owner)} : r.by = a /\ ~ IsPlatform(r)
  <1>1. owner \in AnyRow /\ owner.table \in {"users", "archives"}
    BY DEF OwnerRow, UserRow, ArchiveRow, AnyRow, Rows
  <1>2. AccountOf(owner) \in AnyRow
    <2>1. "user" \in Names /\ "archive" \in Names
      BY DEF Names
    <2>2. QED
      BY <2>1, RowTypes DEF AccountOf
  <1>3. /\ <<owner, AccountOf(owner)>> \in Seq(AnyRow)
        /\ Elements(<<owner, AccountOf(owner)>>) = {owner, AccountOf(owner)}
    BY <1>1, <1>2 DEF Elements
  <1>4. /\ AccountOf(owner).table = "accounts" /\ AccountOf(owner).by = a
        /\ AccountOf(owner).needs = {owner} /\ AccountOf(owner).name \in {"user", "archive"}
    BY DEF AccountOf, Row
  <1>5. Complete({owner, AccountOf(owner)})
    BY <1>1, <1>4 DEF Complete
  <1>6. \A r \in {owner, AccountOf(owner)} : r.by = a /\ ~ IsPlatform(r)
    BY <1>1, <1>4 DEF IsPlatform
  <1>7. QED
    BY <1>2, <1>3, <1>5, <1>6

LEMMA UserRowsFacts ==
  ASSUME NEW a \in Actors, NEW name \in Names
  PROVE  LET user == Row("users", name, a, {}) IN
         /\ user \in UserRow /\ user.by = a
         /\ UserRows(a, name) = <<user, AccountOf(user)>>
  BY RowTypes DEF UserRows, AccountOf, Row

LEMMA ArchiveRowsFacts ==
  ASSUME NEW a \in Actors, NEW name \in Names, NEW refs \in SUBSET UserRow
  PROVE  LET archive == Row("archives", name, a, refs) IN
         /\ archive \in ArchiveRow /\ archive.by = a
         /\ ArchiveRows(a, name, refs) = <<archive, AccountOf(archive)>>
  BY RowTypes DEF ArchiveRows, AccountOf, Row

(* What a request inserts: whole bundles of its own, never the platform    *)
(* account.                                                                *)
ListOf(a, list) ==
  /\ list \in Seq(AnyRow)
  /\ Complete(Elements(list))
  /\ \A r \in Elements(list) : r.by = a /\ (IsPlatform(r) => a \in Instances)

LEMMA OwnerList ==
  ASSUME NEW a \in Actors, NEW owner \in OwnerRow, owner.by = a
  PROVE  ListOf(a, <<owner, AccountOf(owner)>>)
  <1> DEFINE list == <<owner, AccountOf(owner)>>
  <1>1. list \in Seq(AnyRow) /\ Elements(list) = {owner, AccountOf(owner)}
    BY OwnerBundle
  <1>2. Complete(Elements(list))
    BY <1>1, OwnerBundle
  <1>3. \A r \in Elements(list) : r.by = a /\ ~ IsPlatform(r)
    BY <1>1, OwnerBundle
  <1> HIDE DEF list
  <1>4. ListOf(a, list)
    BY <1>1, <1>2, <1>3 DEF ListOf
  <1>5. QED
    BY <1>4 DEF list

LEMMA AskedLists ==
  ASSUME Typed, NEW s \in Sessions, req[s] \in Requests, req[s].kind \notin {"walk", "cardauth"},
         NEW list \in Asked(s)
  PROVE  ListOf(s, list)
  <1>1. s \in Actors /\ req[s].name \in Names
    BY DEF Actors, Names
  <1>2. req[s].kind \in {"user", "archive", "record"}
    BY CatalogAssumption DEF CatalogAssumption
  <1>3. Told("users") \subseteq UserRow /\ Told("archives") \subseteq ArchiveRow
    <2>1. rows \cup UNION {draft[a] : a \in Actors} \subseteq AnyRow
      BY DEF Typed
    <2>2. \A r \in AnyRow : /\ r.table = "users" => r \in UserRow
                            /\ r.table = "archives" => r \in ArchiveRow
      BY DEF AnyRow, OwnerRow, UserRow, ArchiveRow, Rows
    <2>3. QED
      BY <2>1, <2>2 DEF Told, Of
  <1>4. CASE req[s].kind = "user"
    <2> DEFINE user == Row("users", req[s].name, s, {})
    <2>1. list = <<user, AccountOf(user)>> /\ user \in OwnerRow /\ user.by = s
      BY <1>1, <1>4, UserRowsFacts DEF Asked, OwnerRow
    <2> HIDE DEF user
    <2>2. QED
      BY <1>1, <2>1, OwnerList
  <1>5. CASE req[s].kind = "archive"
    <2>1. PICK refs \in AtMostOne(Told("users")) : list = ArchiveRows(s, req[s].name, refs)
      BY <1>5 DEF Asked
    <2>2. refs \in SUBSET UserRow
      BY <1>3 DEF AtMostOne
    <2> DEFINE archive == Row("archives", req[s].name, s, refs)
    <2>3. list = <<archive, AccountOf(archive)>> /\ archive \in OwnerRow /\ archive.by = s
      BY <1>1, <2>1, <2>2, ArchiveRowsFacts DEF OwnerRow
    <2> HIDE DEF archive
    <2>4. QED
      BY <1>1, <2>3, OwnerList
  <1>6. CASE req[s].kind = "record"
    <2>1. PICK a \in Told("archives"), u \in AtMostOne(Told("users")) :
            list = RecordRows(s, req[s].name, {a} \cup u)
      BY <1>6 DEF Asked
    <2> DEFINE refs == {a} \cup u
    <2>0. refs \in SUBSET OwnerRow
      BY <1>3 DEF AtMostOne, OwnerRow
    <2> DEFINE record == Row("records", req[s].name, s, refs)
    <2>2. record \in AnyRow
      BY <1>1, <2>0, RowTypes
    <2>3. record.table = "records" /\ record.by = s
      BY DEF Row
    <2>4. list = <<record>>
      BY <2>1 DEF RecordRows
    <2> HIDE DEF record, refs
    <2>5. list \in Seq(AnyRow) /\ Elements(list) = {record}
      BY <2>2, <2>4 DEF Elements
    <2>6. QED
      BY <2>3, <2>5 DEF ListOf, Complete, IsPlatform
  <1>7. QED
    BY <1>2, <1>4, <1>5, <1>6

(* What an instance inserts.                                               *)
LEMMA SeedList ==
  ASSUME NEW i \in Instances
  PROVE  /\ ListOf(i, SeedRows(i))
         /\ SeedRows(i) # <<>>
         /\ Ordered({}, SeedRows(i))
         /\ Row("clients", "internal-admin", i, {}) \in SeedSet(i)
         /\ \A r \in SeedSet(i) : IsPlatform(r) => r = PlatformAccount(i)
  <1> DEFINE admin == Row("clients", "internal-admin", i, {})
             processor == Row("clients", "processor-webhook", i, {})
             platform == PlatformAccount(i)
             archive == Row("archives", "National Census Archive", i, {})
             mark == Row("users", "mark", i, {})
             jane == Row("users", "jane", i, {})
             record == Row("records", "CENSUS-1880-004", i, {archive, mark})
             list == <<admin, processor, platform, archive, AccountOf(archive),
                       mark, AccountOf(mark), jane, AccountOf(jane), record>>
             set == {admin, processor, platform, archive, AccountOf(archive),
                     mark, AccountOf(mark), jane, AccountOf(jane), record}
  <1>1. i \in Actors
    BY DEF Actors
  <1>2. SeedRows(i) = list
    <2>1. /\ ArchiveRows(i, "National Census Archive", {})[1] = archive
          /\ ArchiveRows(i, "National Census Archive", {})[2] = AccountOf(archive)
      BY DEF ArchiveRows, AccountOf, Row
    <2>2. /\ UserRows(i, "mark")[1] = mark
          /\ UserRows(i, "mark")[2] = AccountOf(mark)
      BY DEF UserRows, AccountOf, Row
    <2>3. /\ UserRows(i, "jane")[1] = jane
          /\ UserRows(i, "jane")[2] = AccountOf(jane)
      BY DEF UserRows, AccountOf, Row
    <2>4. QED
      BY <2>1, <2>2, <2>3 DEF SeedRows
  <1>3. /\ archive \in ArchiveRow /\ mark \in UserRow /\ jane \in UserRow
        /\ admin \in AnyRow /\ processor \in AnyRow /\ platform \in AnyRow
    <2>1. {"internal-admin", "processor-webhook", "platform", "National Census Archive",
           "mark", "jane"} \subseteq Names
      BY DEF Names
    <2>2. QED
      BY <1>1, <2>1, RowTypes DEF PlatformAccount
  <1>4. record \in AnyRow
    <2>1. "CENSUS-1880-004" \in Names
      BY DEF Names
    <2>2. {archive, mark} \in SUBSET OwnerRow
      BY <1>3 DEF OwnerRow
    <2>3. QED
      BY <1>1, <2>1, <2>2, RowTypes
  <1>5. /\ archive \in OwnerRow /\ mark \in OwnerRow /\ jane \in OwnerRow
        /\ archive.by = i /\ mark.by = i /\ jane.by = i
    BY <1>3 DEF OwnerRow, Row
  <1>6. /\ AccountOf(archive) \in AnyRow /\ AccountOf(mark) \in AnyRow
        /\ AccountOf(jane) \in AnyRow
    BY <1>1, <1>5, OwnerBundle
  <1>7. /\ admin.table = "clients" /\ processor.table = "clients"
        /\ platform.table = "accounts" /\ platform.name = "platform" /\ platform.needs = {}
        /\ archive.table = "archives" /\ mark.table = "users" /\ jane.table = "users"
        /\ record.table = "records" /\ record.needs = {archive, mark}
        /\ admin.needs = {} /\ processor.needs = {} /\ archive.needs = {}
        /\ mark.needs = {} /\ jane.needs = {}
    BY DEF Row, PlatformAccount
  <1>8. \A r \in {archive, mark, jane} :
          /\ AccountOf(r).table = "accounts" /\ AccountOf(r).needs = {r}
          /\ AccountOf(r).name \in {"user", "archive"} /\ AccountOf(r).by = r.by
    BY DEF AccountOf, Row
  <1>9. admin.by = i /\ processor.by = i /\ platform.by = i /\ record.by = i
    BY DEF Row, PlatformAccount
  <1>10. archive \in AnyRow /\ mark \in AnyRow /\ jane \in AnyRow
    BY <1>5 DEF AnyRow
  <1> HIDE DEF admin, processor, platform, archive, mark, jane, record
  <1>11. list \in Seq(AnyRow) /\ DOMAIN list = 1 .. 10 /\ list # <<>>
    BY <1>3, <1>4, <1>6, <1>10
  <1>12. Elements(list) = set
    BY <1>11 DEF Elements
  <1>13. Complete(set)
    <2>1. \A r \in set : r.table \in {"users", "archives"} => r \in {archive, mark, jane}
      BY <1>7, <1>8
    <2>2. ASSUME NEW q \in set, NEW r \in OwnerRow, q.table = "accounts", q.needs = {r}
          PROVE  q = AccountOf(r)
      <3>1. q \in {AccountOf(archive), AccountOf(mark), AccountOf(jane)}
        BY <1>7, <2>2
      <3>2. PICK owner \in {archive, mark, jane} : q = AccountOf(owner)
        BY <3>1
      <3>3. owner = r
        BY <1>8, <2>2, <3>2
      <3>4. QED
        BY <3>2, <3>3
    <2>3. QED
      BY <2>1, <2>2 DEF Complete
  <1>14. Ordered({}, list)
    <2>1. ASSUME NEW n \in 1 .. 10
          PROVE  list[n].needs \subseteq {list[m] : m \in 1 .. n - 1}
      <3>1. CASE n \notin {5, 7, 9, 10}
        <4>1. list[n].needs = {}
          BY <1>7, <3>1
        <4>2. QED
          BY <4>1
      <3>2. CASE n = 5
        BY <1>8, <3>2
      <3>3. CASE n = 7
        BY <1>8, <3>3
      <3>4. CASE n = 9
        BY <1>8, <3>4
      <3>5. CASE n = 10
        <4>1. list[4] = archive /\ list[6] = mark /\ 4 \in 1 .. n - 1 /\ 6 \in 1 .. n - 1
          BY <3>5
        <4>2. list[n].needs = {archive, mark}
          BY <1>7, <3>5
        <4>3. QED
          BY <4>1, <4>2
      <3>6. QED
        BY <3>1, <3>2, <3>3, <3>4, <3>5
    <2>2. QED
      BY <1>11, <2>1 DEF Ordered
  <1>15. \A r \in set : IsPlatform(r) => r = platform
    BY <1>7, <1>8 DEF IsPlatform
  <1>16. \A r \in set : r.by = i
    BY <1>5, <1>8, <1>9
  <1> HIDE DEF list, set
  <1>17. QED
    BY <1>2, <1>16, <1>11, <1>12, <1>13, <1>14, <1>15 DEF ListOf, SeedSet, set, admin, platform

-----------------------------------------------------------------------------
(* Every action is one of four kinds of step.                              *)

SeededBy(i) == SeedSet(i) \subseteq rows

(* Actor a goes on without inserting: its session is empty or is rolled    *)
(* back.                                                                   *)
LEMMA StandStill ==
  ASSUME IInv, NEW a \in Actors, NEW step \in Steps, step # "insert",
         rows' = rows, Close(a), Go(a, step), req' \in [Sessions -> Requests \cup {None}],
         \A s \in Sessions \ {a} : req'[s] = req[s],
         step = "gate" => req'[a] \in Requests /\ req'[a].kind # "cardauth",
         (step = "serving" \/ (a \in Sessions /\ step # "idle"))
           => \E i \in Instances : SeededBy(i)
  PROVE  IInv'
  <1>1. /\ rows' = rows
        /\ draft' = [draft EXCEPT ![a] = {}]
        /\ todo' = [todo EXCEPT ![a] = <<>>]
        /\ pc' = [pc EXCEPT ![a] = step]
    BY DEF Close, Go
  <1>3. /\ draft'[a] = {} /\ todo'[a] = <<>> /\ pc'[a] = step
        /\ \A b \in Actors : b # a =>
             draft'[b] = draft[b] /\ todo'[b] = todo[b] /\ pc'[b] = pc[b]
    BY <1>1 DEF IInv, Typed
  <1>2. Typed'
    <2>1. ASSUME NEW s \in Sessions, pc'[s] = "gate"
          PROVE  req'[s] \in Requests /\ req'[s].kind # "cardauth"
      <3>1. CASE s = a
        BY <1>3, <2>1, <3>1
      <3>2. CASE s # a
        BY <1>3, <2>1, <3>2 DEF IInv, Typed, Actors
      <3>3. QED
        BY <3>1, <3>2
    <2>2. QED
      BY <1>1, <2>1 DEF IInv, Typed
  <1>4. Bundle(a)' = {}
    BY <1>3, ElementsEmpty DEF Bundle
  <1>5. \A b \in Actors : b # a => Bundle(b)' = Bundle(b)
    BY <1>3 DEF Bundle
  <1>6. Bundles'
    <2>1. SUFFICES ASSUME NEW b \in Actors
                   PROVE  /\ Complete(Bundle(b)')
                          /\ \A r \in Bundle(b)' : r.by = b /\ (IsPlatform(r) => b \in Instances)
                          /\ \A r \in draft'[b] : r.needs \subseteq rows' \cup draft'[b]
                          /\ pc'[b] # "insert" => draft'[b] = {} /\ todo'[b] = <<>>
      BY DEF Bundles, Complete, IsPlatform, AccountOf
    <2>2. CASE b = a
      BY <1>3, <1>4, <2>2 DEF Complete
    <2>3. CASE b # a
      BY <1>1, <1>3, <1>5, <2>3 DEF IInv, Bundles
    <2>4. QED
      BY <2>2, <2>3
  <1>7. Seeding'
    <2>1. SUFFICES ASSUME NEW i \in Instances, pc'[i] = "insert"
                   PROVE  Bundle(i)' = SeedSet(i) /\ Ordered(draft'[i], todo'[i])
      BY DEF Seeding, Ordered, SeedSet, Elements
    <2>2. i # a /\ i \in Actors
      BY <1>3, <2>1 DEF Actors
    <2>3. QED
      BY <1>3, <1>5, <2>1, <2>2 DEF IInv, Seeding
  <1>8. Committed'
    BY <1>1 DEF IInv, Committed
  <1>9. Unique'
    <2>1. Inserted' \subseteq Inserted
      BY <1>1, <1>3 DEF Inserted
    <2>2. QED
      BY <2>1 DEF IInv, Unique
  <1>10. SeededFirst'
    <2>1. SUFFICES ASSUME rows' # {} \/ Serving' # {} \/ \E s \in Sessions : pc'[s] # "idle"
                   PROVE  \E i \in Instances : SeededBy(i)
      BY <1>1 DEF SeededFirst, SeededBy
    <2>2. CASE rows' # {}
      BY <1>1, <2>2 DEF IInv, SeededFirst, SeededBy
    <2>3. CASE Serving' # {}
      <3>1. PICK i \in Instances : pc'[i] = "serving"
        BY <2>3 DEF Serving
      <3>2. CASE i = a
        BY <1>3, <3>1, <3>2
      <3>3. CASE i # a
        BY <1>3, <3>1, <3>3 DEF IInv, SeededFirst, SeededBy, Serving, Actors
      <3>4. QED
        BY <3>2, <3>3
    <2>4. CASE \E s \in Sessions : pc'[s] # "idle"
      <3>1. PICK s \in Sessions : pc'[s] # "idle"
        BY <2>4
      <3>2. CASE s = a
        BY <1>3, <3>1, <3>2
      <3>3. CASE s # a
        BY <1>3, <3>1, <3>3 DEF IInv, SeededFirst, SeededBy, Actors
      <3>4. QED
        BY <3>2, <3>3
    <2>5. QED
      BY <2>1, <2>2, <2>3, <2>4
  <1>11. QED
    BY <1>2, <1>6, <1>7, <1>8, <1>9, <1>10 DEF IInv

(* Actor a, whose session is empty, has a list to insert.                  *)
LEMMA StartInserting ==
  ASSUME IInv, NEW a \in Actors, pc[a] \in {"check", "gate"}, NEW list, ListOf(a, list),
         a \in Instances => list = SeedRows(a),
         todo' = [todo EXCEPT ![a] = list], Go(a, "insert"), UNCHANGED <<tables, req>>
  PROVE  IInv'
  <1>1. rows' = rows /\ draft' = draft /\ req' = req /\ pc' = [pc EXCEPT ![a] = "insert"]
    BY DEF tables, Go
  <1>2. /\ draft'[a] = {} /\ todo'[a] = list /\ pc'[a] = "insert"
        /\ \A b \in Actors : b # a =>
             draft'[b] = draft[b] /\ todo'[b] = todo[b] /\ pc'[b] = pc[b]
    BY <1>1 DEF IInv, Typed, Bundles
  <1>3. Typed'
    <2>1. list \in Seq(AnyRow)
      BY DEF ListOf
    <2>2. ASSUME NEW s \in Sessions, pc'[s] = "gate"
          PROVE  req'[s] \in Requests /\ req'[s].kind # "cardauth"
      BY <1>1, <1>2, <2>2 DEF IInv, Typed, Actors
    <2>3. "insert" \in Steps
      BY DEF Steps
    <2>4. QED
      BY <1>1, <2>1, <2>2, <2>3 DEF IInv, Typed
  <1>4. Bundle(a)' = Elements(list)
    BY <1>2 DEF Bundle, Elements
  <1>5. \A b \in Actors : b # a => Bundle(b)' = Bundle(b)
    BY <1>2 DEF Bundle
  <1>6. Bundles'
    <2>1. SUFFICES ASSUME NEW b \in Actors
                   PROVE  /\ Complete(Bundle(b)')
                          /\ \A r \in Bundle(b)' : r.by = b /\ (IsPlatform(r) => b \in Instances)
                          /\ \A r \in draft'[b] : r.needs \subseteq rows' \cup draft'[b]
                          /\ pc'[b] # "insert" => draft'[b] = {} /\ todo'[b] = <<>>
      BY DEF Bundles, Complete, IsPlatform, AccountOf
    <2>2. CASE b = a
      BY <1>2, <1>4, <2>2 DEF ListOf
    <2>3. CASE b # a
      BY <1>1, <1>2, <1>5, <2>3 DEF IInv, Bundles
    <2>4. QED
      BY <2>2, <2>3
  <1>7. Seeding'
    <2>1. SUFFICES ASSUME NEW i \in Instances, pc'[i] = "insert"
                   PROVE  Bundle(i)' = SeedSet(i) /\ Ordered(draft'[i], todo'[i])
      BY DEF Seeding, Ordered, SeedSet, Elements
    <2>2. CASE i = a
      BY <1>2, <1>4, <2>2, SeedList DEF SeedSet
    <2>3. CASE i # a
      <3>1. i \in Actors
        BY DEF Actors
      <3>2. QED
        BY <1>2, <1>5, <2>1, <2>3, <3>1 DEF IInv, Seeding
    <2>4. QED
      BY <2>2, <2>3
  <1>8. Committed' /\ Unique'
    BY <1>1 DEF IInv, Committed, Unique, Inserted
  <1>9. SeededFirst'
    <2>1. SUFFICES ASSUME rows' # {} \/ Serving' # {} \/ \E s \in Sessions : pc'[s] # "idle"
                   PROVE  \E i \in Instances : SeededBy(i)
      BY <1>1 DEF SeededFirst, SeededBy
    <2>2. CASE rows' # {}
      BY <1>1, <2>2 DEF IInv, SeededFirst, SeededBy
    <2>3. CASE Serving' # {}
      <3>1. PICK i \in Instances : pc'[i] = "serving"
        BY <2>3 DEF Serving
      <3>2. i # a /\ i \in Actors
        BY <1>2, <3>1 DEF Actors
      <3>3. i \in Serving
        BY <1>2, <3>1, <3>2 DEF Serving
      <3>4. QED
        BY <3>3 DEF IInv, SeededFirst, SeededBy
    <2>4. CASE \E s \in Sessions : pc'[s] # "idle"
      <3>1. PICK s \in Sessions : pc'[s] # "idle"
        BY <2>4
      <3>2. s \in Actors
        BY DEF Actors
      <3>3. pc[s] # "idle"
        BY <1>2, <3>1, <3>2
      <3>4. QED
        BY <3>3 DEF IInv, SeededFirst, SeededBy
    <2>5. QED
      BY <2>1, <2>2, <2>3, <2>4
  <1>10. QED
    BY <1>3, <1>6, <1>7, <1>8, <1>9 DEF IInv

LEMMA SameKeySymmetric ==
  ASSUME NEW r, NEW q, SameKey(r, q)
  PROVE  SameKey(q, r)
  BY DEF SameKey

(* Actor a inserts the next row of its list.                               *)
LEMMA InsertInv ==
  ASSUME IInv, NEW a \in Actors, Insert(a)
  PROVE  IInv'
  <1> DEFINE x == Head(todo[a])
  <1>1. /\ rows' = rows /\ pc' = pc /\ req' = req
        /\ draft' = [draft EXCEPT ![a] = @ \cup {x}]
        /\ todo' = [todo EXCEPT ![a] = Tail(@)]
        /\ pc[a] = "insert" /\ todo[a] # <<>> /\ ~ Waits(a) /\ ~ Fails(a)
    BY DEF Insert
  <1>2. todo[a] \in Seq(AnyRow) /\ draft[a] \in SUBSET AnyRow
    BY DEF IInv, Typed
  <1>3. /\ x \in AnyRow /\ Tail(todo[a]) \in Seq(AnyRow)
        /\ Elements(todo[a]) = {x} \cup Elements(Tail(todo[a]))
    BY <1>1, <1>2, ElementsOfTail
  <1>4. /\ draft'[a] = draft[a] \cup {x} /\ todo'[a] = Tail(todo[a])
        /\ \A b \in Actors : b # a => draft'[b] = draft[b] /\ todo'[b] = todo[b]
    BY <1>1 DEF IInv, Typed
  <1>5. x.needs \subseteq rows \cup draft[a] /\ ~ Taken(x)
    BY <1>1 DEF Fails, Dangling
  <1>6. x \in Bundle(a) /\ x.by = a
    BY <1>3 DEF IInv, Bundles, Bundle
  <1>7. \A b \in Actors : b # a => \A r \in draft[b] : ~ SameKey(r, x)
    BY <1>1 DEF Waits, Blockers
  <1>8. Typed'
    <2>1. draft' \in [Actors -> SUBSET AnyRow]
      BY <1>1, <1>2, <1>3 DEF IInv, Typed
    <2>2. todo' \in [Actors -> Seq(AnyRow)]
      BY <1>1, <1>3 DEF IInv, Typed
    <2>3. QED
      BY <1>1, <2>1, <2>2 DEF IInv, Typed
  <1>9. \A b \in Actors : Bundle(b)' = Bundle(b)
    <2>1. Bundle(a)' = draft'[a] \cup Elements(todo'[a])
      BY DEF Bundle, Elements
    <2>2. Bundle(a)' = Bundle(a)
      BY <1>3, <1>4, <2>1 DEF Bundle
    <2>3. \A b \in Actors : b # a => Bundle(b)' = Bundle(b)
      BY <1>4 DEF Bundle
    <2>4. QED
      BY <2>2, <2>3
  <1> HIDE DEF x
  <1>10. Bundles'
    <2>1. SUFFICES ASSUME NEW b \in Actors
                   PROVE  /\ Complete(Bundle(b)')
                          /\ \A r \in Bundle(b)' : r.by = b /\ (IsPlatform(r) => b \in Instances)
                          /\ \A r \in draft'[b] : r.needs \subseteq rows' \cup draft'[b]
                          /\ pc'[b] # "insert" => draft'[b] = {} /\ todo'[b] = <<>>
      BY DEF Bundles, Complete, IsPlatform, AccountOf
    <2>2. /\ Complete(Bundle(b))
          /\ \A r \in Bundle(b) : r.by = b /\ (IsPlatform(r) => b \in Instances)
          /\ \A r \in draft[b] : r.needs \subseteq rows \cup draft[b]
          /\ pc[b] # "insert" => draft[b] = {} /\ todo[b] = <<>>
      BY <2>1 DEF IInv, Bundles
    <2>3. CASE b = a
      <3>1. \A r \in draft'[a] : r.needs \subseteq rows' \cup draft'[a]
        BY <1>1, <1>4, <1>5, <2>2, <2>3
      <3>2. QED
        BY <1>1, <1>9, <2>2, <2>3, <3>1
    <2>4. CASE b # a
      <3>1. \A r \in draft'[b] : r.needs \subseteq rows' \cup draft'[b]
        BY <1>1, <1>4, <2>2, <2>4
      <3>2. QED
        BY <1>1, <1>4, <1>9, <2>2, <2>4, <3>1
    <2>5. QED
      BY <2>3, <2>4
  <1>11. Seeding'
    <2>1. SUFFICES ASSUME NEW i \in Instances, pc'[i] = "insert"
                   PROVE  Bundle(i)' = SeedSet(i) /\ Ordered(draft'[i], todo'[i])
      BY DEF Seeding, Ordered, SeedSet, Elements
    <2>2. i \in Actors /\ Bundle(i) = SeedSet(i) /\ Ordered(draft[i], todo[i])
      BY <1>1, <2>1 DEF IInv, Seeding, Actors
    <2>3. CASE i = a
      <3>1. Ordered(draft[a] \cup {x}, Tail(todo[a]))
        BY <1>1, <1>2, <2>2, <2>3, OrderedTail DEF x
      <3>2. QED
        BY <1>4, <1>9, <2>2, <2>3, <3>1
    <2>4. CASE i # a
      BY <1>4, <1>9, <2>2, <2>4
    <2>5. QED
      BY <2>3, <2>4
  <1>12. Committed'
    BY <1>1 DEF IInv, Committed
  <1>13. Unique'
    <2>1. Inserted' \subseteq Inserted \cup {x}
      BY <1>1, <1>4 DEF Inserted
    <2>2. \A r \in Inserted : SameKey(r, x) => r.by = x.by
      <3>1. SUFFICES ASSUME NEW r \in Inserted, SameKey(r, x) PROVE r.by = a
        BY <1>6
      <3>2. r \notin rows
        BY <1>5, <3>1 DEF Taken
      <3>3. PICK b \in Actors : r \in draft[b]
        BY <3>1, <3>2 DEF Inserted
      <3>4. b = a
        BY <1>7, <3>1, <3>3
      <3>5. QED
        BY <3>3, <3>4 DEF IInv, Bundles, Bundle
    <2>3. SUFFICES ASSUME NEW r \in Inserted \cup {x}, NEW q \in Inserted \cup {x},
                          SameKey(r, q)
                   PROVE  r.by = q.by
      BY <2>1 DEF Unique
    <2>4. CASE r = x /\ q = x
      BY <2>4
    <2>5. CASE r \in Inserted /\ q = x
      BY <2>2, <2>3, <2>5
    <2>6. CASE r = x /\ q \in Inserted
      BY <2>2, <2>3, <2>6, SameKeySymmetric
    <2>7. CASE r \in Inserted /\ q \in Inserted
      BY <2>3, <2>7 DEF IInv, Unique
    <2>8. QED
      BY <2>3, <2>4, <2>5, <2>6, <2>7
  <1>14. SeededFirst'
    BY <1>1 DEF IInv, SeededFirst, Serving
  <1>15. QED
    BY <1>8, <1>10, <1>11, <1>12, <1>13, <1>14 DEF IInv

(* Actor a commits all it had to insert.                                   *)
LEMMA CommitInv ==
  ASSUME IInv, NEW a \in Actors, pc[a] = "insert", todo[a] = <<>>, Commit(a),
         NEW step \in {"serving", "done"}, Go(a, step), req' = req
  PROVE  IInv'
  <1>1. /\ rows' = rows \cup draft[a]
        /\ draft' = [draft EXCEPT ![a] = {}]
        /\ todo' = [todo EXCEPT ![a] = <<>>]
        /\ pc' = [pc EXCEPT ![a] = step]
    BY DEF Commit, Close, Go
  <1>2. /\ draft'[a] = {} /\ todo'[a] = <<>> /\ pc'[a] = step
        /\ \A b \in Actors : b # a =>
             draft'[b] = draft[b] /\ todo'[b] = todo[b] /\ pc'[b] = pc[b]
    BY <1>1 DEF IInv, Typed
  <1>3. Bundle(a) = draft[a]
    BY ElementsEmpty DEF Bundle
  <1>4. /\ Complete(draft[a])
        /\ \A r \in draft[a] : r.by = a /\ (IsPlatform(r) => a \in Instances)
        /\ \A r \in draft[a] : r.needs \subseteq rows \cup draft[a]
    BY <1>3 DEF IInv, Bundles
  <1>5. a \in Instances => draft[a] = SeedSet(a)
    BY <1>3 DEF IInv, Seeding
  <1>6. Typed'
    <2>1. step \in Steps
      BY DEF Steps
    <2>2. rows' \subseteq AnyRow
      BY <1>1 DEF IInv, Typed
    <2>3. ASSUME NEW s \in Sessions, pc'[s] = "gate"
          PROVE  req'[s] \in Requests /\ req'[s].kind # "cardauth"
      <3>1. s # a /\ s \in Actors
        BY <1>2, <2>3 DEF Actors
      <3>2. QED
        BY <1>2, <2>3, <3>1 DEF IInv, Typed
    <2>4. QED
      BY <1>1, <2>1, <2>2, <2>3 DEF IInv, Typed
  <1>7. Bundle(a)' = {}
    BY <1>2, ElementsEmpty DEF Bundle
  <1>8. \A b \in Actors : b # a => Bundle(b)' = Bundle(b)
    BY <1>2 DEF Bundle
  <1>9. Bundles'
    <2>1. SUFFICES ASSUME NEW b \in Actors
                   PROVE  /\ Complete(Bundle(b)')
                          /\ \A r \in Bundle(b)' : r.by = b /\ (IsPlatform(r) => b \in Instances)
                          /\ \A r \in draft'[b] : r.needs \subseteq rows' \cup draft'[b]
                          /\ pc'[b] # "insert" => draft'[b] = {} /\ todo'[b] = <<>>
      BY DEF Bundles, Complete, IsPlatform, AccountOf
    <2>2. CASE b = a
      BY <1>2, <1>7, <2>2 DEF Complete
    <2>3. CASE b # a
      <3>1. /\ Complete(Bundle(b))
            /\ \A r \in Bundle(b) : r.by = b /\ (IsPlatform(r) => b \in Instances)
            /\ \A r \in draft[b] : r.needs \subseteq rows \cup draft[b]
            /\ pc[b] # "insert" => draft[b] = {} /\ todo[b] = <<>>
        BY <2>1 DEF IInv, Bundles
      <3>2. QED
        BY <1>1, <1>2, <1>8, <2>3, <3>1
    <2>4. QED
      BY <2>2, <2>3
  <1>10. Seeding'
    <2>1. SUFFICES ASSUME NEW i \in Instances, pc'[i] = "insert"
                   PROVE  Bundle(i)' = SeedSet(i) /\ Ordered(draft'[i], todo'[i])
      BY DEF Seeding, Ordered, SeedSet, Elements
    <2>2. i # a /\ i \in Actors
      BY <1>2, <2>1 DEF Actors
    <2>3. QED
      BY <1>2, <1>8, <2>1, <2>2 DEF IInv, Seeding
  <1>11. Committed'
    <2>1. Complete(rows \cup draft[a])
      BY <1>4 DEF IInv, Committed, Complete
    <2>2. \A r \in rows \cup draft[a] : r.needs \subseteq rows \cup draft[a]
      BY <1>4 DEF IInv, Committed
    <2>3. ASSUME NEW r \in rows \cup draft[a], IsPlatform(r)
          PROVE  /\ r.by \in Instances /\ r \in SeedSet(r.by)
                 /\ SeedSet(r.by) \subseteq rows \cup draft[a]
      <3>1. CASE r \in rows
        BY <2>3, <3>1 DEF IInv, Committed
      <3>2. CASE r \in draft[a]
        BY <1>4, <1>5, <2>3, <3>2
      <3>3. QED
        BY <2>3, <3>1, <3>2
    <2>4. QED
      BY <1>1, <2>1, <2>2, <2>3 DEF Committed, Complete, IsPlatform, SeedSet, Elements, AccountOf
  <1>12. Unique'
    <2>1. Inserted' \subseteq Inserted
      BY <1>1, <1>2 DEF Inserted
    <2>2. QED
      BY <2>1 DEF IInv, Unique
  <1>13. SeededFirst'
    <2>1. \E i \in Instances : SeededBy(i)'
      <3>1. CASE a \in Instances
        BY <1>1, <1>5, <3>1 DEF SeededBy
      <3>2. CASE a \in Sessions
        <4>1. pc[a] # "idle"
          OBVIOUS
        <4>2. \E i \in Instances : SeedSet(i) \subseteq rows
          BY <3>2, <4>1 DEF IInv, SeededFirst
        <4>3. QED
          BY <1>1, <4>2 DEF SeededBy
      <3>3. QED
        BY <3>1, <3>2 DEF Actors
    <2>2. QED
      BY <2>1 DEF SeededFirst, SeededBy
  <1>14. QED
    BY <1>6, <1>9, <1>10, <1>11, <1>12, <1>13 DEF IInv

-----------------------------------------------------------------------------
(* The actions.                                                            *)

(* Once anything is committed or served, or a request has arrived, the     *)
(* seed is there.                                                          *)
LEMMA Seeded ==
  ASSUME IInv, rows # {} \/ Serving # {} \/ \E s \in Sessions : pc[s] # "idle"
  PROVE  \E i \in Instances : SeededBy(i)
  BY DEF IInv, SeededFirst, SeededBy

(* A session that is not inserting holds nothing.                          *)
LEMMA IdleClosed ==
  ASSUME IInv, NEW a \in Actors, pc[a] # "insert", UNCHANGED <<draft, todo>>
  PROVE  Close(a)
  <1>1. draft[a] = {} /\ todo[a] = <<>>
    BY DEF IInv, Bundles
  <1>2. draft = [draft EXCEPT ![a] = {}] /\ todo = [todo EXCEPT ![a] = <<>>]
    BY <1>1 DEF IInv, Typed
  <1>3. QED
    BY <1>2 DEF Close

LEMMA BootInv ==
  ASSUME IInv, NEW i \in Instances, Boot(i)
  PROVE  IInv'
  <1>1. i \in Actors /\ pc[i] # "insert" /\ "check" \in Steps
    BY DEF Boot, Actors, Steps
  <1>2. rows' = rows /\ req' = req /\ Go(i, "check") /\ Close(i)
    BY <1>1, IdleClosed DEF Boot, tables
  <1>3. i \notin Sessions
    BY CatalogAssumption DEF CatalogAssumption
  <1>4. QED
    BY <1>1, <1>2, <1>3, StandStill DEF IInv, Typed

LEMMA CheckPlatformInv ==
  ASSUME IInv, NEW i \in Instances, CheckPlatform(i)
  PROVE  IInv'
  <1>1. i \in Actors /\ pc[i] = "check" /\ UNCHANGED <<tables, req>>
    BY DEF CheckPlatform, Actors
  <1>2. CASE \E r \in Of(rows, "accounts") : r.name = "platform"
    <2>1. rows # {} /\ Go(i, "serving") /\ UNCHANGED todo
      BY <1>2 DEF CheckPlatform, Of
    <2>2. \E j \in Instances : SeededBy(j)
      BY <2>1, Seeded
    <2>3. Close(i) /\ rows' = rows /\ "serving" \in Steps
      BY <1>1, <2>1, IdleClosed DEF tables, Steps
    <2>4. QED
      BY <1>1, <2>1, <2>2, <2>3, StandStill DEF IInv, Typed
  <1>3. CASE ~ \E r \in Of(rows, "accounts") : r.name = "platform"
    <2>1. Go(i, "insert") /\ todo' = [todo EXCEPT ![i] = SeedRows(i)]
      BY <1>3 DEF CheckPlatform
    <2>2. ListOf(i, SeedRows(i))
      BY SeedList
    <2>3. QED
      BY <1>1, <2>1, <2>2, StartInserting
  <1>4. QED
    BY <1>2, <1>3

LEMMA AlreadySeededInv ==
  ASSUME IInv, NEW i \in Instances, AlreadySeeded(i)
  PROVE  IInv'
  <1>1. /\ i \in Actors /\ pc[i] = "insert" /\ todo[i] # <<>> /\ Fails(i)
        /\ Close(i) /\ Go(i, "serving") /\ rows' = rows /\ req' = req /\ "serving" \in Steps
    BY DEF AlreadySeeded, Actors, Steps
  <1>2. Ordered(draft[i], todo[i]) /\ todo[i] \in Seq(AnyRow)
    BY <1>1 DEF IInv, Seeding, Typed
  <1>3. Head(todo[i]).needs \subseteq draft[i]
    BY <1>1, <1>2, OrderedTail
  <1>4. Taken(Head(todo[i]))
    BY <1>1, <1>3 DEF Fails, Dangling
  <1>5. \E j \in Instances : SeededBy(j)
    <2>1. rows # {}
      BY <1>4 DEF Taken
    <2>2. QED
      BY <2>1, Seeded
  <1>6. QED
    BY <1>1, <1>5, StandStill DEF IInv, Typed

LEMMA ArriveInv ==
  ASSUME IInv, NEW s \in Sessions, NEW r \in Requests, Arrive(s, r)
  PROVE  IInv'
  <1> DEFINE step == IF r.kind = "cardauth" THEN "pick" ELSE "gate"
  <1>1. /\ s \in Actors /\ pc[s] = "idle" /\ Serving # {} /\ rows' = rows
        /\ req' = [req EXCEPT ![s] = r] /\ Go(s, step) /\ UNCHANGED <<draft, todo>>
        /\ step \in Steps /\ step # "insert" /\ (step = "gate" => r.kind # "cardauth")
    BY DEF Arrive, Actors, Steps, tables
  <1>2. Close(s)
    BY <1>1, IdleClosed
  <1>3. \E i \in Instances : SeededBy(i)
    BY <1>1, Seeded
  <1>4. /\ req' \in [Sessions -> Requests \cup {None}] /\ req'[s] = r
        /\ \A t \in Sessions \ {s} : req'[t] = req[t]
    BY <1>1 DEF IInv, Typed
  <1> HIDE DEF step
  <1>5. QED
    BY <1>1, <1>2, <1>3, <1>4, StandStill

(* The steps of a request that end without a commit.                       *)
LEMMA SessionStill ==
  ASSUME IInv, NEW s \in Sessions, NEW step \in {"walk", "done", "lost"}, pc[s] # "idle",
         rows' = rows, req' = req, Close(s), Go(s, step)
  PROVE  IInv'
  <1>1. s \in Actors /\ step \in Steps /\ step # "insert" /\ step # "gate"
    BY DEF Actors, Steps
  <1>2. \E i \in Instances : SeededBy(i)
    BY Seeded
  <1>3. QED
    BY <1>1, <1>2, StandStill DEF IInv, Typed

LEMMA AdmitInv ==
  ASSUME IInv, NEW s \in Sessions, Admit(s)
  PROVE  IInv'
  <1>1. /\ s \in Actors /\ pc[s] = "gate" /\ Go(s, "insert") /\ UNCHANGED <<tables, req>>
        /\ req[s] \in Requests /\ req[s].kind \notin {"walk", "cardauth"}
    BY DEF Admit, Actors, IInv, Typed
  <1>2. PICK list \in Asked(s) : todo' = [todo EXCEPT ![s] = list]
    BY DEF Admit
  <1>3. ListOf(s, list)
    BY <1>1, <1>2, AskedLists DEF IInv
  <1>4. s \notin Instances
    BY CatalogAssumption DEF CatalogAssumption
  <1>5. QED
    BY <1>1, <1>2, <1>3, <1>4, StartInserting

LEMMA SessionInv ==
  ASSUME IInv, NEW s \in Sessions,
         Deny(s) \/ AdmitReader(s) \/ CommitRequest(s) \/ Violate(s)
           \/ PickResearcher(s) \/ ReadPage(s)
  PROVE  IInv'
  <1>1. s \in Actors
    BY DEF Actors
  <1>2. CASE Deny(s)
    <2>1. Close(s)
      BY <1>1, <1>2, IdleClosed DEF Deny, tables
    <2>2. QED
      BY <1>2, <2>1, SessionStill DEF Deny, tables
  <1>3. CASE AdmitReader(s)
    <2>1. Close(s)
      BY <1>1, <1>3, IdleClosed DEF AdmitReader, tables
    <2>2. QED
      BY <1>3, <2>1, SessionStill DEF AdmitReader, tables
  <1>4. CASE CommitRequest(s)
    BY <1>1, <1>4, CommitInv DEF CommitRequest
  <1>5. CASE Violate(s)
    BY <1>5, SessionStill DEF Violate
  <1>6. CASE PickResearcher(s)
    <2>1. Close(s)
      BY <1>1, <1>6, IdleClosed DEF PickResearcher, tables
    <2>2. QED
      BY <1>6, <2>1, SessionStill DEF PickResearcher, tables
  <1>7. CASE ReadPage(s)
    <2>1. Close(s)
      BY <1>1, <1>7, IdleClosed DEF ReadPage, tables
    <2>2. PICK step \in {"walk", "done"} : Go(s, step)
      BY <1>7 DEF ReadPage
    <2>3. QED
      BY <1>7, <2>1, <2>2, SessionStill DEF ReadPage, tables
  <1>8. QED
    BY <1>2, <1>3, <1>4, <1>5, <1>6, <1>7

LEMMA CrashInv ==
  ASSUME IInv, NEW a \in Actors, Crash(a)
  PROVE  IInv'
  <1>1. /\ rows' = rows /\ req' = req /\ Close(a) /\ Open(a)
        /\ Go(a, IF a \in Instances THEN "down" ELSE "lost")
    BY DEF Crash
  <1>2. CASE a \in Instances
    <2>1. Go(a, "down") /\ "down" \in Steps /\ a \notin Sessions
      BY <1>1, <1>2, CatalogAssumption DEF Steps, CatalogAssumption
    <2>2. QED
      BY <1>1, <2>1, StandStill DEF IInv, Typed
  <1>3. CASE a \notin Instances
    <2>1. a \in Sessions /\ Go(a, "lost") /\ pc[a] # "idle"
      BY <1>1, <1>3 DEF Actors, Open
    <2>2. QED
      BY <1>1, <2>1, SessionStill
  <1>4. QED
    BY <1>2, <1>3

-----------------------------------------------------------------------------

LEMMA InitInv == Init => IInv
  <1> SUFFICES ASSUME Init PROVE IInv
    OBVIOUS
  <1>1. /\ rows = {} /\ \A a \in Actors : draft[a] = {} /\ todo[a] = <<>> /\ pc[a] # "insert"
        /\ \A a \in Actors : pc[a] = IF a \in Instances THEN "down" ELSE "idle"
    BY DEF Init
  <1>2. \A s \in Sessions : pc[s] = "idle"
    BY <1>1, CatalogAssumption DEF CatalogAssumption, Actors
  <1>3. Typed
    <2>1. todo \in [Actors -> Seq(AnyRow)]
      BY DEF Init
    <2>2. pc \in [Actors -> Steps]
      BY DEF Init, Steps
    <2>3. QED
      BY <1>2, <2>1, <2>2 DEF Init, Typed
  <1>4. \A a \in Actors : Bundle(a) = {}
    BY <1>1, ElementsEmpty DEF Bundle
  <1>5. Bundles
    BY <1>1, <1>4 DEF Bundles, Complete
  <1>6. Seeding
    BY <1>1 DEF Seeding, Actors
  <1>7. Committed
    BY <1>1 DEF Committed, Complete
  <1>8. Unique
    BY <1>1 DEF Unique, Inserted
  <1>9. SeededFirst
    BY <1>1, <1>2 DEF SeededFirst, Serving, Actors
  <1>10. QED
    BY <1>3, <1>5, <1>6, <1>7, <1>8, <1>9 DEF IInv

LEMMA StepInv == IInv /\ [Next]_vars => IInv'
  <1> SUFFICES ASSUME IInv, [Next]_vars PROVE IInv'
    OBVIOUS
  <1>1. ASSUME NEW a \in Actors, Step(a) PROVE IInv'
    <2>1. CASE Insert(a)
      BY <1>1, <2>1, InsertInv
    <2>2. CASE a \in Instances /\ (CheckPlatform(a) \/ CommitSeed(a) \/ AlreadySeeded(a))
      <3>1. CASE CheckPlatform(a)
        BY <2>2, <3>1, CheckPlatformInv
      <3>2. CASE CommitSeed(a)
        BY <1>1, <3>2, CommitInv DEF CommitSeed
      <3>3. CASE AlreadySeeded(a)
        BY <2>2, <3>3, AlreadySeededInv
      <3>4. QED
        BY <2>2, <3>1, <3>2, <3>3
    <2>3. CASE a \in Sessions /\ Admit(a)
      BY <2>3, AdmitInv
    <2>4. CASE /\ a \in Sessions
               /\ Deny(a) \/ AdmitReader(a) \/ CommitRequest(a) \/ Violate(a)
                    \/ PickResearcher(a) \/ ReadPage(a)
      BY <2>4, SessionInv
    <2>5. QED
      BY <1>1, <2>1, <2>2, <2>3, <2>4 DEF Step
  <1>2. ASSUME NEW a \in Actors, Crash(a) PROVE IInv'
    BY <1>2, CrashInv
  <1>3. ASSUME NEW i \in Instances, Boot(i) PROVE IInv'
    BY <1>3, BootInv
  <1>4. ASSUME NEW s \in Sessions, NEW r \in Requests, Arrive(s, r) PROVE IInv'
    BY <1>4, ArriveInv
  <1>5. CASE UNCHANGED vars
    <2>1. rows' = rows /\ draft' = draft /\ todo' = todo /\ pc' = pc /\ req' = req
      BY <1>5 DEF vars, tables
    <2>2. \A a \in Actors : Bundle(a)' = Bundle(a)
      BY <2>1 DEF Bundle
    <2>3. Typed' /\ Unique' /\ SeededFirst'
      <3>1. Typed'
        BY <2>1 DEF IInv, Typed
      <3>2. Unique'
        BY <2>1 DEF IInv, Unique, Inserted
      <3>3. SeededFirst'
        BY <2>1 DEF IInv, SeededFirst, Serving
      <3>4. QED
        BY <3>1, <3>2, <3>3
    <2>4. Committed'
      BY <2>1 DEF IInv, Committed
    <2>5. Bundles'
      BY <2>1, <2>2 DEF IInv, Bundles
    <2>6. Seeding'
      BY <2>1, <2>2 DEF IInv, Seeding, Actors
    <2>7. QED
      BY <2>3, <2>4, <2>5, <2>6 DEF IInv
  <1>6. QED
    BY <1>1, <1>2, <1>3, <1>4, <1>5 DEF Next

LEMMA Invariance == Spec => []IInv
  BY InitInv, StepInv, PTL DEF Spec

-----------------------------------------------------------------------------

(* Every committed user and archive has exactly one ledger account, and    *)
(* what a row refers to is committed with it, whatever fails, crashes or   *)
(* runs at the same time.                                                  *)
THEOREM ProvisionedAlways == Spec => []Provisioned
  <1>1. IInv => Provisioned
    <2> SUFFICES ASSUME IInv PROVE Provisioned
      OBVIOUS
    <2>1. ASSUME NEW r \in Of(rows, "users") \cup Of(rows, "archives")
          PROVE  Cardinality(AccountsOf(r)) = 1
      <3>1. r \in rows /\ r.table \in {"users", "archives"}
        BY <2>1 DEF Of
      <3>2. r \in OwnerRow
        BY <3>1 DEF IInv, Typed, AnyRow, OwnerRow, Rows
      <3>3. AccountOf(r) \in rows
        BY <3>1 DEF IInv, Committed, Complete
      <3>4. AccountOf(r).table = "accounts" /\ AccountOf(r).needs = {r}
        BY DEF AccountOf, Row
      <3>5. \A q \in AccountsOf(r) : q = AccountOf(r)
        BY <3>2 DEF AccountsOf, Of, IInv, Committed, Complete
      <3>6. AccountOf(r) \in AccountsOf(r)
        BY <3>3, <3>4 DEF AccountsOf, Of
      <3>7. AccountsOf(r) = {AccountOf(r)}
        BY <3>5, <3>6
      <3>8. QED
        BY <3>7, FS_Singleton
    <2>2. QED
      BY <2>1 DEF Provisioned, IInv, Committed
  <1>2. QED
    BY <1>1, Invariance, PTL

(* There is never a second platform account, and an instance that serves   *)
(* finds the whole seed of one of the instances, however many start at     *)
(* once and whatever crashes.                                              *)
THEOREM SeededOnceAlways == Spec => []SeededOnce
  <1>1. IInv => SeededOnce
    <2> SUFFICES ASSUME IInv PROVE SeededOnce
      OBVIOUS
    <2> DEFINE platforms == {r \in Of(rows, "accounts") : r.name = "platform"}
    <2>1. \A r \in platforms :
            /\ r \in rows /\ r.by \in Instances
            /\ r = PlatformAccount(r.by) /\ SeedSet(r.by) \subseteq rows
      <3>1. SUFFICES ASSUME NEW r \in platforms
                     PROVE  /\ r \in rows /\ r.by \in Instances
                            /\ r = PlatformAccount(r.by) /\ SeedSet(r.by) \subseteq rows
        OBVIOUS
      <3>2. r \in rows /\ IsPlatform(r)
        BY <3>1 DEF Of, IsPlatform
      <3>3. r.by \in Instances /\ r \in SeedSet(r.by) /\ SeedSet(r.by) \subseteq rows
        BY <3>2 DEF IInv, Committed
      <3>4. QED
        BY <3>2, <3>3, SeedList
    <2>2. ASSUME NEW r \in platforms, NEW q \in platforms
          PROVE  r = q
      <3>1. /\ r.by \in Instances /\ q.by \in Instances
            /\ Row("clients", "internal-admin", r.by, {}) \in Inserted
            /\ Row("clients", "internal-admin", q.by, {}) \in Inserted
        BY <2>1, <2>2, SeedList DEF Inserted
      <3>2. SameKey(Row("clients", "internal-admin", r.by, {}),
                    Row("clients", "internal-admin", q.by, {}))
        BY DEF SameKey, Row
      <3>3. r.by = q.by
        <4>1. Row("clients", "internal-admin", r.by, {}).by
                = Row("clients", "internal-admin", q.by, {}).by
          BY <3>1, <3>2 DEF IInv, Unique
        <4>2. QED
          BY <4>1 DEF Row
      <3>4. QED
        BY <2>1, <2>2, <3>3
    <2>3. Cardinality(platforms) <= 1
      <3> HIDE DEF platforms
      <3>1. CASE platforms = {}
        <4>1. Cardinality(platforms) = 0
          BY <3>1, FS_EmptySet
        <4>2. QED
          BY <4>1
      <3>2. CASE platforms # {}
        <4>1. PICK r : platforms = {r}
          BY <2>2, <3>2
        <4>2. Cardinality(platforms) = 1
          BY <4>1, FS_Singleton
        <4>3. QED
          BY <4>2
      <3>3. QED
        BY <3>1, <3>2
    <2>4. Serving # {} => \E i \in Instances : SeedSet(i) \subseteq rows
      BY DEF IInv, SeededFirst
    <2>5. QED
      BY <2>3, <2>4 DEF SeededOnce, SeedSet, Elements
  <1>2. QED
    BY <1>1, Invariance, PTL

-----------------------------------------------------------------------------
(* Sessions never wait in a circle: whoever waits holds nothing, but for   *)
(* the one instance that seeds.                                            *)

First(i) == Row("clients", "internal-admin", i, {})

OwnAccount(row) == row.table = "accounts" /\ \E owner \in row.needs : row = AccountOf(owner)

(* A seed begins with the client that no second one may insert; after its  *)
(* first row a request inserts at most the account of what it inserted.    *)
FollowsAt(a) ==
  /\ a \in Instances =>
       /\ draft[a] # {} => First(a) \in draft[a]
       /\ (draft[a] = {} /\ todo[a] # <<>>) => Head(todo[a]) = First(a)
  /\ a \in Sessions =>
       \A n \in DOMAIN todo[a] : (n > 1 \/ draft[a] # {}) => OwnAccount(todo[a][n])

Follows == \A a \in Actors : FollowsAt(a)

LEMMA SeedHead ==
  ASSUME NEW i \in Instances
  PROVE  Head(SeedRows(i)) = First(i)
  BY DEF SeedRows, First

LEMMA AccountsAreOwn ==
  ASSUME NEW owner
  PROVE  OwnAccount(AccountOf(owner))
  <1>1. AccountOf(owner).table = "accounts" /\ AccountOf(owner).needs = {owner}
    BY DEF AccountOf, Row
  <1>2. QED
    BY <1>1 DEF OwnAccount

LEMMA AskedTail ==
  ASSUME Typed, NEW s \in Sessions, req[s] \in Requests, req[s].kind \notin {"walk", "cardauth"},
         NEW list \in Asked(s), NEW n \in DOMAIN list, n > 1
  PROVE  OwnAccount(list[n])
  <1>1. req[s].kind \in {"user", "archive", "record"}
    BY CatalogAssumption DEF CatalogAssumption
  <1>2. CASE req[s].kind = "user"
    <2> DEFINE user == Row("users", req[s].name, s, {})
    <2>1. list = <<user, AccountOf(user)>>
      BY <1>2 DEF Asked, UserRows, AccountOf, Row
    <2>2. n = 2 /\ list[2] = AccountOf(user)
      BY <2>1
    <2> HIDE DEF user
    <2>3. QED
      BY <2>2, AccountsAreOwn
  <1>3. CASE req[s].kind = "archive"
    <2>1. PICK refs \in AtMostOne(Told("users")) : list = ArchiveRows(s, req[s].name, refs)
      BY <1>3 DEF Asked
    <2> DEFINE archive == Row("archives", req[s].name, s, refs)
    <2>2. list = <<archive, AccountOf(archive)>>
      BY <2>1 DEF ArchiveRows, AccountOf, Row
    <2>3. n = 2 /\ list[2] = AccountOf(archive)
      BY <2>2
    <2> HIDE DEF archive
    <2>4. QED
      BY <2>3, AccountsAreOwn
  <1>4. CASE req[s].kind = "record"
    <2>0. PICK a \in Told("archives"), u \in AtMostOne(Told("users")) :
            list = RecordRows(s, req[s].name, {a} \cup u)
      BY <1>4 DEF Asked
    <2>1. PICK x : list = <<x>>
      BY <2>0 DEF RecordRows
    <2>2. QED
      BY <2>1
  <1>5. QED
    BY <1>1, <1>2, <1>3, <1>4

LEMMA FollowsInit == Init => Follows
  BY DEF Init, Follows, FollowsAt

(* What a step does to what sessions have inserted and will insert.        *)
Kept(a) == draft'[a] = draft[a] /\ todo'[a] = todo[a]

Closed(a) == draft'[a] = {} /\ todo'[a] = <<>>

Begun(a) ==
  /\ draft'[a] = draft[a]
  /\ pc[a] # "insert" /\ pc'[a] = "insert"
  /\ \/ a \in Instances /\ CheckPlatform(a) /\ todo'[a] = SeedRows(a)
     \/ a \in Sessions /\ Admit(a) /\ todo'[a] \in Asked(a)

Grown(a) ==
  /\ Insert(a)
  /\ draft'[a] = draft[a] \cup {Head(todo[a])}
  /\ todo'[a] = Tail(todo[a])

LEMMA StepEffect ==
  ASSUME Typed, [Next]_vars, NEW a \in Actors
  PROVE  Kept(a) \/ Closed(a) \/ Begun(a) \/ Grown(a)
  <1> USE DEF Typed
  <1>1. ASSUME NEW b \in Actors, Insert(b) PROVE Kept(a) \/ Grown(a)
    BY <1>1 DEF Insert, Kept, Grown
  <1>2. ASSUME NEW b \in Actors, Close(b) PROVE Kept(a) \/ Closed(a)
    BY <1>2 DEF Close, Kept, Closed
  <1>3. ASSUME NEW i \in Instances, CheckPlatform(i) PROVE Kept(a) \/ Begun(a)
    <2>1. i \in Actors /\ draft' = draft /\ pc[i] = "check"
      BY <1>3 DEF CheckPlatform, tables, Actors
    <2>2. CASE UNCHANGED todo
      BY <2>1, <2>2 DEF Kept
    <2>3. CASE Go(i, "insert") /\ todo' = [todo EXCEPT ![i] = SeedRows(i)]
      BY <1>3, <2>1, <2>3 DEF Kept, Begun, Go
    <2>4. QED
      BY <1>3, <2>2, <2>3 DEF CheckPlatform
  <1>4. ASSUME NEW s \in Sessions, Admit(s) PROVE Kept(a) \/ Begun(a)
    <2>1. s \in Actors /\ draft' = draft /\ pc[s] = "gate" /\ Go(s, "insert")
      BY <1>4 DEF Admit, tables, Actors
    <2>2. PICK list \in Asked(s) : todo' = [todo EXCEPT ![s] = list]
      BY <1>4 DEF Admit
    <2>3. QED
      BY <1>4, <2>1, <2>2 DEF Kept, Begun, Go
  <1>5. ASSUME draft' = draft, todo' = todo PROVE Kept(a)
    BY <1>5 DEF Kept
  <1>6. ASSUME NEW b \in Actors, Step(b) PROVE Kept(a) \/ Closed(a) \/ Begun(a) \/ Grown(a)
    BY <1>1, <1>2, <1>3, <1>4, <1>5, <1>6
    DEF Step, CommitSeed, AlreadySeeded, Deny, AdmitReader, CommitRequest, Violate,
        PickResearcher, ReadPage, Commit, tables
  <1>7. ASSUME NEW b \in Actors, Crash(b) PROVE Closed(a) \/ Kept(a)
    BY <1>2, <1>7 DEF Crash
  <1>8. QED
    BY <1>5, <1>6, <1>7 DEF Next, Boot, Arrive, vars, tables

LEMMA FollowsStep == IInv /\ Follows /\ [Next]_vars => Follows'
  <1> SUFFICES ASSUME IInv, Follows, [Next]_vars, NEW a \in Actors
               PROVE  FollowsAt(a)'
    BY DEF Follows
  <1>1. FollowsAt(a) /\ Typed /\ (pc[a] # "insert" => draft[a] = {} /\ todo[a] = <<>>)
    BY DEF Follows, IInv, Bundles
  <1>2. CASE Kept(a)
    BY <1>1, <1>2 DEF FollowsAt, Kept, OwnAccount, AccountOf, Row, First
  <1>3. CASE Closed(a)
    BY <1>3 DEF FollowsAt, Closed
  <1>4. CASE Begun(a)
    <2>1. draft'[a] = {}
      BY <1>1, <1>4 DEF Begun
    <2>2. CASE a \in Instances
      <3>1. a \notin Sessions /\ Head(todo'[a]) = First(a)
        BY <1>4, <2>2, SeedHead, CatalogAssumption DEF Begun, CatalogAssumption, Admit, CheckPlatform
      <3>2. QED
        BY <2>1, <3>1 DEF FollowsAt, First
    <2>3. CASE a \notin Instances
      <3>1. a \in Sessions /\ Admit(a) /\ todo'[a] \in Asked(a)
        BY <1>4, <2>3 DEF Begun
      <3>2. req[a] \in Requests /\ req[a].kind \notin {"walk", "cardauth"}
        BY <1>1, <3>1 DEF Admit, Typed
      <3>3. \A n \in DOMAIN todo'[a] : n > 1 => OwnAccount(todo'[a][n])
        BY <1>1, <3>1, <3>2, AskedTail
      <3>4. QED
        BY <2>1, <2>3, <3>3 DEF FollowsAt, OwnAccount, AccountOf, Row
    <2>4. QED
      BY <2>2, <2>3
  <1>5. CASE Grown(a)
    <2>1. todo[a] # <<>> /\ todo[a] \in Seq(AnyRow)
      BY <1>1, <1>5 DEF Grown, Insert, Typed
    <2>2. /\ DOMAIN todo[a] = 1 .. Len(todo[a]) /\ Len(todo[a]) \in Nat
          /\ DOMAIN Tail(todo[a]) = 1 .. Len(todo[a]) - 1
          /\ \A n \in 1 .. Len(todo[a]) - 1 : Tail(todo[a])[n] = todo[a][n + 1]
      BY <2>1
    <2>3. ASSUME NEW n \in DOMAIN Tail(todo[a]), a \in Sessions PROVE OwnAccount(Tail(todo[a])[n])
      <3>1. n + 1 \in DOMAIN todo[a] /\ n + 1 > 1
        BY <2>2
      <3>2. QED
        BY <1>1, <2>2, <2>3, <3>1 DEF FollowsAt
    <2>4. draft'[a] # {} /\ (a \in Instances => First(a) \in draft'[a])
      BY <1>1, <1>5, <2>1 DEF FollowsAt, Grown
    <2>5. QED
      BY <1>5, <2>3, <2>4 DEF FollowsAt, Grown, OwnAccount, AccountOf, Row, First
  <1>6. QED
    BY <1>2, <1>3, <1>4, <1>5, StepEffect DEF IInv

(* A session that waits after it has inserted something is a seed.         *)
LEMMA WaitersHoldNothing ==
  ASSUME IInv, Follows, NEW a \in Actors, draft[a] # {}, todo[a] # <<>>, Waits(a)
  PROVE  a \in Instances
  <1>1. SUFFICES ASSUME a \in Sessions PROVE FALSE
    BY DEF Actors
  <1> DEFINE row == Head(todo[a])
  <1>2. todo[a] \in Seq(AnyRow)
    BY DEF IInv, Typed
  <1>3. row = todo[a][1] /\ 1 \in DOMAIN todo[a] /\ row \in AnyRow
    BY <1>2
  <1>4. OwnAccount(row)
    BY <1>1, <1>3 DEF Follows, FollowsAt
  <1>5. row \in Bundle(a)
    BY <1>3 DEF Bundle, Elements
  <1>6. PICK b \in Actors \ {a}, r \in AnyRow : r \in draft[b] /\ SameKey(r, row)
    BY DEF Waits, Blockers, IInv, Typed
  <1> HIDE DEF row
  <1>7. PICK owner \in row.needs : row = AccountOf(owner)
    BY <1>4 DEF OwnAccount
  <1>8. owner \in OwnerRow
    BY <1>3, <1>4 DEF OwnAccount, AnyRow, OwnerRow, UserRow, ArchiveRow, Rows
  <1>9. r.table = "accounts" /\ r.needs = {owner}
    BY <1>4, <1>6, <1>7 DEF OwnAccount, SameKey, AccountOf, Row
  <1>10. r \in Bundle(b) /\ Complete(Bundle(b)) /\ r.by = b
    BY <1>6 DEF Bundle, IInv, Bundles
  <1>11. r = row
    BY <1>7, <1>8, <1>9, <1>10 DEF Complete
  <1>12. row.by = a
    BY <1>5 DEF IInv, Bundles
  <1>13. QED
    BY <1>6, <1>10, <1>11, <1>12

(* Whoever waits for a unique value waits for a session that is still      *)
(* open, and no set of sessions waits within itself, whatever they insert  *)
(* and however many instances seed at once (create_user, create_archive,   *)
(* create_record, seed).                                                   *)
THEOREM WaitsEndAlways == Spec => []WaitsEnd
  <1>1. IInv /\ Follows => WaitsEnd
    <2> SUFFICES ASSUME IInv, Follows PROVE WaitsEnd
      OBVIOUS
    <2> DEFINE Waiting(a) == pc[a] = "insert" /\ todo[a] # <<>> /\ Waits(a)
    <2>1. ASSUME NEW a \in Actors, NEW b \in Blockers(a) PROVE Open(b) /\ b \in Actors \ {a} /\ draft[b] # {}
      BY <2>1 DEF Blockers, Open, IInv, Bundles
    <2>2. ASSUME NEW circle \in SUBSET Actors, circle # {},
                 \A a \in circle : Waiting(a) /\ Blockers(a) \cap circle # {}
          PROVE  FALSE
      <3>1. PICK a \in circle : TRUE
        BY <2>2
      <3>2. PICK b \in circle : b \in Blockers(a)
        BY <2>2
      <3>3. PICK c \in circle : c \in Blockers(b)
        BY <2>2
      <3>4. /\ b \in Instances /\ draft[b] # {}
            /\ c \in Instances /\ draft[c] # {} /\ c # b
        BY <2>1, <2>2, <3>1, <3>2, <3>3, WaitersHoldNothing
      <3>5. First(b) \in Inserted /\ First(c) \in Inserted
        BY <3>4 DEF Follows, FollowsAt, Inserted, Actors
      <3>6. SameKey(First(b), First(c)) /\ First(b).by = b /\ First(c).by = c
        BY DEF First, Row, SameKey
      <3>7. QED
        BY <3>4, <3>5, <3>6 DEF IInv, Unique
    <2>3. QED
      BY <2>1, <2>2 DEF WaitsEnd
  <1>2. Init => Follows
    BY FollowsInit
  <1>3. IInv /\ Follows /\ [Next]_vars => Follows'
    BY FollowsStep
  <1>4. QED
    BY <1>1, <1>2, <1>3, Invariance, PTL DEF Spec

-----------------------------------------------------------------------------
(* Time.  The seed is the first that is committed and no user is older     *)
(* than its users; a request begins once, after that, and creates at most  *)
(* one user.  Hence two users with one created_at are those of the seed or *)
(* of different transactions.                                              *)

ClockOK ==
  /\ clock \in Nat \ {0}
  /\ began \in [Actors -> Nat]
  /\ \A a \in Actors : began[a] <= clock
  /\ \A s \in Sessions :
       /\ pc[s] \in {"idle", "gate"} => began[s] = 0
       /\ \A r \in rows \cup Bundle(s) :
            (r.by = s /\ r.table = "users") => began[s] # 0

FiniteOK == IsFiniteSet(rows) /\ \A a \in Actors : IsFiniteSet(draft[a])

OldestOK ==
  /\ \A i \in Instances : SeededBy(i) =>
       pc[i] = "serving" /\ \A s \in Sessions : began[s] # 0 => began[i] <= began[s]
  /\ \A r \in rows : r.by \in Instances => SeededBy(r.by) /\ r \in SeedSet(r.by)

OneUser ==
  \A s \in Sessions : \A r, q \in rows \cup Bundle(s) :
    (r.by = s /\ q.by = s /\ r.table = "users" /\ q.table = "users") => r = q

KindsOK ==
  \A s \in Sessions :
    /\ pc[s] = "pick" => req[s].kind = "cardauth"
    /\ pc[s] = "walk" => req[s].kind = "walk"
    /\ pc[s] = "insert" => req[s].kind # "cardauth"

Ages == ClockOK /\ FiniteOK /\ OldestOK /\ OneUser /\ KindsOK

-----------------------------------------------------------------------------
(* A walk.  What it has still to see of the users it knew comes after the  *)
(* pages it has read, because users are never removed and the only ones of *)
(* one transaction, those of the seed, are on its first page.  Users that  *)
(* tie with another transaction's are let off.                             *)

AllUsers == Of(rows, "users")

Earlier(u) == {q \in AllUsers \ {u} : MayPrecede(q, u)}

WalkAt(s) ==
  /\ known[s] \subseteq AllUsers
  /\ pc[s] \in {"idle", "gate"} => known[s] = {} /\ offset[s] = 0
  /\ offset[s] # 0 => \A u \in AllUsers : u.by \in Instances => u \in seen[s] \/ Tied(u)
  /\ pc[s] = "walk" =>
       \A u \in known[s] \ seen[s] : Tied(u) \/ Cardinality(Earlier(u)) >= offset[s]
  /\ pc[s] \notin {"walk", "lost"} => \A u \in known[s] \ seen[s] : Tied(u)

ReadersTyped ==
  /\ offset \in [Sessions -> Nat]
  /\ picked \in [Sessions -> UserRow \cup {None}]
  /\ seen \in [Sessions -> SUBSET UserRow]
  /\ known \in [Sessions -> SUBSET UserRow]

-----------------------------------------------------------------------------
(* Whoever does not act stays as it is.                                    *)

Acts(a) ==
  \/ Step(a)
  \/ Crash(a)
  \/ a \in Instances /\ Boot(a)
  \/ a \in Sessions /\ \E r \in Requests : Arrive(a, r)

Still(a) ==
  /\ pc'[a] = pc[a] /\ began'[a] = began[a] /\ Kept(a)
  /\ a \in Sessions => /\ req'[a] = req[a] /\ picked'[a] = picked[a]
                       /\ offset'[a] = offset[a] /\ seen'[a] = seen[a] /\ known'[a] = known[a]

LEMMA NextActs ==
  ASSUME [Next]_vars
  PROVE  UNCHANGED vars \/ \E a \in Actors : Acts(a)
  BY DEF Next, Acts, Actors

LEMMA OthersStill ==
  ASSUME Typed, ReadersTyped, ClockOK, NEW a \in Actors, Acts(a), NEW b \in Actors, b # a
  PROVE  Still(b)
  <1> USE DEF Typed, ReadersTyped, ClockOK, Still, Kept
  <1>1. ASSUME UNCHANGED reading
        PROVE  b \in Sessions => /\ picked'[b] = picked[b] /\ offset'[b] = offset[b]
                                 /\ seen'[b] = seen[b] /\ known'[b] = known[b]
    BY <1>1 DEF reading
  <1>2. ASSUME NEW step, Go(a, step) PROVE pc'[b] = pc[b]
    BY <1>2 DEF Go
  <1>3. ASSUME Close(a) PROVE Kept(b)
    BY <1>3 DEF Close
  <1>4. ASSUME Begin(a) PROVE began'[b] = began[b]
    BY <1>4 DEF Begin
  <1>5. CASE Insert(a)
    BY <1>1, <1>5 DEF Insert
  <1>6. CASE CheckPlatform(a)
    <2>1. pc'[b] = pc[b] /\ todo'[b] = todo[b]
      BY <1>2, <1>6 DEF CheckPlatform
    <2>2. QED
      BY <1>1, <1>4, <1>6, <2>1 DEF CheckPlatform, tables
  <1>7. CASE CommitSeed(a) \/ AlreadySeeded(a) \/ CommitRequest(a) \/ Violate(a)
    BY <1>1, <1>2, <1>3, <1>7 DEF CommitSeed, AlreadySeeded, CommitRequest, Violate, Commit
  <1>8. CASE Crash(a)
    BY <1>1, <1>2, <1>3, <1>8 DEF Crash
  <1>9. CASE Deny(a) \/ AdmitReader(a) \/ Boot(a)
    BY <1>1, <1>2, <1>9 DEF Deny, AdmitReader, Boot, tables
  <1>10. CASE Admit(a)
    <2>1. pc'[b] = pc[b] /\ todo'[b] = todo[b]
      BY <1>2, <1>10 DEF Admit
    <2>2. QED
      BY <1>1, <1>4, <1>10, <2>1 DEF Admit, tables
  <1>11. CASE \E r \in Requests : Arrive(a, r)
    <2>1. PICK r \in Requests : Arrive(a, r)
      BY <1>11
    <2>2. pc'[b] = pc[b] /\ (b \in Sessions => req'[b] = req[b])
      BY <1>2, <2>1 DEF Arrive
    <2>3. QED
      BY <1>1, <2>1, <2>2 DEF Arrive, tables
  <1>12. CASE PickResearcher(a)
    <2>1. pc'[b] = pc[b] /\ (b \in Sessions => picked'[b] = picked[b])
      BY <1>2, <1>12 DEF PickResearcher
    <2>2. QED
      BY <1>12, <2>1 DEF PickResearcher, tables
  <1>13. CASE ReadPage(a)
    <2>1. /\ pc'[b] = pc[b]
          /\ b \in Sessions => /\ offset'[b] = offset[b] /\ seen'[b] = seen[b]
                               /\ known'[b] = known[b]
      BY <1>2, <1>13 DEF ReadPage
    <2>2. QED
      BY <1>13, <2>1 DEF ReadPage, tables
  <1>14. QED
    BY <1>5, <1>6, <1>7, <1>8, <1>9, <1>10, <1>11, <1>12, <1>13 DEF Acts, Step

(* The tables change when a session commits, time when one begins.         *)
Committing(a) ==
  /\ \/ a \in Instances /\ CommitSeed(a)
     \/ a \in Sessions /\ CommitRequest(a)
  /\ pc[a] = "insert" /\ todo[a] = <<>>
  /\ rows' = rows \cup draft[a]
  /\ UNCHANGED <<began, clock, req, reading>>

LEMMA RowsAfter ==
  ASSUME NEW a, Acts(a)
  PROVE  rows' = rows \/ Committing(a)
  <1>1. CASE (CommitSeed(a) /\ a \in Instances) \/ (CommitRequest(a) /\ a \in Sessions)
    BY <1>1 DEF CommitSeed, CommitRequest, Commit, Committing
  <1>2. CASE \E r \in Requests : Arrive(a, r)
    BY <1>2 DEF Arrive, tables
  <1>3. CASE Insert(a) \/ AlreadySeeded(a) \/ Violate(a) \/ Crash(a)
    BY <1>3 DEF Insert, AlreadySeeded, Violate, Crash
  <1>4. CASE CheckPlatform(a) \/ Deny(a) \/ AdmitReader(a) \/ Admit(a) \/ Boot(a)
    BY <1>4 DEF CheckPlatform, Deny, AdmitReader, Admit, Boot, tables
  <1>5. CASE PickResearcher(a) \/ ReadPage(a)
    BY <1>5 DEF PickResearcher, ReadPage, tables
  <1>6. QED
    BY <1>1, <1>2, <1>3, <1>4, <1>5 DEF Acts, Step

LEMMA ClockAfter ==
  ASSUME NEW a, Acts(a)
  PROVE  \/ UNCHANGED <<began, clock>>
         \/ /\ Begin(a) /\ rows' = rows /\ draft' = draft
            /\ \/ a \in Instances /\ CheckPlatform(a) /\ pc[a] = "check"
               \/ a \in Sessions /\ Admit(a) /\ pc[a] = "gate"
  <1>1. CASE \/ a \in Instances /\ CheckPlatform(a)
             \/ a \in Sessions /\ Admit(a)
    BY <1>1 DEF CheckPlatform, Admit, tables
  <1>2. CASE \E r \in Requests : Arrive(a, r)
    BY <1>2 DEF Arrive
  <1>3. CASE \/ Insert(a) \/ AlreadySeeded(a) \/ Violate(a) \/ Crash(a) \/ CommitSeed(a)
             \/ CommitRequest(a)
    BY <1>3 DEF Insert, AlreadySeeded, Violate, Crash, CommitSeed, CommitRequest
  <1>4. CASE Deny(a) \/ AdmitReader(a) \/ Boot(a) \/ PickResearcher(a) \/ ReadPage(a)
    BY <1>4 DEF Deny, AdmitReader, Boot, PickResearcher, ReadPage
  <1>5. QED
    BY <1>1, <1>2, <1>3, <1>4 DEF Acts, Step

LEMMA ActsNext ==
  ASSUME NEW a \in Actors, Acts(a)
  PROVE  Next
  BY DEF Acts, Next, Actors

(* What a session has inserted or is to insert it had before, or it is     *)
(* what the request asks for.                                              *)
LEMMA BundleAfter ==
  ASSUME IInv, NEW a \in Actors, Acts(a), NEW s \in Sessions,
         NEW r \in (rows \cup Bundle(s))', r.by = s
  PROVE  \/ r \in rows \cup Bundle(s)
         \/ /\ Admit(s) /\ pc[s] = "gate" /\ req[s] \in Requests
            /\ todo'[s] \in Asked(s) /\ r \in Elements(todo'[s])
  <1>0. Typed /\ s \in Actors /\ s \notin Instances
    BY CatalogAssumption DEF IInv, Actors, CatalogAssumption
  <1>1. rows' \subseteq rows \cup draft[a] /\ \A x \in draft[a] : x.by = a
    BY RowsAfter DEF Committing, IInv, Bundles, Bundle
  <1>2. r \in rows' => r \in rows \cup Bundle(s)
    BY <1>1 DEF Bundle
  <1>3. CASE Begun(s)
    <2>1. Admit(s) /\ todo'[s] \in Asked(s) /\ draft'[s] = draft[s] /\ pc[s] = "gate"
      BY <1>0, <1>3 DEF Begun, Admit
    <2>2. r \in draft[s] \/ r \in rows' \/ r \in Elements(todo'[s])
      BY <2>1 DEF Bundle, Elements
    <2>3. req[s] \in Requests
      BY <1>0, <2>1 DEF Admit, Typed, IInv
    <2>4. QED
      BY <1>2, <2>1, <2>2, <2>3 DEF Bundle
  <1>4. CASE Kept(s) \/ Closed(s) \/ Grown(s)
    <2>1. CASE Kept(s)
      BY <1>2, <2>1 DEF Kept, Bundle, Elements
    <2>2. CASE Closed(s)
      BY <1>2, <2>2 DEF Closed, Bundle, Elements
    <2>3. CASE Grown(s)
      <3>1. todo[s] \in Seq(AnyRow) /\ todo[s] # <<>>
        BY <1>0, <2>3 DEF Grown, Insert, Typed
      <3>2. Elements(todo[s]) = {Head(todo[s])} \cup Elements(Tail(todo[s]))
        BY <3>1, ElementsOfTail
      <3>3. Bundle(s)' = (draft[s] \cup {Head(todo[s])}) \cup Elements(Tail(todo[s]))
        BY <2>3 DEF Grown, Bundle, Elements
      <3>4. QED
        BY <1>2, <3>2, <3>3 DEF Bundle
    <2>4. QED
      BY <1>4, <2>1, <2>2, <2>3
  <1>5. QED
    BY <1>0, <1>3, <1>4, ActsNext, StepEffect

(* A request asks for a user only if that is its kind, and for at most one.*)
LEMMA AskedUsers ==
  ASSUME Typed, NEW s \in Sessions, req[s] \in Requests, req[s].kind \notin {"walk", "cardauth"},
         NEW list \in Asked(s)
  PROVE  \A x, y \in Elements(list) :
           (x.table = "users" /\ y.table = "users") => x = y /\ req[s].kind = "user"
  <1>1. req[s].kind \in {"user", "archive", "record"}
    BY CatalogAssumption DEF CatalogAssumption
  <1>2. CASE req[s].kind = "user"
    BY <1>2 DEF Asked, UserRows, Row, Elements
  <1>3. CASE req[s].kind = "archive"
    <2>1. PICK refs \in AtMostOne(Told("users")) : list = ArchiveRows(s, req[s].name, refs)
      BY <1>3 DEF Asked
    <2>2. QED
      BY <2>1 DEF ArchiveRows, Row, Elements
  <1>4. CASE req[s].kind = "record"
    <2>1. PICK a \in Told("archives"), u \in AtMostOne(Told("users")) :
            list = RecordRows(s, req[s].name, {a} \cup u)
      BY <1>4 DEF Asked
    <2>2. QED
      BY <2>1 DEF RecordRows, Row, Elements
  <1>5. QED
    BY <1>1, <1>2, <1>3, <1>4

(* How a request gets to where it may begin, and to where it has begun.    *)
LEMMA SessionMoves ==
  ASSUME Typed, NEW s \in Sessions, Acts(s)
  PROVE  /\ pc'[s] = "idle" => pc[s] = "idle"
         /\ pc'[s] = "gate" => pc[s] \in {"idle", "gate"}
         /\ pc'[s] = "insert" => pc[s] = "insert" \/ Admit(s)
         /\ pc'[s] = "walk" => pc[s] = "walk" \/ AdmitReader(s)
         /\ pc'[s] = "pick" => \E r \in Requests : Arrive(s, r) /\ r.kind = "cardauth"
         /\ req'[s] # req[s] => \E r \in Requests : Arrive(s, r)
  <1> USE DEF Typed, Go
  <1>0. s \in Actors /\ s \notin Instances
    BY CatalogAssumption DEF CatalogAssumption, Actors
  <1>1. CASE \E r \in Requests : Arrive(s, r)
    BY <1>0, <1>1 DEF Arrive
  <1>2. CASE Insert(s)
    BY <1>0, <1>2 DEF Insert
  <1>3. CASE Deny(s) \/ AdmitReader(s) \/ Admit(s)
    BY <1>0, <1>3 DEF Deny, AdmitReader, Admit
  <1>4. CASE CommitRequest(s) \/ Violate(s) \/ Crash(s)
    BY <1>0, <1>4 DEF CommitRequest, Violate, Crash
  <1>5. CASE PickResearcher(s) \/ ReadPage(s)
    BY <1>0, <1>5 DEF PickResearcher, ReadPage
  <1>6. QED
    BY <1>0, <1>1, <1>2, <1>3, <1>4, <1>5 DEF Acts, Step

LEMMA ServingStays ==
  ASSUME Typed, NEW i \in Instances, pc[i] = "serving", Acts(i)
  PROVE  FALSE
  <1>1. i \notin Sessions /\ ~ Open(i)
    BY CatalogAssumption DEF CatalogAssumption, Open
  <1>2. QED
    BY <1>1 DEF Acts, Step, Insert, CheckPlatform, CommitSeed, AlreadySeeded, Crash, Boot

LEMMA ClockStep ==
  ASSUME IInv, ReadersTyped, Ages, NEW a \in Actors, Acts(a)
  PROVE  ClockOK'
  <1>0. ClockOK /\ Typed
    BY DEF Ages, IInv
  <1>1. /\ clock' \in Nat \ {0} /\ clock <= clock'
        /\ \/ UNCHANGED <<began, clock>>
           \/ /\ began' = [began EXCEPT ![a] = clock']
              /\ a \in Sessions => Admit(a)
    <2>1. CASE UNCHANGED <<began, clock>>
      BY <1>0, <2>1 DEF ClockOK
    <2>2. CASE Begin(a) /\ (a \in Sessions => Admit(a))
      BY <1>0, <2>2 DEF ClockOK, Begin
    <2>3. QED
      BY <2>1, <2>2, ClockAfter, CatalogAssumption DEF CatalogAssumption
  <1>2. \A b \in Actors : began'[b] = began[b] \/ (b = a /\ began'[b] = clock')
    BY <1>0, <1>1 DEF ClockOK
  <1>3. began' \in [Actors -> Nat] /\ \A b \in Actors : began'[b] <= clock'
    BY <1>0, <1>1, <1>2 DEF ClockOK
  <1>4. ASSUME NEW s \in Sessions, pc'[s] \in {"idle", "gate"} PROVE began'[s] = 0
    <2>0. s \in Actors
      BY DEF Actors
    <2>1. CASE s # a
      BY <1>0, <1>2, <1>4, <2>0, <2>1, OthersStill DEF Still, ClockOK
    <2>2. CASE s = a
      <3>1. pc[s] \in {"idle", "gate"} /\ ~ Admit(s)
        BY <1>0, <1>4, <2>0, <2>2, SessionMoves DEF Admit, Go, Typed
      <3>2. QED
        BY <1>0, <1>1, <2>2, <3>1 DEF ClockOK
    <2>3. QED
      BY <2>1, <2>2
  <1>5. ASSUME NEW s \in Sessions, NEW r \in (rows \cup Bundle(s))', r.by = s, r.table = "users"
        PROVE  began'[s] # 0
    <2>0. s \in Actors
      BY DEF Actors
    <2>1. CASE r \in rows \cup Bundle(s)
      BY <1>0, <1>1, <1>2, <1>5, <2>0, <2>1 DEF ClockOK
    <2>2. CASE /\ Admit(s) /\ pc[s] = "gate" /\ req[s] \in Requests
               /\ todo'[s] \in Asked(s) /\ r \in Elements(todo'[s])
      <3>1. req[s].kind \notin {"walk", "cardauth"}
        BY <1>0, <2>2 DEF Admit, Typed, IInv
      <3>2. req[s].kind = "user"
        BY <1>0, <1>5, <2>2, <3>1, AskedUsers
      <3>3. Begin(s)
        BY <2>2, <3>2 DEF Admit
      <3>4. QED
        BY <1>0, <1>1, <2>0, <3>3 DEF Begin, ClockOK
    <2>3. QED
      BY <1>5, <2>1, <2>2, BundleAfter
  <1>6. QED
    BY <1>1, <1>3, <1>4, <1>5 DEF ClockOK

LEMMA FiniteStep ==
  ASSUME Typed, FiniteOK, NEW a \in Actors, Acts(a)
  PROVE  FiniteOK'
  <1>1. IsFiniteSet(rows')
    <2>1. IsFiniteSet(rows \cup draft[a])
      BY FS_Union DEF FiniteOK
    <2>2. QED
      BY <2>1, RowsAfter DEF FiniteOK, Committing
  <1>2. ASSUME NEW b \in Actors PROVE IsFiniteSet(draft'[b])
    <2>1. IsFiniteSet(draft[b]) /\ IsFiniteSet({})
      BY FS_EmptySet DEF FiniteOK
    <2>2. IsFiniteSet(draft[b] \cup {Head(todo[b])})
      BY <2>1, FS_AddElement
    <2>3. Kept(b) \/ Closed(b) \/ Begun(b) \/ Grown(b)
      BY ActsNext, StepEffect
    <2>4. QED
      BY <2>1, <2>2, <2>3 DEF Kept, Closed, Begun, Grown
  <1>3. QED
    BY <1>1, <1>2 DEF FiniteOK

(* Whoever commits the seed is the first: no request has arrived.          *)
LEMMA CommitSeedFirst ==
  ASSUME IInv, Ages, NEW i \in Instances, pc[i] = "insert", todo[i] = <<>>
  PROVE  /\ draft[i] = SeedSet(i)
         /\ rows = {} /\ \A s \in Sessions : began[s] = 0
  <1>1. i \in Actors
    BY DEF Actors
  <1>2. draft[i] = SeedSet(i)
    BY ElementsEmpty DEF IInv, Seeding, Bundle
  <1>3. First(i) \in SeedSet(i)
    BY SeedList DEF First
  <1>4. ASSUME NEW j \in Instances, SeededBy(j) PROVE FALSE
    <2>1. pc[j] = "serving" /\ First(j) \in rows
      BY <1>4, SeedList DEF Ages, OldestOK, SeededBy, First
    <2>2. SameKey(First(i), First(j)) /\ First(i) \in Inserted /\ First(j) \in Inserted
      BY <1>1, <1>2, <1>3, <2>1 DEF SameKey, First, Row, Inserted
    <2>3. First(i).by = i /\ First(j).by = j
      BY DEF First, Row
    <2>4. i = j
      BY <2>2, <2>3 DEF IInv, Unique
    <2>5. QED
      BY <2>1, <2>4
  <1>5. rows = {} /\ \A s \in Sessions : pc[s] = "idle"
    BY <1>4, Seeded
  <1>6. QED
    BY <1>2, <1>5 DEF Ages, ClockOK

LEMMA OldestStep ==
  ASSUME IInv, ReadersTyped, Ages, NEW a \in Actors, Acts(a)
  PROVE  OldestOK'
  <1>0. ClockOK /\ Typed /\ OldestOK
    BY DEF Ages, IInv
  <1>1. \A b \in Actors \ {a} : pc'[b] = pc[b] /\ began'[b] = began[b]
    BY <1>0, OthersStill DEF Still
  <1>2. \A r \in draft[a] : r.by = a
    BY DEF IInv, Bundles, Bundle
  <1>3. rows \subseteq rows' /\ rows' \subseteq rows \cup draft[a]
    BY RowsAfter DEF Committing
  <1>4. ASSUME NEW i \in Instances, i = a, Committing(a)
        PROVE  /\ pc'[i] = "serving" /\ rows' = SeedSet(i)
               /\ \A s \in Sessions : began'[s] = 0
    <2>1. CommitSeed(i) /\ pc[i] = "insert" /\ todo[i] = <<>>
      BY <1>4, CatalogAssumption DEF Committing, CatalogAssumption
    <2>2. pc'[i] = "serving"
      BY <1>0, <1>4, <2>1 DEF CommitSeed, Go, Typed
    <2>3. QED
      BY <1>4, <2>1, <2>2, CommitSeedFirst DEF Committing
  <1>5. ASSUME NEW i \in Instances, SeedSet(i) \subseteq rows'
        PROVE  pc'[i] = "serving" /\ \A s \in Sessions : began'[s] # 0 => began'[i] <= began'[s]
    <2>0. i \in Actors /\ \A r \in SeedSet(i) : r.by = i
      BY SeedList DEF Actors, ListOf, SeedSet
    <2>1. CASE SeededBy(i)
      <3>1. pc[i] = "serving" /\ \A s \in Sessions : began[s] # 0 => began[i] <= began[s]
        BY <1>0, <2>1 DEF OldestOK
      <3>2. i # a
        BY <1>0, <3>1, ServingStays
      <3>3. pc'[i] = pc[i] /\ began'[i] = began[i]
        BY <1>1, <2>0, <3>2
      <3>4. ASSUME NEW s \in Sessions, began'[s] # 0 PROVE began[i] <= began'[s]
        <4>1. CASE began' = began
          BY <3>1, <3>4, <4>1
        <4>2. CASE s # a
          BY <1>1, <3>1, <3>4, <4>2 DEF Actors
        <4>3. CASE s = a /\ Begin(a)
          <5>1. began'[s] \in {clock, clock + 1}
            BY <1>0, <4>3 DEF Begin, ClockOK
          <5>2. began[i] \in Nat /\ clock \in Nat /\ began[i] <= clock
            BY <1>0, <2>0 DEF ClockOK
          <5>3. QED
            BY <5>1, <5>2
        <4>4. QED
          BY <4>1, <4>2, <4>3, ClockAfter
      <3>5. QED
        BY <3>1, <3>3, <3>4
    <2>2. CASE ~ SeededBy(i)
      <3>1. rows' # rows
        BY <1>5, <2>2 DEF SeededBy
      <3>2. Committing(a)
        BY <3>1, RowsAfter
      <3>3. i = a
        BY <1>2, <1>3, <1>5, <2>0, <2>2 DEF SeededBy
      <3>4. QED
        BY <1>4, <3>2, <3>3
    <2>3. QED
      BY <2>1, <2>2
  <1>6. ASSUME NEW r \in rows', r.by \in Instances
        PROVE  SeedSet(r.by) \subseteq rows' /\ r \in SeedSet(r.by)
    <2>1. CASE r \in rows
      BY <1>0, <1>3, <1>6, <2>1 DEF OldestOK, SeededBy
    <2>2. CASE r \notin rows
      <3>1. r.by = a /\ Committing(a)
        BY <1>2, <1>3, <2>2, RowsAfter
      <3>2. QED
        BY <1>4, <1>6, <3>1
    <2>3. QED
      BY <2>1, <2>2
  <1>7. QED
    BY <1>5, <1>6 DEF OldestOK, SeededBy, SeedSet, Elements, SeedRows, PlatformAccount,
       ArchiveRows, UserRows, Row

LEMMA OneUserStep ==
  ASSUME IInv, ReadersTyped, Ages, NEW a \in Actors, Acts(a)
  PROVE  OneUser'
  <1>0. ClockOK /\ Typed /\ OneUser
    BY DEF Ages, IInv
  <1>1. SUFFICES ASSUME NEW s \in Sessions,
                        NEW r \in (rows \cup Bundle(s))', NEW q \in (rows \cup Bundle(s))',
                        r.by = s, q.by = s, r.table = "users", q.table = "users"
                 PROVE  r = q
    BY DEF OneUser
  <1>2. CASE r \in rows \cup Bundle(s) /\ q \in rows \cup Bundle(s)
    BY <1>0, <1>1, <1>2 DEF OneUser
  <1>3. CASE Admit(s) /\ pc[s] = "gate" /\ req[s] \in Requests /\ todo'[s] \in Asked(s)
    <2>1. \A x \in rows \cup Bundle(s) : ~ (x.by = s /\ x.table = "users")
      BY <1>0, <1>3 DEF ClockOK
    <2>2. r \in Elements(todo'[s]) /\ q \in Elements(todo'[s])
      BY <1>1, <2>1, BundleAfter
    <2>3. req[s].kind \notin {"walk", "cardauth"}
      BY <1>0, <1>3 DEF Admit, Typed, IInv
    <2>4. QED
      BY <1>0, <1>1, <1>3, <2>2, <2>3, AskedUsers
  <1>4. QED
    BY <1>1, <1>2, <1>3, BundleAfter

LEMMA KindsStep ==
  ASSUME IInv, ReadersTyped, Ages, NEW a \in Actors, Acts(a)
  PROVE  KindsOK'
  <1>0. ClockOK /\ Typed /\ KindsOK
    BY DEF Ages, IInv
  <1>1. SUFFICES ASSUME NEW s \in Sessions
                 PROVE  /\ pc'[s] = "pick" => req'[s].kind = "cardauth"
                        /\ pc'[s] = "walk" => req'[s].kind = "walk"
                        /\ pc'[s] = "insert" => req'[s].kind # "cardauth"
    BY DEF KindsOK
  <1>2. CASE s # a
    <2>1. pc'[s] = pc[s] /\ req'[s] = req[s]
      BY <1>0, <1>2, OthersStill DEF Still, Actors
    <2>2. QED
      BY <1>0, <2>1 DEF KindsOK
  <1>3. CASE s = a
    <2>1. CASE req'[s] = req[s]
      <3>1. pc'[s] = "insert" => req'[s].kind # "cardauth"
        BY <1>0, <1>3, <2>1, SessionMoves DEF KindsOK, Admit, Typed
      <3>2. pc'[s] = "walk" => req'[s].kind = "walk"
        BY <1>0, <1>3, <2>1, SessionMoves DEF KindsOK, AdmitReader
      <3>3. pc'[s] = "pick" => req'[s].kind = "cardauth"
        BY <1>0, <1>3, SessionMoves DEF Arrive, Typed
      <3>4. QED
        BY <3>1, <3>2, <3>3
    <2>2. CASE \E r \in Requests : Arrive(s, r)
      <3>1. PICK r \in Requests : Arrive(s, r)
        BY <2>2
      <3>2. req'[s] = r /\ pc'[s] = IF r.kind = "cardauth" THEN "pick" ELSE "gate"
        BY <1>0, <3>1 DEF Arrive, Go, Typed, Actors
      <3>3. QED
        BY <3>2
    <2>3. QED
      BY <1>0, <1>3, <2>1, <2>2, SessionMoves
  <1>4. QED
    BY <1>2, <1>3

LEMMA AgesInit == Init => Ages
  <1> SUFFICES ASSUME Init PROVE Ages
    OBVIOUS
  <1>1. \A s \in Sessions : rows \cup Bundle(s) = {}
    BY ElementsEmpty DEF Init, Bundle, Actors
  <1>2. ClockOK
    BY <1>1, CatalogAssumption DEF Init, ClockOK, Actors, CatalogAssumption
  <1>3. FiniteOK
    BY FS_EmptySet DEF Init, FiniteOK
  <1>4. OldestOK
    <2>1. \A i \in Instances : SeedSet(i) # {}
      BY SeedList
    <2>2. QED
      BY <2>1 DEF Init, OldestOK, SeededBy
  <1>5. OneUser
    BY ElementsEmpty DEF Init, OneUser, Bundle, Actors
  <1>6. KindsOK
    BY CatalogAssumption DEF Init, KindsOK, Actors, CatalogAssumption
  <1>7. QED
    BY <1>2, <1>3, <1>4, <1>5, <1>6 DEF Ages

LEMMA AgesStep == IInv /\ ReadersTyped /\ Ages /\ [Next]_vars => Ages'
  <1> SUFFICES ASSUME IInv, ReadersTyped, Ages, [Next]_vars PROVE Ages'
    OBVIOUS
  <1>1. CASE UNCHANGED vars
    <2>1. /\ rows' = rows /\ draft' = draft /\ todo' = todo /\ pc' = pc /\ req' = req
          /\ began' = began /\ clock' = clock
      BY <1>1 DEF vars, tables
    <2>2. ClockOK' /\ FiniteOK' /\ KindsOK'
      BY <2>1 DEF Ages, ClockOK, FiniteOK, KindsOK, Bundle, Elements
    <2>3. OldestOK'
      BY <2>1 DEF Ages, OldestOK, SeededBy
    <2>4. OneUser'
      BY <2>1 DEF Ages, OneUser, Bundle, Elements
    <2>5. QED
      BY <2>2, <2>3, <2>4 DEF Ages
  <1>2. CASE \E a \in Actors : Acts(a)
    BY <1>2, ClockStep, FiniteStep, OldestStep, OneUserStep, KindsStep DEF Ages, IInv
  <1>3. QED
    BY <1>1, <1>2, NextActs

LEMMA UsersTyped ==
  ASSUME Typed
  PROVE  AllUsers \subseteq UserRow
  BY DEF Typed, AllUsers, Of, AnyRow, OwnerRow, UserRow, ArchiveRow, Rows

LEMMA ReadersStep ==
  ASSUME Typed, ReadersTyped, [Next]_vars
  PROVE  ReadersTyped'
  <1>1. CASE UNCHANGED reading
    BY <1>1 DEF ReadersTyped, reading, UserRow, Rows
  <1>2. ASSUME NEW s \in Sessions, PickResearcher(s) PROVE ReadersTyped'
    <2>1. PICK page \in Pages(Of(rows, "users"), 0, DefaultPage) :
            picked' = picked \/ \E u \in Researchers(page) : picked' = [picked EXCEPT ![s] = u]
      BY <1>2 DEF PickResearcher
    <2>2. Researchers(page) \subseteq UserRow
      BY UsersTyped DEF Pages, Researchers, AllUsers
    <2>3. picked' \in [Sessions -> UserRow \cup {None}]
      BY <2>1, <2>2 DEF ReadersTyped
    <2>4. QED
      BY <1>2, <2>3 DEF ReadersTyped, PickResearcher, UserRow, Rows
  <1>3. ASSUME NEW s \in Sessions, ReadPage(s) PROVE ReadersTyped'
    <2>1. PICK page \in Pages(Of(rows, "users"), offset[s], Limit) :
            seen' = [seen EXCEPT ![s] = @ \cup page]
      BY <1>3 DEF ReadPage
    <2>2. page \subseteq UserRow /\ Of(rows, "users") \subseteq UserRow
      BY UsersTyped DEF Pages, AllUsers
    <2>3. /\ seen' \in [Sessions -> SUBSET UserRow]
          /\ known' \in [Sessions -> SUBSET UserRow]
      BY <1>3, <2>1, <2>2 DEF ReadersTyped, ReadPage
    <2>4. offset' \in [Sessions -> Nat] /\ picked' = picked
      BY <1>3, CatalogAssumption DEF ReadersTyped, ReadPage, CatalogAssumption
    <2>5. QED
      BY <2>3, <2>4 DEF ReadersTyped, UserRow, Rows
  <1>4. ASSUME NEW a \in Actors, Step(a),
               ~ (a \in Sessions /\ (PickResearcher(a) \/ ReadPage(a)))
        PROVE  UNCHANGED reading
    BY <1>4 DEF Step, Insert, CheckPlatform, CommitSeed, AlreadySeeded, Deny, AdmitReader,
         Admit, CommitRequest, Violate
  <1>5. QED
    BY <1>1, <1>2, <1>3, <1>4 DEF Next, vars, Crash, Boot, Arrive

-----------------------------------------------------------------------------
(* The two users of the seed come first, in either order, and nobody       *)
(* before them.                                                            *)

Mark(i) == Row("users", "mark", i, {})
Jane(i) == Row("users", "jane", i, {})

LEMMA SeedUsers ==
  ASSUME NEW i \in Instances
  PROVE  /\ Mark(i) \in SeedSet(i) /\ Jane(i) \in SeedSet(i) /\ Mark(i) # Jane(i)
         /\ Jane(i) # None
         /\ \A r \in SeedSet(i) : r.table = "users" => r \in {Mark(i), Jane(i)}
  <1>1. /\ DOMAIN SeedRows(i) = 1 .. 10
        /\ SeedRows(i)[6] = Mark(i) /\ SeedRows(i)[8] = Jane(i)
    BY DEF SeedRows, UserRows, Mark, Jane, Row
  <1>2. Mark(i) \in SeedSet(i) /\ Jane(i) \in SeedSet(i)
    BY <1>1 DEF SeedSet, Elements
  <1>3. Mark(i) # Jane(i)
    BY DEF Mark, Jane, Row
  <1>4. ASSUME NEW n \in DOMAIN SeedRows(i), SeedRows(i)[n].table = "users" PROVE n \in {6, 8}
    <2>1. /\ SeedRows(i)[1].table = "clients" /\ SeedRows(i)[2].table = "clients"
          /\ SeedRows(i)[3].table = "accounts" /\ SeedRows(i)[4].table = "archives"
          /\ SeedRows(i)[5].table = "accounts" /\ SeedRows(i)[7].table = "accounts"
          /\ SeedRows(i)[9].table = "accounts" /\ SeedRows(i)[10].table = "records"
      BY DEF SeedRows, UserRows, ArchiveRows, PlatformAccount, Row
    <2>2. n \in 1 .. 10 /\ n \notin {1, 2, 3, 4, 5, 7, 9, 10}
      BY <1>1, <1>4, <2>1
    <2>3. QED
      BY <2>2
  <1>5. \A r \in SeedSet(i) : r.table = "users" => r \in {Mark(i), Jane(i)}
    BY <1>1, <1>4 DEF SeedSet, Elements
  <1>6. Jane(i) # None
    BY <1>1, SeedAssumption DEF SeedAssumption
  <1>7. QED
    BY <1>2, <1>3, <1>5, <1>6

LEMMA OneSeed ==
  ASSUME IInv, NEW i \in Instances, NEW j \in Instances, SeededBy(i), SeededBy(j)
  PROVE  i = j
  <1>1. First(i) \in Inserted /\ First(j) \in Inserted
    BY SeedList DEF SeededBy, First, Inserted
  <1>2. SameKey(First(i), First(j)) /\ First(i).by = i /\ First(j).by = j
    BY DEF SameKey, First, Row
  <1>3. QED
    BY <1>1, <1>2 DEF IInv, Unique

LEMMA UsersByAge ==
  ASSUME IInv, Ages, NEW i \in Instances, SeededBy(i)
  PROVE  /\ Mark(i) \in AllUsers /\ Jane(i) \in AllUsers
         /\ \A u \in AllUsers :
              \/ u \in {Mark(i), Jane(i)} /\ u.by = i
              \/ u.by \in Sessions /\ began[i] <= began[u.by]
         /\ \A u, v \in AllUsers : (u.by \in Sessions /\ v.by = u.by) => u = v
         /\ began[i] \in Nat /\ \A u \in AllUsers : began[u.by] \in Nat
  <1>1. /\ ClockOK /\ OldestOK /\ OneUser
        /\ \A u \in AllUsers : u \in rows /\ u.table = "users" /\ u.by \in Actors
    BY DEF Ages, AllUsers, Of, IInv, Typed, AnyRow, OwnerRow, UserRow, ArchiveRow, Rows
  <1>2. Mark(i) \in AllUsers /\ Jane(i) \in AllUsers /\ Mark(i).by = i /\ Jane(i).by = i
    <2>1. Mark(i).table = "users" /\ Jane(i).table = "users" /\ Mark(i).by = i /\ Jane(i).by = i
      BY DEF Mark, Jane, Row
    <2>2. QED
      BY <2>1, SeedUsers DEF AllUsers, Of, SeededBy
  <1>3. began[i] \in Nat /\ \A u \in AllUsers : began[u.by] \in Nat
    BY <1>1 DEF ClockOK, Actors
  <1>4. ASSUME NEW u \in AllUsers
        PROVE  \/ u \in {Mark(i), Jane(i)} /\ u.by = i
               \/ u.by \in Sessions /\ began[i] <= began[u.by]
    <2>1. CASE u.by \in Instances
      <3>1. SeededBy(u.by) /\ u \in SeedSet(u.by)
        BY <1>1, <2>1 DEF OldestOK
      <3>2. u.by = i
        BY <2>1, <3>1, OneSeed
      <3>3. QED
        BY <1>1, <3>1, <3>2, SeedUsers
    <2>2. CASE u.by \in Sessions
      <3>1. began[u.by] # 0
        BY <1>1, <2>2 DEF ClockOK
      <3>2. QED
        BY <1>1, <2>2, <3>1 DEF OldestOK
    <2>3. QED
      BY <1>1, <2>1, <2>2 DEF Actors
  <1>5. ASSUME NEW u \in AllUsers, NEW v \in AllUsers, u.by \in Sessions, v.by = u.by
        PROVE  u = v
    BY <1>1, <1>5 DEF OneUser
  <1>6. QED
    BY <1>2, <1>3, <1>4, <1>5

(* A user who does not tie and comes no later than the seed is of the seed.*)
LEMMA UntiedSeed ==
  ASSUME IInv, Ages, NEW i \in Instances, SeededBy(i), NEW u \in {Mark(i), Jane(i)}, ~ Tied(u),
         NEW r \in AllUsers, began[r.by] <= began[i]
  PROVE  r \in {Mark(i), Jane(i)}
  <1>1. SUFFICES ASSUME r \notin {Mark(i), Jane(i)} PROVE FALSE
    OBVIOUS
  <1>2. r.by \in Sessions /\ began[i] <= began[r.by]
    BY <1>1, UsersByAge
  <1>3. began[r.by] = began[i]
    BY <1>2, UsersByAge
  <1>4. u.by = i /\ i \notin Sessions
    BY CatalogAssumption DEF CatalogAssumption, Mark, Jane, Row
  <1>5. QED
    BY <1>2, <1>3, <1>4 DEF Tied, AllUsers

(* A first page of two rows or more shows both.                            *)
LEMMA FirstPage ==
  ASSUME IInv, Ages, NEW i \in Instances, SeededBy(i),
         NEW limit \in Nat, limit >= 2, NEW page \in Pages(AllUsers, 0, limit),
         NEW v \in {Mark(i), Jane(i)}, ~ Tied(v)
  PROVE  Mark(i) \in page /\ Jane(i) \in page
  <1>1. PICK before \in SUBSET (AllUsers \ page) :
          LET after == AllUsers \ (page \cup before) IN
          /\ Cardinality(before) = 0 \/ (Cardinality(before) < 0 /\ page \cup after = {})
          /\ Cardinality(page) = limit \/ (Cardinality(page) < limit /\ after = {})
          /\ \A r \in page, q \in after : MayPrecede(r, q)
    BY DEF Pages
  <1>2. page \subseteq AllUsers
    BY DEF Pages
  <1>3. before = {}
    <2>1. IsFiniteSet(AllUsers)
      BY FS_Subset DEF Ages, FiniteOK, AllUsers, Of
    <2>2. IsFiniteSet(before)
      BY <2>1, FS_Subset
    <2>3. Cardinality(before) \in Nat
      BY <2>2, FS_CardinalityType
    <2>4. QED
      BY <1>1, <2>2, <2>3, FS_EmptySet
  <1>4. ASSUME NEW u \in {Mark(i), Jane(i)}, NEW other, {u, other} = {Mark(i), Jane(i)}, u \notin page
        PROVE  FALSE
    <2>1. u \in AllUsers /\ u \in AllUsers \ (page \cup before) /\ u.by = i
      <3>1. u \in AllUsers
        BY <1>4, UsersByAge
      <3>2. u.by = i
        BY <1>4 DEF Mark, Jane, Row
      <3>3. QED
        BY <1>3, <1>4, <3>1, <3>2
    <2>2. Cardinality(page) = limit
      BY <1>1, <2>1
    <2>3. \A r \in page : began[r.by] <= began[i]
      BY <1>1, <2>1 DEF MayPrecede
    <2>4. page \subseteq {other}
      <3>1. ASSUME NEW r \in page PROVE r \in {Mark(i), Jane(i)}
        <4>1. r \in AllUsers /\ began[r.by] <= began[i]
          BY <1>2, <2>3
        <4>2. QED
          BY <4>1, UntiedSeed
      <3>2. QED
        BY <1>4, <3>1
    <2>5. Cardinality(page) <= 1
      <3>1. IsFiniteSet({other}) /\ Cardinality({other}) = 1
        BY FS_Singleton
      <3>2. QED
        BY <2>4, <3>1, FS_Subset
    <2>6. QED
      BY <2>2, <2>5
  <1>5. QED
    BY <1>4

(* Users stay, with their created_at; so do ties.                          *)
LEMMA UsersStay ==
  ASSUME IInv, ReadersTyped, Ages, NEW a \in Actors, Acts(a)
  PROVE  /\ AllUsers \subseteq AllUsers'
         /\ \A u \in AllUsers : began'[u.by] = began[u.by]
         /\ \A u \in AllUsers : Tied(u) => Tied(u)'
  <1>0. Typed /\ ClockOK /\ OldestOK
    BY DEF IInv, Ages
  <1>1. AllUsers \subseteq AllUsers'
    <2>1. rows \subseteq rows'
      BY RowsAfter DEF Committing
    <2>2. QED
      BY <2>1 DEF AllUsers, Of
  <1>2. \A u \in AllUsers : began'[u.by] = began[u.by]
    <2>1. CASE UNCHANGED <<began, clock>>
      BY <2>1
    <2>2. CASE /\ Begin(a)
               /\ (pc[a] = "check" /\ a \in Instances) \/ (pc[a] = "gate" /\ a \in Sessions)
      <3>1. \A u \in AllUsers : u.by # a
        <4>1. ASSUME NEW u \in AllUsers, u.by = a PROVE FALSE
          <5>1. u \in rows /\ u.table = "users"
            BY <4>1 DEF AllUsers, Of
          <5>2. CASE a \in Instances
            BY <1>0, <2>2, <4>1, <5>1, <5>2, CatalogAssumption DEF OldestOK, CatalogAssumption
          <5>3. CASE a \in Sessions
            BY <1>0, <2>2, <4>1, <5>1, <5>3, CatalogAssumption DEF ClockOK, CatalogAssumption
          <5>4. QED
            BY <5>2, <5>3 DEF Actors
        <4>2. QED
          BY <4>1
      <3>2. \A b \in Actors \ {a} : began'[b] = began[b]
        BY <1>0, OthersStill DEF Still
      <3>3. \A u \in AllUsers : u.by \in Actors
        BY <1>0, UsersTyped DEF UserRow, Rows
      <3>4. QED
        BY <3>1, <3>2, <3>3
    <2>3. QED
      BY <2>1, <2>2, ClockAfter
  <1>3. ASSUME NEW u \in AllUsers, Tied(u) PROVE Tied(u)'
    <2>1. PICK v \in AllUsers : v.by # u.by /\ began[v.by] = began[u.by]
      BY <1>3 DEF Tied, AllUsers
    <2>2. v \in AllUsers' /\ began'[v.by] = began'[u.by]
      BY <1>1, <1>2, <2>1
    <2>3. QED
      BY <2>1, <2>2 DEF Tied, AllUsers
  <1>4. QED
    BY <1>1, <1>2, <1>3

(* The default researcher, as DefaultIsSeeded has it.                      *)
DefaultOf(s) ==
  \E u \in AllUsers : u.name = "jane" /\ u.by \in Instances /\ (picked[s] = u \/ Tied(u))

LEMMA PicksJane ==
  ASSUME IInv, ReadersTyped, Ages, NEW s \in Sessions, PickResearcher(s)
  PROVE  DefaultOf(s)'
  <1>1. PICK i \in Instances : SeededBy(i)
    <2>1. pc[s] # "idle"
      BY DEF PickResearcher
    <2>2. QED
      BY <2>1, Seeded
  <1>2. PICK page \in Pages(AllUsers, 0, DefaultPage) :
          Researchers(page) # {} =>
            \E u \in Researchers(page) : /\ \A v \in Researchers(page) : MayPrecede(u, v)
                                         /\ picked' = [picked EXCEPT ![s] = u]
    BY DEF PickResearcher, AllUsers
  <1>3. DefaultPage \in Nat /\ DefaultPage >= 2
    BY CatalogAssumption, SeedAssumption DEF CatalogAssumption, SeedAssumption
  <1>4. /\ Jane(i) \in AllUsers /\ Jane(i).name = "jane" /\ Jane(i).by = i
        /\ AllUsers' = AllUsers /\ began' = began /\ (Tied(Jane(i)) => Tied(Jane(i))')
    BY <1>1, UsersByAge DEF PickResearcher, tables, AllUsers, Of, Jane, Row, Tied
  <1>5. CASE Tied(Jane(i))
    BY <1>4, <1>5 DEF DefaultOf
  <1>6. CASE ~ Tied(Jane(i))
    <2>1. Jane(i) \in page /\ page \subseteq AllUsers
      BY <1>1, <1>3, <1>6, FirstPage DEF Pages
    <2>2. Jane(i) \in Researchers(page) /\ Mark(i) \notin Researchers(page)
      BY <2>1, SeedAssumption DEF SeedAssumption, Researchers, Jane, Mark, Row
    <2>3. PICK u \in Researchers(page) :
            MayPrecede(u, Jane(i)) /\ picked' = [picked EXCEPT ![s] = u]
      BY <1>2, <2>2
    <2>4. u \in AllUsers /\ began[u.by] <= began[i]
      BY <2>1, <2>3 DEF Researchers, MayPrecede, Jane, Row
    <2>5. u \in {Mark(i), Jane(i)}
      BY <1>1, <1>6, <2>4, UntiedSeed
    <2>6. picked'[s] = Jane(i)
      BY <2>2, <2>3, <2>5 DEF ReadersTyped
    <2>7. QED
      BY <1>4, <2>6 DEF DefaultOf
  <1>7. QED
    BY <1>5, <1>6

(* What ends a request.                                                    *)
LEMMA SessionEnds ==
  ASSUME Typed, NEW s \in Sessions, Acts(s), ~ Crash(s), pc'[s] \notin {"idle", "gate", "insert", "pick", "walk"}
  PROVE  /\ pc'[s] = "done" /\ req'[s] = req[s]
         /\ \/ pc[s] \in {"gate", "insert"} /\ UNCHANGED reading
            \/ pc[s] = "pick" /\ PickResearcher(s)
            \/ pc[s] = "walk" /\ ReadPage(s)
  <1> USE DEF Typed, Go
  <1>0. s \in Actors /\ s \notin Instances
    BY CatalogAssumption DEF CatalogAssumption, Actors
  <1>1. CASE Insert(s) \/ AdmitReader(s) \/ Admit(s)
    BY <1>0, <1>1 DEF Insert, AdmitReader, Admit
  <1>2. CASE \E r \in Requests : Arrive(s, r)
    BY <1>0, <1>2 DEF Arrive
  <1>3. CASE Deny(s) \/ CommitRequest(s) \/ Violate(s)
    BY <1>0, <1>3 DEF Deny, CommitRequest, Violate
  <1>4. CASE PickResearcher(s)
    BY <1>0, <1>4 DEF PickResearcher
  <1>5. CASE ReadPage(s)
    BY <1>0, <1>5 DEF ReadPage
  <1>6. QED
    BY <1>0, <1>1, <1>2, <1>3, <1>4, <1>5 DEF Acts, Step

LEMMA DefaultStep ==
  IInv /\ ReadersTyped /\ Ages /\ DefaultIsSeeded /\ [Next]_vars => DefaultIsSeeded'
  <1> SUFFICES ASSUME IInv, ReadersTyped, Ages, DefaultIsSeeded, [Next]_vars,
                      NEW s \in Sessions, pc'[s] = "done", req'[s].kind = "cardauth"
               PROVE  DefaultOf(s)'
    BY DEF DefaultIsSeeded, DefaultOf, AllUsers
  <1>0. Typed /\ ClockOK /\ KindsOK /\ s \in Actors
    BY DEF IInv, Ages, Actors
  <1>1. (pc[s] = "done" /\ req[s].kind = "cardauth") => DefaultOf(s)
    BY DEF DefaultIsSeeded, DefaultOf, AllUsers
  <1>2. ASSUME NEW a \in Actors, Acts(a) PROVE DefaultOf(s)'
    <2>1. CASE a # s
      <3>1. pc[s] = "done" /\ req[s].kind = "cardauth" /\ picked'[s] = picked[s]
        BY <1>0, <1>2, <2>1, OthersStill DEF Still
      <3>2. PICK u \in AllUsers :
              u.name = "jane" /\ u.by \in Instances /\ (picked[s] = u \/ Tied(u))
        BY <1>1, <3>1 DEF DefaultOf
      <3>3. u \in AllUsers' /\ (Tied(u) => Tied(u)')
        BY <1>2, UsersStay
      <3>4. QED
        BY <3>1, <3>2, <3>3 DEF DefaultOf
    <2>2. CASE a = s
      <3>1. ~ Crash(s)
        BY <1>0, CatalogAssumption DEF Crash, Go, CatalogAssumption, Typed
      <3>2. /\ req'[s] = req[s]
            /\ pc[s] \in {"gate", "insert"} \/ pc[s] = "walk" \/ PickResearcher(s)
        BY <1>0, <1>2, <2>2, <3>1, SessionEnds
      <3>3. PickResearcher(s)
        BY <1>0, <3>2 DEF Typed, KindsOK
      <3>4. QED
        BY <3>3, PicksJane
    <2>3. QED
      BY <2>1, <2>2
  <1>3. CASE UNCHANGED vars
    <2>1. rows' = rows /\ began' = began /\ pc' = pc /\ req' = req /\ picked' = picked
      BY <1>3 DEF vars, tables, reading
    <2>2. QED
      BY <1>1, <2>1 DEF DefaultOf, AllUsers, Of, Tied
  <1>4. QED
    BY <1>2, <1>3, NextActs

LEMMA ReadersInit == Init => ReadersTyped
  BY DEF Init, ReadersTyped

LEMMA AgesAlways == Spec => [](IInv /\ ReadersTyped /\ Ages)
  <1>1. Init => ReadersTyped /\ Ages
    BY ReadersInit, AgesInit
  <1>2. IInv /\ ReadersTyped /\ Ages /\ [Next]_vars => (ReadersTyped /\ Ages)'
    BY ReadersStep, AgesStep DEF IInv
  <1>3. QED
    BY <1>1, <1>2, Invariance, PTL DEF Spec

(* A card authorization that names no user finds the researcher of the     *)
(* seed, whoever has registered since (handle_card_authorization), unless  *)
(* another user has the created_at of the seed.                            *)
THEOREM DefaultSeeded == Spec => []DefaultIsSeeded
  <1>1. Init => DefaultIsSeeded
    <2>1. ASSUME Init, NEW s \in Sessions PROVE pc[s] = "idle"
      BY <2>1, CatalogAssumption DEF Init, CatalogAssumption, Actors
    <2>2. QED
      BY <2>1 DEF DefaultIsSeeded
  <1>2. QED
    BY <1>1, AgesAlways, DefaultStep, PTL DEF Spec

-----------------------------------------------------------------------------
(* A walk.                                                                 *)

LEMMA WalkElsewhere ==
  ASSUME IInv, ReadersTyped, Ages, NEW s \in Sessions, WalkAt(s), NEW a \in Actors, Acts(a),
         ~ (a = s /\ ReadPage(s))
  PROVE  WalkAt(s)'
  <1>0. Typed /\ ClockOK /\ OldestOK /\ FiniteOK /\ s \in Actors
    BY DEF IInv, Ages, Actors
  <1>1. offset'[s] = offset[s] /\ seen'[s] = seen[s] /\ known'[s] = known[s]
    <2>1. CASE a # s
      BY <1>0, <2>1, OthersStill DEF Still
    <2>2. CASE a = s
      BY <1>0, <2>2 DEF Acts, Step, reading, Insert, CheckPlatform, CommitSeed, AlreadySeeded,
        Deny, AdmitReader, Admit, CommitRequest, Violate, PickResearcher, Crash, Boot, Arrive
    <2>3. QED
      BY <2>1, <2>2
  <1>2. /\ pc'[s] \in {"idle", "gate"} => pc[s] \in {"idle", "gate"}
        /\ pc'[s] = "walk" => pc[s] \in {"walk", "gate"}
        /\ pc'[s] \notin {"walk", "lost"} => pc[s] # "walk"
        /\ pc'[s] \notin {"walk", "lost"} => pc[s] # "lost"
    <2>1. CASE a # s
      BY <1>0, <2>1, OthersStill DEF Still
    <2>2. CASE a = s
      <3>1. /\ pc'[s] \in {"idle", "gate"} => pc[s] \in {"idle", "gate"}
            /\ pc'[s] = "walk" => pc[s] \in {"walk", "gate"}
        BY <1>0, <2>2, SessionMoves DEF AdmitReader
      <3>2. CASE pc[s] = "walk"
        <4>1. s \notin Instances
          BY CatalogAssumption DEF CatalogAssumption
        <4>2. Crash(s)
          BY <2>2, <3>2, <4>1 DEF Acts, Step, Insert, Deny, AdmitReader, Admit, CommitRequest,
            Violate, PickResearcher, Arrive
        <4>3. QED
          BY <1>0, <3>1, <4>1, <4>2 DEF Crash, Go, Typed
      <3>3. CASE pc[s] = "lost"
        BY <2>2, <3>3, CatalogAssumption DEF CatalogAssumption, Acts, Step, Insert, Deny,
          AdmitReader, Admit, CommitRequest, Violate, PickResearcher, ReadPage, Arrive, Crash, Open
      <3>4. QED
        BY <3>1, <3>2, <3>3
    <2>3. QED
      BY <2>1, <2>2
  <1>3. AllUsers \subseteq AllUsers' /\ IsFiniteSet(AllUsers')
    <2>1. rows \subseteq rows' /\ IsFiniteSet(rows')
      BY <1>0, RowsAfter, FiniteStep DEF Committing, FiniteOK
    <2>2. AllUsers' \subseteq rows'
      BY DEF AllUsers, Of
    <2>3. QED
      BY <2>1, <2>2, UsersStay, FS_Subset
  <1>4. \A u \in AllUsers : began'[u.by] = began[u.by] /\ (Tied(u) => Tied(u)')
    BY UsersStay
  <1>5. ASSUME NEW u \in AllUsers', u.by \in Instances, u \notin AllUsers PROVE offset[s] = 0
    <2>1. u \in rows' /\ u \notin rows
      BY <1>5 DEF AllUsers, Of
    <2>2. Committing(a) /\ u \in draft[a]
      BY <2>1, RowsAfter DEF Committing
    <2>3. u.by = a
      BY <2>2 DEF IInv, Bundles, Bundle
    <2>4. rows = {}
      BY <1>5, <2>2, <2>3, CommitSeedFirst DEF Committing
    <2>5. \A t \in Sessions : began[t] = 0
      BY <1>5, <2>2, <2>3, CommitSeedFirst DEF Committing
    <2>6. ~ \E i \in Instances : SeededBy(i)
      BY <2>4, SeedUsers DEF SeededBy
    <2>7. pc[s] = "idle"
      BY <2>6, Seeded
    <2>8. QED
      BY <2>7 DEF WalkAt
  <1>6. ASSUME NEW u \in AllUsers, IsFiniteSet(Earlier(u)')
        PROVE  /\ Cardinality(Earlier(u)) <= Cardinality(Earlier(u)')
               /\ Cardinality(Earlier(u)) \in Nat /\ Cardinality(Earlier(u)') \in Nat
    <2>1. Earlier(u) \subseteq Earlier(u)'
      BY <1>3, <1>4 DEF Earlier, MayPrecede
    <2>2. QED
      BY <1>6, <2>1, FS_Subset, FS_CardinalityType
  <1>7. \A u \in AllUsers : IsFiniteSet(Earlier(u)')
    BY <1>3, FS_Subset DEF Earlier
  <1>8. offset[s] \in Nat
    BY DEF ReadersTyped
  <1>9. pc'[s] = "walk" =>
          \A u \in known'[s] \ seen'[s] : Tied(u)' \/ Cardinality(Earlier(u)') >= offset'[s]
    <2>1. SUFFICES ASSUME pc'[s] = "walk", NEW u \in known[s] \ seen[s]
                   PROVE  Tied(u)' \/ Cardinality(Earlier(u)') >= offset[s]
      BY <1>1
    <2>2. u \in AllUsers
      BY DEF WalkAt
    <2>3. pc[s] = "walk"
      BY <1>2, <2>1 DEF WalkAt
    <2>4. Tied(u) \/ Cardinality(Earlier(u)) >= offset[s]
      BY <2>3 DEF WalkAt
    <2>5. QED
      BY <1>4, <1>6, <1>7, <1>8, <2>2, <2>4
  <1>10. known'[s] \subseteq AllUsers'
    BY <1>1, <1>3 DEF WalkAt
  <1>11. pc'[s] \in {"idle", "gate"} => known'[s] = {} /\ offset'[s] = 0
    BY <1>1, <1>2 DEF WalkAt
  <1>12. offset'[s] # 0 =>
           \A u \in AllUsers' : u.by \in Instances => u \in seen'[s] \/ Tied(u)'
    BY <1>1, <1>4, <1>5 DEF WalkAt
  <1>13. pc'[s] \notin {"walk", "lost"} => \A u \in known'[s] \ seen'[s] : Tied(u)'
    BY <1>1, <1>2, <1>4 DEF WalkAt
  <1>14. QED
    BY <1>9, <1>10, <1>11, <1>12, <1>13 DEF WalkAt

LEMMA WalkReads ==
  ASSUME IInv, ReadersTyped, Ages, NEW s \in Sessions, WalkAt(s), ReadPage(s), Limit >= 2
  PROVE  WalkAt(s)'
  <1> DEFINE o == offset[s]
  <1>0. Typed /\ ClockOK /\ s \in Actors /\ o \in Nat /\ Limit \in Nat
    BY CatalogAssumption DEF IInv, Ages, Actors, ReadersTyped, CatalogAssumption
  <1>1. PICK i \in Instances : SeededBy(i)
    <2>1. pc[s] # "idle"
      BY DEF ReadPage
    <2>2. QED
      BY <2>1, Seeded
  <1>2. PICK page \in Pages(AllUsers, o, Limit) :
          /\ seen' = [seen EXCEPT ![s] = @ \cup page]
          /\ Go(s, IF Cardinality(page) < Limit THEN "done" ELSE "walk")
    BY DEF ReadPage, AllUsers
  <1>3. /\ rows' = rows /\ began' = began /\ AllUsers' = AllUsers
        /\ \A u : Earlier(u)' = Earlier(u) /\ (Tied(u)' <=> Tied(u))
    BY DEF ReadPage, tables, AllUsers, Of, Earlier, MayPrecede, Tied
  <1>4. /\ seen'[s] = seen[s] \cup page /\ offset'[s] = o + Limit
        /\ known'[s] = IF o = 0 THEN AllUsers ELSE known[s]
        /\ pc'[s] = IF Cardinality(page) < Limit THEN "done" ELSE "walk"
        /\ pc[s] = "walk"
    BY <1>0, <1>2 DEF ReadPage, ReadersTyped, Go, Typed, AllUsers
  <1>5. PICK before \in SUBSET (AllUsers \ page) :
          LET after == AllUsers \ (page \cup before) IN
          /\ Cardinality(before) = o \/ (Cardinality(before) < o /\ page \cup after = {})
          /\ Cardinality(page) = Limit \/ (Cardinality(page) < Limit /\ after = {})
          /\ \A r \in before, q \in page \cup after : MayPrecede(r, q)
          /\ \A r \in page, q \in after : MayPrecede(r, q)
    BY <1>2 DEF Pages
  <1> DEFINE after == AllUsers \ (page \cup before)
  <1>6. /\ page \subseteq AllUsers /\ IsFiniteSet(AllUsers) /\ IsFiniteSet(page)
        /\ IsFiniteSet(before) /\ Cardinality(page) \in Nat /\ Cardinality(before) \in Nat
    <2>1. page \subseteq AllUsers /\ IsFiniteSet(AllUsers)
      BY <1>2, FS_Subset DEF Pages, Ages, FiniteOK, AllUsers, Of
    <2>2. IsFiniteSet(page) /\ IsFiniteSet(before)
      BY <2>1, FS_Subset
    <2>3. QED
      BY <2>1, <2>2, FS_CardinalityType
  <1> HIDE DEF o, after
  <1>7. ASSUME NEW u \in AllUsers, u.by \in Instances, ~ Tied(u) PROVE u \in seen'[s]
    <2>1. CASE o # 0
      BY <1>4, <1>7, <2>1 DEF WalkAt, o
    <2>2. CASE o = 0
      <3>1. u \in {Mark(i), Jane(i)}
        BY <1>1, <1>7, UsersByAge, CatalogAssumption DEF CatalogAssumption
      <3>2. u \in page
        BY <1>0, <1>1, <1>2, <1>7, <2>2, <3>1, FirstPage
      <3>3. QED
        BY <1>4, <3>2
    <2>3. QED
      BY <2>1, <2>2
  <1>8. known'[s] \subseteq AllUsers
    BY <1>4 DEF WalkAt
  <1>9. ASSUME NEW u \in before, u \in known'[s] \ seen'[s], ~ Tied(u) PROVE FALSE
    <2>1. o # 0 /\ Cardinality(before) <= o
      <3>1. before # {}
        BY <1>9
      <3>2. Cardinality(before) # 0
        BY <1>6, <3>1, FS_EmptySet
      <3>3. QED
        BY <1>0, <1>5, <1>6, <3>2 DEF o
    <2>2. u \in AllUsers /\ Cardinality(Earlier(u)) >= o
      BY <1>4, <1>9, <2>1 DEF WalkAt, o
    <2>3. u.by \in Sessions
      BY <1>1, <1>7, <1>9, <2>2, UsersByAge
    <2>4. Earlier(u) \subseteq before \ {u}
      <3>1. ASSUME NEW q \in Earlier(u), q \notin before PROVE FALSE
        <4>1. q \in AllUsers /\ q # u /\ began[q.by] <= began[u.by]
          BY DEF Earlier, MayPrecede
        <4>2. q \in page \cup after
          BY <3>1, <4>1 DEF after
        <4>3. began[u.by] <= began[q.by]
          BY <1>5, <4>2 DEF MayPrecede, after
        <4>4. began[u.by] \in Nat /\ began[q.by] \in Nat
          BY <1>1, <2>2, <4>1, UsersByAge
        <4>5. began[u.by] = began[q.by]
          BY <4>1, <4>3, <4>4
        <4>6. q.by = u.by
          BY <1>9, <4>1, <4>5 DEF Tied, AllUsers
        <4>7. QED
          BY <1>1, <2>2, <2>3, <4>1, <4>6, UsersByAge
      <3>2. QED
        BY <3>1 DEF Earlier
    <2>5. Cardinality(before \ {u}) = Cardinality(before) - 1 /\ IsFiniteSet(before \ {u})
      BY <1>6, FS_RemoveElement
    <2>6. Cardinality(Earlier(u)) <= Cardinality(before) - 1 /\ Cardinality(Earlier(u)) \in Nat
      BY <2>4, <2>5, FS_Subset, FS_CardinalityType
    <2>7. QED
      BY <1>0, <1>6, <2>1, <2>2, <2>6
  <1>10. ASSUME NEW u \in known'[s] \ seen'[s], ~ Tied(u)
         PROVE  Cardinality(page) = Limit /\ Cardinality(Earlier(u)) >= o + Limit
    <2>1. u \in AllUsers /\ u \notin page /\ u \notin before
      BY <1>4, <1>8, <1>9, <1>10
    <2>2. u \in after
      BY <2>1 DEF after
    <2>3. Cardinality(before) = o /\ Cardinality(page) = Limit
      BY <1>5, <2>2 DEF o, after
    <2>4. \A r \in before \cup page : MayPrecede(r, u)
      BY <1>5, <2>2 DEF after
    <2>5. before \cup page \subseteq Earlier(u)
      BY <1>6, <2>1, <2>4 DEF Earlier
    <2>6. before \cap page = {}
      OBVIOUS
    <2>7. IsFiniteSet(before \cup page) /\ Cardinality(before \cup page) = o + Limit
      <3>1. /\ IsFiniteSet(before \cup page)
            /\ Cardinality(before \cup page) = Cardinality(before) + Cardinality(page)
        <4>1. IsFiniteSet(before) /\ IsFiniteSet(page)
          BY <1>6
        <4>2. /\ IsFiniteSet(before \cup page)
              /\ Cardinality(before \cup page)
                   = Cardinality(before) + Cardinality(page) - Cardinality(before \cap page)
          BY <4>1, FS_Union, Zenon
        <4>3. Cardinality(before \cap page) = 0
          BY <2>6, FS_EmptySet
        <4>4. QED
          BY <1>6, <4>2, <4>3
      <3>2. QED
        BY <2>3, <3>1
    <2>8. IsFiniteSet(Earlier(u))
      BY <1>6, FS_Subset DEF Earlier
    <2>9. QED
      BY <1>0, <2>3, <2>5, <2>7, <2>8, FS_Subset, FS_CardinalityType
  <1>11. known'[s] \subseteq AllUsers' /\ pc'[s] \notin {"idle", "gate"}
    BY <1>3, <1>4, <1>8
  <1>12. \A u \in AllUsers' : u.by \in Instances => u \in seen'[s] \/ Tied(u)'
    BY <1>3, <1>7
  <1>13. pc'[s] = "walk" =>
           \A u \in known'[s] \ seen'[s] : Tied(u)' \/ Cardinality(Earlier(u)') >= offset'[s]
    BY <1>3, <1>4, <1>10
  <1>14. pc'[s] \notin {"walk", "lost"} => \A u \in known'[s] \ seen'[s] : Tied(u)'
    <2>1. SUFFICES ASSUME pc'[s] # "walk", NEW u \in known'[s] \ seen'[s], ~ Tied(u) PROVE FALSE
      BY <1>3
    <2>2. Cardinality(page) < Limit
      BY <1>4, <2>1
    <2>3. Cardinality(page) = Limit
      BY <1>10, <2>1
    <2>4. QED
      BY <1>0, <1>6, <2>2, <2>3
  <1>15. QED
    BY <1>11, <1>12, <1>13, <1>14 DEF WalkAt

Walks == \A s \in Sessions : WalkAt(s)

LEMMA WalksStep ==
  Limit >= 2 /\ IInv /\ ReadersTyped /\ Ages /\ Walks /\ [Next]_vars => Walks'
  <1> SUFFICES ASSUME Limit >= 2, IInv, ReadersTyped, Ages, Walks, [Next]_vars, NEW s \in Sessions
               PROVE  WalkAt(s)'
    BY DEF Walks
  <1>1. CASE UNCHANGED vars
    <2>1. /\ rows' = rows /\ began' = began /\ pc' = pc /\ offset' = offset /\ seen' = seen
          /\ known' = known
      BY <1>1 DEF vars, tables, reading
    <2>2. AllUsers' = AllUsers /\ \A u : Earlier(u)' = Earlier(u) /\ (Tied(u)' <=> Tied(u))
      BY <2>1 DEF AllUsers, Of, Earlier, MayPrecede, Tied
    <2>3. QED
      BY <2>1, <2>2 DEF Walks, WalkAt
  <1>2. CASE \E a \in Actors : Acts(a)
    BY <1>2, WalkElsewhere, WalkReads DEF Walks
  <1>3. QED
    BY <1>1, <1>2, NextActs

(* A walk through GET /users misses nobody who was there when it began     *)
(* (list_all) but users with the created_at of another transaction's: the  *)
(* order of equal ones may change from page to page.  So it may for the    *)
(* two users of the seed, whence pages of two users or more.               *)
THEOREM WalkComplete ==
  ASSUME Limit >= 2
  PROVE  Spec => []WalkMissesNobody
  <1>1. Init => Walks
    <2>1. ASSUME Init, NEW s \in Sessions
          PROVE  pc[s] = "idle" /\ known[s] = {} /\ offset[s] = 0
      BY <2>1, CatalogAssumption DEF Init, CatalogAssumption, Actors
    <2>2. QED
      BY <2>1 DEF Walks, WalkAt
  <1>2. Spec => []Walks
    BY <1>1, AgesAlways, WalksStep, PTL DEF Spec
  <1>3. Walks => WalkMissesNobody
    BY DEF Walks, WalkAt, WalkMissesNobody
  <1>4. QED
    BY <1>2, <1>3, PTL
=============================================================================
