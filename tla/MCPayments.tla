----------------------------- MODULE MCPayments -----------------------------
(***************************************************************************)
(* Small instances of Payments: a catalogue of two records and two         *)
(* researchers who also transcribe for each other, and the mixes of        *)
(* requests that the runs serve.                                           *)
(***************************************************************************)
EXTENDS PaymentsRefinement

CONSTANTS s1, s2, s3, s4

\* Ada buys deeds (transcribed by Bo), Bo buys maps (transcribed by Ada); Cy
\* has no ledger account, and nobody is assigned to the letters.
MCRecords  == {"deeds", "maps", "letters"}
MCUsers    == {"ada", "bo", "cy"}
MCAccounts == {"ada", "bo", "archive", "platform"}

MCUserAccount    == [u \in MCUsers |-> IF u = "cy" THEN None ELSE u]
MCArchiveAccount == [r \in MCRecords |-> "archive"]
MCScribeAccount  == [r \in MCRecords |-> CASE r = "deeds" -> "bo" [] r = "maps" -> "ada"
                                             [] r = "letters" -> None]

(* 10 cents split into 7, 2 and 1; 5 cents into 4 and 1; letters are free. *)
MCPrice == [r \in MCRecords |-> CASE r = "deeds" -> 10 [] r = "maps" -> 5
                                    [] r = "letters" -> 0]

MCBps == [p \in Party |-> CASE p = "archive" -> 7000
                            [] p = "transcriptionist" -> 2000
                            [] p = "platform" -> 1000]

MCRefs  == {"ref1", "ref2"}

Buy(k, r, u) == [kind |-> "purchase", key |-> k, record |-> r, user |-> u]
CardAuth(r, u, cents) ==
  [kind |-> "cardauth", record |-> r, user |-> u, amount |-> cents]
OnAuth(kind, e, ref) == [kind |-> kind, event |-> e, ref |-> ref]
Settle(e, refs) == [kind |-> "settled", event |-> e, refs |-> refs]
Refund(a) == [kind |-> "refund", auth |-> a]

Term(r, u, cents) == [record |-> r, user |-> u, amount |-> cents]

-----------------------------------------------------------------------------
(* The amount of one cent goes to the archive alone: two ledger rows.      *)
MCTerms == [ref \in MCRefs |-> IF ref = "ref1" THEN Term("deeds", "ada", 10)
                                               ELSE Term("maps", "bo", 5)]
CentTerms == [ref \in MCRefs |-> IF ref = "ref1" THEN Term("deeds", "ada", 1)
                                                 ELSE Term("letters", "bo", 5)]
BadTerms  == [ref \in MCRefs |-> IF ref = "ref1" THEN Term("deeds", "ada", 10)
                                                 ELSE Term(None, "bo", 5)]

(* After a purchase for 10 cents the archive, paid 7 more for the first of *)
(* these, goes over a limit of 15 at the second.                           *)
ProcessorTerms == [ref \in MCRefs |-> IF ref = "ref1" THEN Term("maps", "bo", 10)
                                                      ELSE Term("letters", "ada", 5)]

NoPast       == [ref \in MCRefs |-> "absent"]
SecondHeld   == [ref \in MCRefs |-> IF ref = "ref1" THEN "absent" ELSE "authorized"]
FirstPending == [ref \in MCRefs |-> IF ref = "ref1" THEN "pending" ELSE "authorized"]
FirstSettled == [ref \in MCRefs |-> IF ref = "ref1" THEN "settled" ELSE "absent"]
SettledAndPending == [ref \in MCRefs |-> IF ref = "ref1" THEN "settled" ELSE "pending"]
PendingAndAbsent  == [ref \in MCRefs |-> IF ref = "ref1" THEN "pending" ELSE "absent"]
BothHeld     == [ref \in MCRefs |-> "authorized"]

MCOpening ==
  [c \in MCAccounts |-> SumFunction([a \in AuthIds |-> NetOf(PastRows(a), c)])]

SessionSymmetry == Permutations(Sessions)

-----------------------------------------------------------------------------
(* processor: both decisions, two events that create the same              *)
(* authorization, two batches that overlap and one that names an           *)
(* authorization twice; a purchase after which the larger batch is over    *)
(* the limit of a balance half-way, and one by an unknown user.            *)
ProcessorEvents == {"e1", "e2", "e3", "e4", "e5", "e6", "e7"}
ProcessorRequests ==
  {OnAuth("created", "e1", "ref1"), OnAuth("created", "e2", "ref1"),
   OnAuth("approved", "e3", "ref1"), OnAuth("declined", "e4", "ref1"),
   Settle("e5", <<"ref1", "ref2">>), Settle("e6", <<"ref2">>),
   Settle("e7", <<"ref2", "ref2">>),
   Buy("k1", "deeds", "ada"), Buy("k1", "maps", None)}

(* refunds: of a purchase and of a processor settlement, next to purchases *)
(* that touch the same accounts, and to one that fails after it has        *)
(* written its authorization (the letters are free).                       *)
RefundRequests ==
  {Buy("k1", "deeds", "ada"), Buy("k1", "letters", "ada")}
    \cup {Refund(a) : a \in {"ref1"} \cup Sessions}

(* contention: batches that settle the same authorizations in opposite     *)
(* orders, and retries of a purchase.                                      *)
ContentionEvents == {"e1", "e2"}
ContentionRequests ==
  {Buy("k1", "deeds", "ada"),
   Settle("e1", <<"ref1", "ref2">>), Settle("e2", <<"ref2", "ref1">>)}

(* reconciliation: everything at once, refunds and decisions unordered.    *)
OverlapEvents == {"e1", "e2", "e3"}
OverlapRequests ==
  {Buy("k1", "maps", "ada"), CardAuth("maps", "ada", 5), CardAuth("maps", "cy", 5),
   CardAuth("maps", None, 5), Refund("ref1"), OnAuth("approved", "e1", "ref2"),
   OnAuth("declined", "e2", "ref2"), Settle("e3", <<"ref2", "ref2">>)}

(* sqlite: the same, and batches, on the other engine.                     *)
SqliteRequests ==
  {Buy("k1", "deeds", "ada"), CardAuth("maps", "ada", 5), Refund("ref1"),
   OnAuth("created", "e4", "ref2"), OnAuth("approved", "e1", "ref1"),
   OnAuth("declined", "e2", "ref1"), Settle("e3", <<"ref1">>), Settle("e5", <<>>)}
SqliteEvents == {"e1", "e2", "e3", "e4", "e5"}

(* The disagreements with the documentation, each with the least it needs. *)
TwoRefunds    == {Refund("ref1")}
TwoDecisions  == {OnAuth("approved", "e1", "ref1"), OnAuth("declined", "e2", "ref1")}
OnePurchase   == {Buy("k1", "deeds", "ada")}
CardPurchases == {Buy("k1", "deeds", "ada"), CardAuth("maps", "bo", 5)}
=============================================================================
