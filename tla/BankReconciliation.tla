-------------------------- MODULE BankReconciliation ------------------------
(***************************************************************************)
(* Bank statements.  An uploaded statement is stored as rows; each row may *)
(* be matched to a pending claim by its reference and credited, by an      *)
(* admin's Apply, by the sweeper that passes every minute, or by an        *)
(* admin's decision on that one row.  The passes list rows and claims      *)
(* once and then write row by row.                                         *)
(*                                                                         *)
(* Abstracted: parsing; a line is exact, or its amount is not the claims', *)
(* is outgoing or unreadable, or comes from a PDF; verdicts that leave a   *)
(* row to the next pass are UNMATCHED; the rows and claims a pass reads    *)
(* are one read; counts, audit rows, the scan limit.                       *)
(***************************************************************************)
EXTENDS ReferenceClaims, Sequences

CONSTANTS
  Statements, \* identities of uploaded files
  Keys,       \* what a line may answer to: its reference, then those in its text
  Processes,  \* the server processes: a partition of Slots
  MaxCrashes  \* bound: restarts of a process

ASSUME StatementAssumption ==
  /\ Keys \subseteq Seq(References)
  /\ UNION Processes = Slots
  /\ MaxCrashes \in Nat

VARIABLES
  statement, \* statement[f]: BankStatement.status
  row,       \* row[l]: the BankStatementRow
  crashes    \* restarts so far

vars == <<claim, credit, job, statement, row, crashes>>

StatementStatus == {"NONE", "WATCHED", "APPLIED", "PURGED"}
Sorts == {"exact", "other"}
Verdicts == {"MATCHED", "UNMATCHED", "ALREADY_SETTLED"}
NoRow == [uploaded |-> FALSE]
Row ==
  {NoRow}
  \cup [uploaded : {TRUE}, file : Statements, keys : Keys, sort : Sorts, match : Verdicts,
        claim : Claims \cup {NoClaim}, credited : BOOLEAN, decided : BOOLEAN]

Init ==
  /\ ClaimInit
  /\ statement = [f \in Statements |-> "NONE"]
  /\ row = [l \in Lines |-> NoRow]
  /\ crashes = 0

(* The rows in the database; purged ones keep their value as history. *)
Uploaded == {l \in Lines : row[l] # NoRow}
StoredRows == {l \in Uploaded : statement[row[l].file] # "PURGED"}
RowsOf(f) == {l \in StoredRows : row[l].file = f}
Open(l) == ~row[l].credited /\ ~row[l].decided

-----------------------------------------------------------------------------
(* matchRowAgainst.                                                        *)

(* Claims neither pending nor verified are found only if their user typed  *)
(* the reference exactly as the bank prints it (found).                    *)
Found == SUBSET (Filed("REJECTED") \cup Filed("REQUEST_INFO"))
Visible(found) == Filed("VERIFICATION_PENDING") \cup Filed("VERIFIED") \cup found
Carried(keys) == {keys[i] : i \in DOMAIN keys}
Named(keys, found) == {c \in Visible(found) : \E r \in Carried(keys) : c \in Citing(r)}

OneKind(C) == C \subseteq TopUps \/ C \subseteq UpiPayments

(* Mutant: the amount is left to whoever looks at the line. *)
PayableAnyAmount(a, twice, found) ==
  /\ ~twice
  /\ Named(a.keys, found) # {} /\ OneKind(Named(a.keys, found))

(* A line the machine may take for the payment of a claim; twice: another  *)
(* line it looks at has one of its references.                             *)
Payable(a, twice, found) ==
  /\ a.sort = "exact" /\ ~twice
  /\ Named(a.keys, found) # {} /\ OneKind(Named(a.keys, found))

Twice(about, l) ==
  \E k \in DOMAIN about \ {l} : Carried(about[k].keys) \cap Carried(about[l].keys) # {}

(* The claim of the first key that names one. *)
FirstNamed(keys, found) ==
  LET Names(i) == Citing(keys[i]) \cap Visible(found)
      first == CHOOSE i \in DOMAIN keys : Names(i) # {} /\ \A k \in 1..(i - 1) : Names(k) = {}
  IN  CHOOSE c \in Names(first) : TRUE

Matching(about, found) ==
  [l \in {l \in DOMAIN about : Payable(about[l], Twice(about, l), found)} |->
     FirstNamed(about[l].keys, found)]

-----------------------------------------------------------------------------
(* uploadStatement: the claims are read, then statement and rows stored.   *)

(* Mutant: the parser's verdict is stored. *)
StoredRowPending(f, a, l, m) ==
  [uploaded |-> TRUE, file |-> f, keys |-> a.keys, sort |-> a.sort, match |-> "PENDING",
   claim |-> NoClaim, credited |-> FALSE, decided |-> FALSE]

StoredRow(f, a, l, m) ==
  [uploaded |-> TRUE, file |-> f, keys |-> a.keys, sort |-> a.sort,
   match |-> IF l \notin DOMAIN m THEN "UNMATCHED"
             ELSE IF claim[m[l]].status = "VERIFIED" THEN "ALREADY_SETTLED" ELSE "MATCHED",
   claim |-> IF l \in DOMAIN m THEN m[l] ELSE NoClaim, credited |-> FALSE, decided |-> FALSE]

UploadStatement(f, about, found) ==
  /\ statement[f] = "NONE"
  /\ DOMAIN about \cap Uploaded = {}
  /\ statement' = [statement EXCEPT ![f] = "WATCHED"]
  /\ row' = [l \in Lines |->
       IF l \in DOMAIN about THEN StoredRow(f, about[l], l, Matching(about, found)) ELSE row[l]]
  /\ UNCHANGED <<claim, credit, job, crashes>>

-----------------------------------------------------------------------------
(* A pass: sweepStatement, applyStatement, rematchStatement.               *)

(* Mutant: a row that was matched is matched again. *)
RematchableAgain(f) == {l \in RowsOf(f) : Open(l)}

(* Mutant: a pass credits what the upload has matched. *)
RematchableNever(f) == {}

(* The rows a rematch considers. *)
Rematchable(f) ==
  {l \in RowsOf(f) : row[l].match = "UNMATCHED" /\ Open(l)}

Rematch(s, f, found, then) ==
  /\ statement[f] = "WATCHED"
  /\ LET m == Matching([l \in Rematchable(f) |-> row[l]], found)
         new == {l \in DOMAIN m : claim[m[l]].status # "VERIFIED"}
     IN  Begin(s, [at |-> "match", found |-> [l \in new |-> m[l]], file |-> f, then |-> then])
  /\ UNCHANGED <<claim, credit, statement, row, crashes>>

(* The sweeper's flag excludes passes of its own process only. *)
Sweeping(s) == job[s] # Idle /\ "then" \in DOMAIN job[s] /\ job[s].then = "watch"
ProcessOf(s) == CHOOSE P \in Processes : s \in P
Sweep(s, f, found) ==
  /\ \A t \in ProcessOf(s) : ~Sweeping(t)
  /\ Rematch(s, f, found, "watch")

RematchStatement(s, f, found) == Rematch(s, f, found, "return")

(* The row is written whatever became of it since it was read. *)
WriteMatch(s, l) ==
  LET j == job[s] IN
  /\ At(s, "match") /\ l \in DOMAIN j.found
  /\ row' = [row EXCEPT ![l] =
       IF l \in StoredRows THEN [@ EXCEPT !.match = "MATCHED", !.claim = j.found[l]] ELSE @]
  /\ Continue(s, [j EXCEPT !.found = [k \in DOMAIN j.found \ {l} |-> j.found[k]]])
  /\ UNCHANGED <<claim, credit, statement, crashes>>

Creditable(f) == {l \in RowsOf(f) : row[l].match = "MATCHED" /\ Open(l)}

CreditPass(f, then) ==
  [at |-> "credit", todo |-> [l \in Creditable(f) |-> row[l].claim], file |-> f, then |-> then]

ListMatched(s) ==
  /\ At(s, "match") /\ DOMAIN job[s].found = {}
  /\ Continue(s, IF job[s].then = "watch" THEN CreditPass(job[s].file, "watch") ELSE Idle)
  /\ UNCHANGED <<claim, credit, statement, row, crashes>>

ApplyStatement(s, f) ==
  /\ statement[f] = "WATCHED"
  /\ Begin(s, CreditPass(f, "apply"))
  /\ UNCHANGED <<claim, credit, statement, row, crashes>>

(* creditMatchedRows, one row: read the claim and settle it; whether this  *)
(* pass did, decides what is written on the row.                           *)
CreditLine(s, l) ==
  LET j == job[s]
      rest == [j EXCEPT !.todo = [k \in DOMAIN j.todo \ {l} |-> j.todo[k]]]
      Mark(as) == [at |-> "mark", line |-> l, as |-> as, todo |-> rest.todo,
                   file |-> j.file, then |-> j.then]
      c == j.todo[l]
  IN
  /\ At(s, "credit") /\ l \in DOMAIN j.todo
  /\ \/ Settle(c, l, "machine") /\ Continue(s, Mark("credited"))
     \/ SettlementFails(c) /\ Continue(s, rest)
     \/ /\ ~Pending(c)
        /\ Continue(s, Mark("ALREADY_SETTLED"))
        /\ UNCHANGED <<claim, credit>>
  /\ UNCHANGED <<statement, row, crashes>>

(* Mutant: losing the race for the claim is written as having won it. *)
MarkLineCredited(s) ==
  LET j == job[s] IN
  /\ At(s, "mark")
  /\ row' = [row EXCEPT ![j.line] =
       IF j.line \notin StoredRows THEN @ ELSE [@ EXCEPT !.credited = TRUE]]
  /\ Continue(s, [at |-> "credit", todo |-> j.todo, file |-> j.file, then |-> j.then])
  /\ UNCHANGED <<claim, credit, statement, crashes>>

MarkLine(s) ==
  LET j == job[s] IN
  /\ At(s, "mark")
  /\ row' = [row EXCEPT ![j.line] =
       IF j.line \notin StoredRows THEN @
       ELSE IF j.as = "credited" THEN [@ EXCEPT !.credited = TRUE]
       ELSE [@ EXCEPT !.match = "ALREADY_SETTLED"]]
  /\ Continue(s, [at |-> "credit", todo |-> j.todo, file |-> j.file, then |-> j.then])
  /\ UNCHANGED <<claim, credit, statement, crashes>>

FinishPass(s) ==
  LET f == job[s].file IN
  /\ At(s, "credit") /\ DOMAIN job[s].todo = {}
  /\ statement' = [statement EXCEPT ![f] =
       IF job[s].then = "apply" /\ @ = "WATCHED" THEN "APPLIED" ELSE @]
  /\ Return(s)
  /\ UNCHANGED <<claim, credit, row, crashes>>

-----------------------------------------------------------------------------
(* recordRowDecision: a person decides one row, read before.               *)

LeaveLine(s, l) ==
  /\ l \in StoredRows /\ Open(l)
  /\ Begin(s, [at |-> "leave", line |-> l])
  /\ UNCHANGED <<claim, credit, statement, row, crashes>>

RecordDecision(s) ==
  LET l == job[s].line IN
  /\ At(s, "leave")
  /\ row' = [row EXCEPT ![l] = IF l \in StoredRows THEN [@ EXCEPT !.decided = TRUE] ELSE @]
  /\ Return(s)
  /\ UNCHANGED <<claim, credit, statement, crashes>>

CreditByHand(s, l, c) ==
  /\ l \in StoredRows /\ Open(l) /\ Pending(c)
  /\ Begin(s, [at |-> "settle", line |-> l, claim |-> c])
  /\ UNCHANGED <<claim, credit, statement, row, crashes>>

SettleByHand(s) ==
  LET l == job[s].line  c == job[s].claim IN
  /\ At(s, "settle")
  /\ \/ Settle(c, l, "hand") /\ Continue(s, [at |-> "record", line |-> l, claim |-> c])
     \/ (SettlementFails(c) \/ (~Pending(c) /\ UNCHANGED <<claim, credit>>)) /\ Return(s)
  /\ UNCHANGED <<statement, row, crashes>>

RecordCredit(s) ==
  LET l == job[s].line IN
  /\ At(s, "record")
  /\ row' = [row EXCEPT ![l] =
       IF l \in StoredRows
         THEN [@ EXCEPT !.match = "MATCHED", !.claim = job[s].claim, !.credited = TRUE, !.decided = TRUE]
         ELSE @]
  /\ Return(s)
  /\ UNCHANGED <<claim, credit, statement, crashes>>

-----------------------------------------------------------------------------
(* purgeExpiredStatements ends a tick: no sweep of that process runs.      *)
Purge(s, f) ==
  /\ \A t \in ProcessOf(s) : ~Sweeping(t)
  /\ statement[f] \in {"WATCHED", "APPLIED"}
  /\ statement' = [statement EXCEPT ![f] = "PURGED"]
  /\ UNCHANGED <<claim, credit, job, row, crashes>>

Crash(P) ==
  /\ crashes < MaxCrashes
  /\ crashes' = crashes + 1
  /\ job' = [s \in Slots |-> IF s \in P THEN Idle ELSE job[s]]
  /\ UNCHANGED <<claim, credit, statement, row>>

-----------------------------------------------------------------------------
Step(s) ==
  \/ FileClaim(s) /\ UNCHANGED <<statement, row, crashes>>
  \/ \E l \in Lines : WriteMatch(s, l) \/ CreditLine(s, l)
  \/ ListMatched(s) \/ MarkLine(s) \/ FinishPass(s)
  \/ RecordDecision(s) \/ SettleByHand(s) \/ RecordCredit(s)

Uploads ==
  \E f \in Statements, L \in (SUBSET Lines) \ {{}}, found \in Found :
    \E about \in [L -> [keys : Keys, sort : Sorts]] : UploadStatement(f, about, found)

Request(s) ==
  \/ \E f \in Statements :
       \/ ApplyStatement(s, f) \/ Purge(s, f)
       \/ \E found \in Found : Sweep(s, f, found) \/ RematchStatement(s, f, found)
  \/ \E l \in Lines : LeaveLine(s, l) \/ \E c \in Claims : CreditByHand(s, l, c)

Next ==
  \/ ClaimNext /\ UNCHANGED <<statement, row, crashes>>
  \/ Uploads
  \/ \E s \in Slots : Step(s) \/ Request(s)
  \/ \E P \in Processes : Crash(P)

Spec == Init /\ [][Next]_vars
=============================================================================
