------------------------ MODULE Reconciliation_proofs -----------------------
(***************************************************************************)
(* Theorems about claims and bank statements for every number of claims,   *)
(* references, lines and statements, lines that carry any number of        *)
(* references, and every number of passes, requests and restarts.          *)
(***************************************************************************)
EXTENDS ReconciliationPromise, WellFoundedInduction, TLAPS

(***************************************************************************)
(* Type correctness.                                                       *)
(***************************************************************************)

(* What a pass goes through: lines, each with the claim it is for. *)
Worklist == UNION {[L -> Claims] : L \in SUBSET Lines}

LEMMA WorklistElements ==
  ASSUME NEW m \in Worklist
  PROVE  DOMAIN m \subseteq Lines /\ \A l \in DOMAIN m : m[l] \in Claims
  <1>1. PICK L \in SUBSET Lines : m \in [L -> Claims]
    BY DEF Worklist
  <1> QED BY <1>1

LEMMA WorklistWithout ==
  ASSUME NEW m \in Worklist, NEW l
  PROVE  [k \in DOMAIN m \ {l} |-> m[k]] \in Worklist
  <1> DEFINE L == DOMAIN m \ {l}
  <1>1. L \in SUBSET Lines /\ \A k \in L : m[k] \in Claims
    BY WorklistElements
  <1>2. [k \in L |-> m[k]] \in [L -> Claims]
    BY <1>1
  <1> QED BY <1>1, <1>2 DEF Worklist

LEMMA IdleJob == Idle \in Job
  BY DEF Job

LEMMA MatchJob ==
  ASSUME NEW m \in Worklist, NEW f \in Statements, NEW then \in {"watch", "return"}
  PROVE  [at |-> "match", found |-> m, file |-> f, then |-> then] \in Job
  BY DEF Job, Worklist

LEMMA CreditJob ==
  ASSUME NEW m \in Worklist, NEW f \in Statements, NEW then \in {"watch", "apply"}
  PROVE  [at |-> "credit", todo |-> m, file |-> f, then |-> then] \in Job
  BY DEF Job, Worklist

LEMMA MarkJob ==
  ASSUME NEW m \in Worklist, NEW f \in Statements, NEW then \in {"watch", "apply"},
         NEW l \in Lines, NEW as \in {"credited", "ALREADY_SETTLED"}
  PROVE  [at |-> "mark", line |-> l, as |-> as, todo |-> m, file |-> f, then |-> then] \in Job
  BY DEF Job, Worklist

LEMMA BeginTyped ==
  ASSUME job \in [Slots -> Job], NEW s \in Slots, NEW j \in Job, Begin(s, j)
  PROVE  job' \in [Slots -> Job]
  BY DEF Begin

LEMMA ContinueTyped ==
  ASSUME job \in [Slots -> Job], NEW s \in Slots, NEW j \in Job, Continue(s, j)
  PROVE  job' \in [Slots -> Job]
  BY DEF Continue

LEMMA ReturnTyped ==
  ASSUME job \in [Slots -> Job], NEW s \in Slots, Return(s)
  PROVE  job' \in [Slots -> Job]
  BY ContinueTyped, IdleJob DEF Return

(* What a running handler carries. *)
LEMMA RunningJob ==
  ASSUME job \in [Slots -> Job], NEW s \in Slots
  PROVE  /\ At(s, "file") => job[s].claim \in Claims /\ job[s].ref \in References
         /\ At(s, "match") =>
              /\ job[s] = [at |-> "match", found |-> job[s].found, file |-> job[s].file,
                           then |-> job[s].then]
              /\ job[s].found \in Worklist /\ job[s].file \in Statements
              /\ job[s].then \in {"watch", "return"}
         /\ At(s, "credit") =>
              /\ job[s] = [at |-> "credit", todo |-> job[s].todo, file |-> job[s].file,
                           then |-> job[s].then]
              /\ job[s].todo \in Worklist /\ job[s].file \in Statements
              /\ job[s].then \in {"watch", "apply"}
         /\ At(s, "mark") =>
              /\ job[s].line \in Lines /\ job[s].as \in {"credited", "ALREADY_SETTLED"}
              /\ job[s].todo \in Worklist /\ job[s].file \in Statements
              /\ job[s].then \in {"watch", "apply"}
         /\ At(s, "leave") => job[s].line \in Lines
         /\ At(s, "settle") \/ At(s, "record") => job[s].line \in Lines /\ job[s].claim \in Claims
  <1>1. \/ job[s] = Idle
        \/ job[s] \in [at : {"file"}, claim : Claims, ref : References]
        \/ job[s] \in [at : {"match"}, found : Worklist, file : Statements, then : {"watch", "return"}]
        \/ job[s] \in [at : {"credit"}, todo : Worklist, file : Statements, then : {"watch", "apply"}]
        \/ job[s] \in [at : {"mark"}, line : Lines, as : {"credited", "ALREADY_SETTLED"},
                       todo : Worklist, file : Statements, then : {"watch", "apply"}]
        \/ job[s] \in [at : {"leave"}, line : Lines]
        \/ job[s] \in [at : {"settle", "record"}, line : Lines, claim : Claims]
    BY DEF Job, Worklist
  <1>2. CASE job[s] = Idle
    <2>1. job[s].at = "idle"
      BY <1>2 DEF Idle
    <2> QED BY <2>1 DEF At
  <1>3. CASE job[s] \in [at : {"file"}, claim : Claims, ref : References]
    BY <1>3 DEF At
  <1>4. CASE job[s] \in [at : {"match"}, found : Worklist, file : Statements, then : {"watch", "return"}]
    BY <1>4 DEF At
  <1>5. CASE job[s] \in [at : {"credit"}, todo : Worklist, file : Statements, then : {"watch", "apply"}]
    BY <1>5 DEF At
  <1>6. CASE job[s] \in [at : {"mark"}, line : Lines, as : {"credited", "ALREADY_SETTLED"},
                         todo : Worklist, file : Statements, then : {"watch", "apply"}]
    BY <1>6 DEF At
  <1>7. CASE job[s] \in [at : {"leave"}, line : Lines]
    BY <1>7 DEF At
  <1>8. CASE job[s] \in [at : {"settle", "record"}, line : Lines, claim : Claims]
    BY <1>8 DEF At
  <1> QED BY <1>1, <1>2, <1>3, <1>4, <1>5, <1>6, <1>7, <1>8

(* The claim a line is matched to is one its keys name. *)
LEMMA LeastIndex ==
  ASSUME NEW n \in Nat, NEW S \in SUBSET (1..n), S # {}
  PROVE  \E i \in S : \A k \in 1..(i - 1) : k \notin S
  <1>1. S \subseteq Nat
    OBVIOUS
  <1>2. PICK i \in S : \A k \in S : ~(<<k, i>> \in OpToRel(<, Nat))
    BY <1>1, NatLessThanWellFounded, WFMin
  <1>3. \A k \in S : ~(k < i)
    BY <1>1, <1>2 DEF OpToRel
  <1> QED BY <1>1, <1>3

LEMMA FirstNamedIsNamed ==
  ASSUME NEW keys \in Keys, NEW found, Named(keys, found) # {}
  PROVE  FirstNamed(keys, found) \in Named(keys, found)
  <1> DEFINE Names(i) == Citing(keys[i]) \cap Visible(found)
             S == {i \in DOMAIN keys : Names(i) # {}}
             first == CHOOSE i \in DOMAIN keys : Names(i) # {} /\ \A k \in 1..(i - 1) : Names(k) = {}
  <1>1. keys \in Seq(References) /\ Len(keys) \in Nat /\ DOMAIN keys = 1..Len(keys)
    BY StatementAssumption
  <1>2. \A c : c \in Named(keys, found) <=> \E i \in DOMAIN keys : c \in Names(i)
    BY DEF Named, Carried
  <1> HIDE DEF Names
  <1>3. S # {} /\ S \in SUBSET (1..Len(keys))
    BY <1>1, <1>2
  <1>4. PICK i \in S : \A k \in 1..(i - 1) : k \notin S
    BY <1>1, <1>3, LeastIndex
  <1>5. \A k \in 1..(i - 1) : k \in DOMAIN keys
    BY <1>1, <1>4
  <1>6. i \in DOMAIN keys /\ Names(i) # {} /\ \A k \in 1..(i - 1) : Names(k) = {}
    BY <1>4, <1>5
  <1>7. first \in DOMAIN keys /\ Names(first) # {}
    BY <1>6
  <1> HIDE DEF first
  <1>8. (CHOOSE c \in Names(first) : TRUE) \in Names(first)
    BY <1>7
  <1>9. FirstNamed(keys, found) = CHOOSE c \in Names(first) : TRUE
    BY DEF FirstNamed, first, Names
  <1>10. Names(first) \subseteq Named(keys, found)
    BY <1>7, <1>2
  <1> QED BY <1>8, <1>9, <1>10

LEMMA MatchingTyped ==
  ASSUME NEW about, DOMAIN about \subseteq Lines,
         \A l \in DOMAIN about : about[l].keys \in Keys, NEW found
  PROVE  /\ DOMAIN Matching(about, found) \subseteq DOMAIN about
         /\ \A l \in DOMAIN Matching(about, found) :
              /\ about[l].sort = "exact"
              /\ OneKind(Named(about[l].keys, found))
              /\ Matching(about, found)[l] \in Named(about[l].keys, found)
         /\ Matching(about, found) \in Worklist
  <1> DEFINE L == {l \in DOMAIN about : Payable(about[l], Twice(about, l), found)}
             m == [l \in L |-> FirstNamed(about[l].keys, found)]
  <1>1. Matching(about, found) = m
    BY DEF Matching
  <1>2. \A l \in L : /\ about[l].sort = "exact"
                     /\ OneKind(Named(about[l].keys, found))
                     /\ FirstNamed(about[l].keys, found) \in Named(about[l].keys, found)
    BY FirstNamedIsNamed DEF Payable
  <1>3. \A l \in L : FirstNamed(about[l].keys, found) \in Claims
    BY <1>2 DEF Named, Citing
  <1>4. m \in [L -> Claims] /\ L \in SUBSET Lines
    BY <1>3
  <1> QED BY <1>1, <1>2, <1>4 DEF Worklist

LEMMA ClaimsTyped ==
  ASSUME TypeOK, ClaimNext, UNCHANGED <<statement, row, crashes>>
  PROVE  TypeOK'
  <1>1. ASSUME NEW s \in Slots, NEW c \in Claims, NEW r \in References, SubmitReference(s, c, r)
        PROVE  TypeOK'
    <2>1. [at |-> "file", claim |-> c, ref |-> r] \in Job
      BY DEF Job
    <2> QED BY <1>1, <2>1, BeginTyped DEF TypeOK, SubmitReference
  <1>2. ASSUME NEW c \in Claims, VerifyClaim(c)
        PROVE  TypeOK'
    BY <1>2 DEF TypeOK, VerifyClaim, Settle, Pending, Filed, Claim, NoClaim, ClaimStatus, Credit
  <1>3. ASSUME NEW c \in Claims, RejectClaim(c) \/ RequestInfo(c)
        PROVE  TypeOK'
    BY <1>3 DEF TypeOK, RejectClaim, RequestInfo, Pending, Filed, Claim, NoClaim, ClaimStatus
  <1> QED BY <1>1, <1>2, <1>3 DEF ClaimNext

(* Settling a claim, by whomever. *)
LEMMA SettleTyped ==
  ASSUME TypeOK, NEW c \in Claims, NEW l \in Lines, NEW by \in {"machine", "hand"}, Settle(c, l, by)
  PROVE  claim' \in [Claims -> Claim] /\ credit' \subseteq Credit
  BY DEF TypeOK, Settle, Pending, Filed, Claim, NoClaim, ClaimStatus, Credit

LEMMA StoredRowTyped ==
  ASSUME TypeOK, NEW f \in Statements, NEW a \in [keys : Keys, sort : Sorts], NEW l \in Lines,
         NEW m \in Worklist
  PROVE  StoredRow(f, a, l, m) \in Row
  BY WorklistElements DEF StoredRow, Row, Verdicts

LEMMA UploadTyped ==
  ASSUME TypeOK, Uploads
  PROVE  TypeOK'
  <1>1. PICK f \in Statements, L \in SUBSET Lines, found \in Found :
          \E about \in [L -> [keys : Keys, sort : Sorts]] : UploadStatement(f, about, found)
    BY DEF Uploads
  <1>2. PICK about \in [L -> [keys : Keys, sort : Sorts]] : UploadStatement(f, about, found)
    BY <1>1
  <1>3. Matching(about, found) \in Worklist
    BY MatchingTyped
  <1>4. row' \in [Lines -> Row]
    BY <1>2, <1>3, StoredRowTyped DEF UploadStatement, TypeOK
  <1> QED BY <1>2, <1>4 DEF UploadStatement, TypeOK, StatementStatus

(* What a rematch finds; RowsOf(f) are lines with a row. *)
LEMMA RematchFinds ==
  ASSUME TypeOK, NEW f \in Statements, NEW found,
         NEW m, m = Matching([l \in Rematchable(f) |-> row[l]], found),
         NEW n, n = {l \in DOMAIN m : claim[m[l]].status # "VERIFIED"}
  PROVE  /\ [l \in n |-> m[l]] \in Worklist
         /\ \A l \in n :
              /\ l \in Rematchable(f) /\ row[l].sort = "exact"
              /\ OneKind(Named(row[l].keys, found)) /\ m[l] \in Named(row[l].keys, found)
  <1> DEFINE about == [l \in Rematchable(f) |-> row[l]]
  <1>1. \A l \in Rematchable(f) : l \in Lines /\ row[l] \in Row /\ row[l] # NoRow
    BY DEF Rematchable, RowsOf, StoredRows, Uploaded, TypeOK
  <1>2. DOMAIN about \subseteq Lines /\ \A l \in DOMAIN about : about[l].keys \in Keys
    BY <1>1 DEF Row
  <1> HIDE DEF about
  <1>3. /\ DOMAIN m \subseteq DOMAIN about
        /\ \A l \in DOMAIN m :
             /\ about[l].sort = "exact"
             /\ OneKind(Named(about[l].keys, found))
             /\ m[l] \in Named(about[l].keys, found)
        /\ m \in Worklist
    BY <1>2, MatchingTyped DEF about
  <1>4. n \in SUBSET Lines /\ \A l \in n : m[l] \in Claims
    BY <1>3, WorklistElements
  <1>5. [l \in n |-> m[l]] \in [n -> Claims]
    BY <1>4
  <1> QED BY <1>3, <1>4, <1>5 DEF about, Worklist

LEMMA RematchTyped ==
  ASSUME TypeOK, NEW s \in Slots, NEW f \in Statements, NEW found,
         NEW then \in {"watch", "return"}, Rematch(s, f, found, then)
  PROVE  TypeOK'
  <1> DEFINE m == Matching([l \in Rematchable(f) |-> row[l]], found)
             n == {l \in DOMAIN m : claim[m[l]].status # "VERIFIED"}
             j == [at |-> "match", found |-> [l \in n |-> m[l]], file |-> f, then |-> then]
  <1>1. Begin(s, j) /\ UNCHANGED <<claim, credit, statement, row, crashes>>
    BY DEF Rematch
  <1>2. [l \in n |-> m[l]] \in Worklist
    BY RematchFinds
  <1>3. j \in Job
    BY <1>2, MatchJob
  <1> HIDE DEF m, n, j
  <1>4. job' \in [Slots -> Job]
    BY <1>1, <1>3, BeginTyped DEF TypeOK
  <1> QED BY <1>1, <1>4 DEF TypeOK

LEMMA CreditPassTyped ==
  ASSUME TypeOK, NEW f \in Statements, NEW then \in {"watch", "apply"},
         \A l \in Creditable(f) : row[l].claim \in Claims
  PROVE  CreditPass(f, then) \in Job
  <1>1. Creditable(f) \subseteq Lines
    BY DEF Creditable, RowsOf, StoredRows, Uploaded
  <1>2. [l \in Creditable(f) |-> row[l].claim] \in [Creditable(f) -> Claims]
    OBVIOUS
  <1>3. [l \in Creditable(f) |-> row[l].claim] \in Worklist
    BY <1>1, <1>2 DEF Worklist
  <1> QED BY <1>3, CreditJob DEF CreditPass

(* TypeOK alone is not inductive: a pass takes for a claim what a row that *)
(* is MATCHED holds.                                                       *)
MatchedNames ==
  \A l \in Lines : row[l] # NoRow /\ row[l].match = "MATCHED" => row[l].claim \in Claims

Typed == TypeOK /\ MatchedNames

LEMMA RowFields ==
  ASSUME NEW r \in Row, r # NoRow
  PROVE  r \in [uploaded : {TRUE}, file : Statements, keys : Keys, sort : Sorts, match : Verdicts,
                claim : Claims \cup {NoClaim}, credited : BOOLEAN, decided : BOOLEAN]
  BY DEF Row

LEMMA StoredIsRow ==
  ASSUME TypeOK, NEW l \in StoredRows
  PROVE  l \in Lines /\ row[l] # NoRow
         /\ row[l] \in [uploaded : {TRUE}, file : Statements, keys : Keys, sort : Sorts, match : Verdicts,
                claim : Claims \cup {NoClaim}, credited : BOOLEAN, decided : BOOLEAN]
  BY RowFields DEF StoredRows, Uploaded, TypeOK

(* The writes on a row. *)
LEMMA RowWriteTyped ==
  ASSUME Typed, NEW l \in StoredRows, NEW r,
         row' = [row EXCEPT ![l] = r],
         r \in Row, r # NoRow, r.match = "MATCHED" => r.claim \in Claims
  PROVE  row' \in [Lines -> Row] /\ MatchedNames'
  BY StoredIsRow DEF Typed, TypeOK, MatchedNames

LEMMA PassTyped ==
  ASSUME Typed, NEW s \in Slots, NEW l \in Lines, WriteMatch(s, l) \/ CreditLine(s, l)
  PROVE  Typed'
  <1> USE DEF Typed
  <1>1. CASE WriteMatch(s, l)
    <2>1. At(s, "match") /\ l \in DOMAIN job[s].found
      BY <1>1 DEF WriteMatch
    <2>2. /\ job[s] = [at |-> "match", found |-> job[s].found, file |-> job[s].file,
                       then |-> job[s].then]
          /\ job[s].found \in Worklist /\ job[s].file \in Statements
          /\ job[s].then \in {"watch", "return"}
      BY <2>1, RunningJob DEF TypeOK
    <2> DEFINE rest == [k \in DOMAIN job[s].found \ {l} |-> job[s].found[k]]
    <2>3. rest \in Worklist
      BY <2>2, WorklistWithout
    <2>4. [job[s] EXCEPT !.found = rest]
            = [at |-> "match", found |-> rest, file |-> job[s].file, then |-> job[s].then]
      BY <2>2
    <2>5. Continue(s, [job[s] EXCEPT !.found = rest])
      BY <1>1 DEF WriteMatch
    <2>6. job' \in [Slots -> Job]
      <3> HIDE DEF rest
      <3> QED BY <2>2, <2>3, <2>4, <2>5, MatchJob, ContinueTyped DEF TypeOK
    <2>7. row' \in [Lines -> Row] /\ MatchedNames'
      <3>1. CASE l \in StoredRows
        <4> DEFINE r == [row[l] EXCEPT !.match = "MATCHED", !.claim = job[s].found[l]]
        <4>1. row' = [row EXCEPT ![l] = r]
          BY <1>1, <3>1 DEF WriteMatch
        <4>2. job[s].found[l] \in Claims
          BY <2>1, <2>2, WorklistElements
        <4>3. r \in Row /\ r # NoRow /\ r.match = "MATCHED" /\ r.claim \in Claims
          BY <3>1, <4>2, StoredIsRow DEF Row, NoRow, Verdicts
        <4> HIDE DEF r
        <4> QED BY <3>1, <4>1, <4>3, RowWriteTyped
      <3>2. CASE l \notin StoredRows
        <4>1. row' = row
          BY <1>1, <3>2 DEF WriteMatch, TypeOK
        <4>2. UNCHANGED row
          BY <4>1
        <4> QED BY <4>2 DEF TypeOK, MatchedNames
      <3> QED BY <3>1, <3>2
    <2> QED BY <1>1, <2>6, <2>7 DEF WriteMatch, TypeOK
  <1>2. CASE CreditLine(s, l)
    <2> DEFINE j == job[s]
               rest == [k \in DOMAIN j.todo \ {l} |-> j.todo[k]]
               Mark(as) == [at |-> "mark", line |-> l, as |-> as, todo |-> rest,
                            file |-> j.file, then |-> j.then]
    <2>1. At(s, "credit") /\ l \in DOMAIN j.todo
      BY <1>2 DEF CreditLine
    <2>2. /\ j = [at |-> "credit", todo |-> j.todo, file |-> j.file, then |-> j.then]
          /\ j.todo \in Worklist /\ j.file \in Statements /\ j.then \in {"watch", "apply"}
      BY <2>1, RunningJob DEF TypeOK
    <2>3. rest \in Worklist /\ j.todo[l] \in Claims
      BY <2>1, <2>2, WorklistWithout, WorklistElements
    <2>4. [j EXCEPT !.todo = rest] = [at |-> "credit", todo |-> rest, file |-> j.file, then |-> j.then]
      BY <2>2
    <2>5. \/ Settle(j.todo[l], l, "machine") /\ Continue(s, Mark("credited"))
          \/ UNCHANGED <<claim, credit>> /\ Continue(s, [j EXCEPT !.todo = rest])
          \/ UNCHANGED <<claim, credit>> /\ Continue(s, Mark("ALREADY_SETTLED"))
      BY <1>2 DEF CreditLine, SettlementFails
    <2> HIDE DEF rest
    <2>6. /\ [j EXCEPT !.todo = rest] \in Job
          /\ Mark("credited") \in Job /\ Mark("ALREADY_SETTLED") \in Job
      <3>1. [at |-> "credit", todo |-> rest, file |-> j.file, then |-> j.then] \in Job
        BY <2>2, <2>3, CreditJob
      <3>2. Mark("credited") \in Job /\ Mark("ALREADY_SETTLED") \in Job
        BY <2>2, <2>3, MarkJob
      <3> QED BY <2>4, <3>1, <3>2
    <2>7. job' \in [Slots -> Job]
      BY <2>5, <2>6, ContinueTyped DEF TypeOK
    <2>8. claim' \in [Claims -> Claim] /\ credit' \subseteq Credit
      BY <2>3, <2>5, SettleTyped DEF TypeOK
    <2> QED BY <1>2, <2>7, <2>8 DEF CreditLine, TypeOK, MatchedNames
  <1> QED BY <1>1, <1>2

LEMMA StepTyped ==
  ASSUME Typed, NEW s \in Slots, Step(s)
  PROVE  Typed'
  <1> USE DEF Typed
  <1>1. CASE FileClaim(s) /\ UNCHANGED <<statement, row, crashes>>
    <2>1. job[s].claim \in Claims /\ job[s].ref \in References
      BY <1>1, RunningJob DEF FileClaim, TypeOK
    <2>2. claim' \in [Claims -> Claim]
      BY <1>1, <2>1 DEF FileClaim, TypeOK, Claim, ClaimStatus
    <2>3. job' \in [Slots -> Job]
      BY <1>1, ReturnTyped DEF FileClaim, TypeOK
    <2> QED BY <1>1, <2>2, <2>3 DEF FileClaim, TypeOK, MatchedNames
  <1>2. CASE \E l \in Lines : WriteMatch(s, l) \/ CreditLine(s, l)
    BY <1>2, PassTyped
  <1>3. CASE ListMatched(s)
    <2>1. job[s].file \in Statements /\ job[s].then \in {"watch", "return"}
      BY <1>3, RunningJob DEF ListMatched, TypeOK
    <2>2. \A l \in Creditable(job[s].file) : row[l].claim \in Claims
      BY DEF Creditable, RowsOf, StoredRows, Uploaded, MatchedNames
    <2>3. CreditPass(job[s].file, "watch") \in Job
      BY <2>1, <2>2, CreditPassTyped
    <2>4. job' \in [Slots -> Job]
      BY <1>3, <2>3, IdleJob, ContinueTyped DEF ListMatched, TypeOK
    <2> QED BY <1>3, <2>4 DEF ListMatched, TypeOK, MatchedNames
  <1>4. CASE MarkLine(s)
    <2> DEFINE j == job[s]
    <2>1. /\ j.line \in Lines /\ j.as \in {"credited", "ALREADY_SETTLED"}
          /\ j.todo \in Worklist /\ j.file \in Statements /\ j.then \in {"watch", "apply"}
      BY <1>4, RunningJob DEF MarkLine, TypeOK
    <2>2. job' \in [Slots -> Job]
      BY <1>4, <2>1, CreditJob, ContinueTyped DEF MarkLine, TypeOK
    <2>3. row' \in [Lines -> Row] /\ MatchedNames'
      <3>1. CASE j.line \in StoredRows /\ j.as = "credited"
        <4> DEFINE r == [row[j.line] EXCEPT !.credited = TRUE]
        <4>1. row' = [row EXCEPT ![j.line] = r]
          BY <1>4, <3>1 DEF MarkLine
        <4>2. r \in Row /\ r # NoRow /\ (r.match = "MATCHED" => r.claim \in Claims)
          BY <3>1, StoredIsRow DEF Row, NoRow, MatchedNames
        <4> HIDE DEF r
        <4> QED BY <3>1, <4>1, <4>2, RowWriteTyped
      <3>2. CASE j.line \in StoredRows /\ j.as # "credited"
        <4> DEFINE r == [row[j.line] EXCEPT !.match = "ALREADY_SETTLED"]
        <4>1. row' = [row EXCEPT ![j.line] = r]
          BY <1>4, <3>2 DEF MarkLine
        <4>2. r \in Row /\ r # NoRow /\ r.match # "MATCHED"
          BY <3>2, StoredIsRow DEF Row, NoRow, Verdicts
        <4> HIDE DEF r
        <4> QED BY <3>2, <4>1, <4>2, RowWriteTyped
      <3>3. CASE j.line \notin StoredRows
        <4>1. UNCHANGED row
          BY <1>4, <3>3 DEF MarkLine, TypeOK
        <4> QED BY <4>1 DEF TypeOK, MatchedNames
      <3> QED BY <3>1, <3>2, <3>3
    <2> QED BY <1>4, <2>2, <2>3 DEF MarkLine, TypeOK
  <1>5. CASE FinishPass(s)
    <2>1. job' \in [Slots -> Job]
      BY <1>5, ReturnTyped DEF FinishPass, TypeOK
    <2>2. statement' \in [Statements -> StatementStatus]
      BY <1>5 DEF FinishPass, TypeOK, StatementStatus
    <2> QED BY <1>5, <2>1, <2>2 DEF FinishPass, TypeOK, MatchedNames
  <1>6. CASE RecordDecision(s)
    <2> DEFINE l == job[s].line
    <2>1. job' \in [Slots -> Job]
      BY <1>6, ReturnTyped DEF RecordDecision, TypeOK
    <2>2. row' \in [Lines -> Row] /\ MatchedNames'
      <3>1. CASE l \in StoredRows
        <4> DEFINE r == [row[l] EXCEPT !.decided = TRUE]
        <4>1. row' = [row EXCEPT ![l] = r]
          BY <1>6, <3>1 DEF RecordDecision
        <4>2. r \in Row /\ r # NoRow /\ (r.match = "MATCHED" => r.claim \in Claims)
          BY <3>1, StoredIsRow DEF Row, NoRow, MatchedNames
        <4> HIDE DEF r
        <4> QED BY <3>1, <4>1, <4>2, RowWriteTyped
      <3>2. CASE l \notin StoredRows
        <4>1. UNCHANGED row
          BY <1>6, <3>2 DEF RecordDecision, TypeOK
        <4> QED BY <4>1 DEF TypeOK, MatchedNames
      <3> QED BY <3>1, <3>2
    <2> QED BY <1>6, <2>1, <2>2 DEF RecordDecision, TypeOK
  <1>7. CASE SettleByHand(s)
    <2>1. job[s].line \in Lines /\ job[s].claim \in Claims
      BY <1>7, RunningJob DEF SettleByHand, TypeOK
    <2> DEFINE next == [at |-> "record", line |-> job[s].line, claim |-> job[s].claim]
    <2>2. next \in Job
      BY <2>1 DEF Job
    <2>3. \/ Settle(job[s].claim, job[s].line, "hand") /\ Continue(s, next)
          \/ UNCHANGED <<claim, credit>> /\ Return(s)
      BY <1>7 DEF SettleByHand, SettlementFails
    <2> HIDE DEF next
    <2>4. job' \in [Slots -> Job]
      BY <2>2, <2>3, ContinueTyped, ReturnTyped DEF TypeOK
    <2>5. claim' \in [Claims -> Claim] /\ credit' \subseteq Credit
      BY <2>1, <2>3, SettleTyped DEF TypeOK
    <2> QED BY <1>7, <2>4, <2>5 DEF SettleByHand, TypeOK, MatchedNames
  <1>8. CASE RecordCredit(s)
    <2> DEFINE l == job[s].line
               r == [row[l] EXCEPT !.match = "MATCHED", !.claim = job[s].claim,
                                   !.credited = TRUE, !.decided = TRUE]
    <2>1. job[s].claim \in Claims
      BY <1>8, RunningJob DEF RecordCredit, TypeOK
    <2>2. job' \in [Slots -> Job]
      BY <1>8, ReturnTyped DEF RecordCredit, TypeOK
    <2>3. row' \in [Lines -> Row] /\ MatchedNames'
      <3>1. CASE l \in StoredRows
        <4>1. row' = [row EXCEPT ![l] = r]
          BY <1>8, <3>1 DEF RecordCredit
        <4>2. r \in Row /\ r # NoRow /\ r.claim \in Claims
          BY <2>1, <3>1, StoredIsRow DEF Row, NoRow, Verdicts
        <4> HIDE DEF r
        <4> QED BY <3>1, <4>1, <4>2, RowWriteTyped
      <3>2. CASE l \notin StoredRows
        <4>1. UNCHANGED row
          BY <1>8, <3>2 DEF RecordCredit, TypeOK
        <4> QED BY <4>1 DEF TypeOK, MatchedNames
      <3> QED BY <3>1, <3>2
    <2> QED BY <1>8, <2>2, <2>3 DEF RecordCredit, TypeOK
  <1> QED BY <1>1, <1>2, <1>3, <1>4, <1>5, <1>6, <1>7, <1>8 DEF Step

LEMMA RequestTyped ==
  ASSUME Typed, NEW s \in Slots, Request(s)
  PROVE  Typed'
  <1> USE DEF Typed
  <1>1. ASSUME NEW f \in Statements, ApplyStatement(s, f)
        PROVE  Typed'
    <2>1. \A l \in Creditable(f) : row[l].claim \in Claims
      BY DEF Creditable, RowsOf, StoredRows, Uploaded, MatchedNames
    <2>2. CreditPass(f, "apply") \in Job
      BY <2>1, CreditPassTyped
    <2>3. job' \in [Slots -> Job]
      BY <1>1, <2>2, BeginTyped DEF ApplyStatement, TypeOK
    <2> QED BY <1>1, <2>3 DEF ApplyStatement, TypeOK, MatchedNames
  <1>2. ASSUME NEW f \in Statements, Purge(s, f)
        PROVE  Typed'
    BY <1>2 DEF Purge, TypeOK, StatementStatus, MatchedNames
  <1>3. ASSUME NEW f \in Statements, NEW found \in Found, Sweep(s, f, found) \/ RematchStatement(s, f, found)
        PROVE  Typed'
    <2>1. PICK then \in {"watch", "return"} : Rematch(s, f, found, then)
      BY <1>3 DEF Sweep, RematchStatement
    <2>2. TypeOK'
      BY <2>1, RematchTyped
    <2>3. UNCHANGED row
      BY <2>1 DEF Rematch
    <2> QED BY <2>2, <2>3 DEF MatchedNames
  <1>4. ASSUME NEW l \in Lines, LeaveLine(s, l)
        PROVE  Typed'
    <2>1. [at |-> "leave", line |-> l] \in Job
      BY DEF Job
    <2>2. job' \in [Slots -> Job]
      BY <1>4, <2>1, BeginTyped DEF LeaveLine, TypeOK
    <2> QED BY <1>4, <2>2 DEF LeaveLine, TypeOK, MatchedNames
  <1>5. ASSUME NEW l \in Lines, NEW c \in Claims, CreditByHand(s, l, c)
        PROVE  Typed'
    <2>1. [at |-> "settle", line |-> l, claim |-> c] \in Job
      BY DEF Job
    <2>2. job' \in [Slots -> Job]
      BY <1>5, <2>1, BeginTyped DEF CreditByHand, TypeOK
    <2> QED BY <1>5, <2>2 DEF CreditByHand, TypeOK, MatchedNames
  <1> QED BY <1>1, <1>2, <1>3, <1>4, <1>5 DEF Request

LEMMA CrashTyped ==
  ASSUME Typed, NEW P \in Processes, Crash(P)
  PROVE  Typed'
  <1>1. job' \in [Slots -> Job]
    BY IdleJob DEF Crash, Typed, TypeOK
  <1>2. crashes' \in 0..MaxCrashes
    BY StatementAssumption DEF Crash, Typed, TypeOK
  <1> QED BY <1>1, <1>2 DEF Crash, Typed, TypeOK, MatchedNames

(* An upload matches to claims only. *)
LEMMA UploadNames ==
  ASSUME Typed, Uploads
  PROVE  MatchedNames'
  <1>1. PICK f \in Statements, L \in SUBSET Lines, found \in Found :
          \E about \in [L -> [keys : Keys, sort : Sorts]] : UploadStatement(f, about, found)
    BY DEF Uploads
  <1>2. PICK about \in [L -> [keys : Keys, sort : Sorts]] : UploadStatement(f, about, found)
    BY <1>1
  <1>3. Matching(about, found) \in Worklist
    BY MatchingTyped
  <1>4. \A l \in Lines :
          row'[l] = IF l \in L THEN StoredRow(f, about[l], l, Matching(about, found)) ELSE row[l]
    BY <1>2 DEF UploadStatement
  <1>5. \A l \in L : LET r == StoredRow(f, about[l], l, Matching(about, found)) IN
          r.match = "MATCHED" => r.claim \in Claims
    BY <1>3, WorklistElements DEF StoredRow
  <1> QED BY <1>4, <1>5 DEF Typed, MatchedNames

LEMMA NextTyped ==
  ASSUME Typed, [Next]_vars
  PROVE  Typed'
  <1>1. CASE ClaimNext /\ UNCHANGED <<statement, row, crashes>>
    BY <1>1, ClaimsTyped DEF Typed, MatchedNames
  <1>2. CASE Uploads
    BY <1>2, UploadTyped, UploadNames DEF Typed
  <1>3. CASE \E s \in Slots : Step(s) \/ Request(s)
    BY <1>3, StepTyped, RequestTyped
  <1>4. CASE \E P \in Processes : Crash(P)
    BY <1>4, CrashTyped
  <1>5. CASE UNCHANGED vars
    BY <1>5 DEF vars, Typed, TypeOK, MatchedNames
  <1> QED BY <1>1, <1>2, <1>3, <1>4, <1>5 DEF Next

LEMMA InitTyped == Init => Typed
  BY IdleJob, StatementAssumption
     DEF Init, ClaimInit, Typed, TypeOK, MatchedNames, Claim, Row, StatementStatus

LEMMA AlwaysTyped == Spec => []Typed
  BY InitTyped, NextTyped, PTL DEF Spec

(* Claims, rows, statements and handlers in flight stay well typed; what a *)
(* pass goes through are lines, each with a claim.                         *)
THEOREM ReconciliationTypeCorrect == Spec => []TypeOK
  BY AlwaysTyped, PTL DEF Typed

(***************************************************************************)
(* What no step undoes.                                                    *)
(***************************************************************************)

(* A claim keeps its reference and is never pending again; a credit stays, *)
(* and a new one is for a claim that was pending until now.                *)
LEMMA ClaimsKeep ==
  ASSUME Typed, [Next]_vars, NEW c \in Claims
  PROVE  /\ claim[c] # NoClaim => /\ claim'[c] # NoClaim /\ claim'[c].ref = claim[c].ref
                                  /\ Pending(c)' => Pending(c)
         /\ credit \subseteq credit'
         /\ \A k \in credit' \ credit : Pending(k.claim) /\ ~Pending(k.claim)' /\ k.claim \in Claims
         /\ \A j, k \in credit' \ credit : j = k
  <1> USE DEF Typed, TypeOK
  <1>1. ASSUME NEW d \in Claims, NEW l, NEW by, Settle(d, l, by)
        PROVE  /\ claim[c] # NoClaim => /\ claim'[c] # NoClaim /\ claim'[c].ref = claim[c].ref
                                        /\ Pending(c)' => Pending(c)
               /\ credit \subseteq credit'
               /\ \A k \in credit' \ credit : Pending(k.claim) /\ ~Pending(k.claim)' /\ k.claim \in Claims
               /\ \A j, k \in credit' \ credit : j = k
    <2>1. Pending(d) /\ claim' = [claim EXCEPT ![d].status = "VERIFIED"]
      BY <1>1 DEF Settle
    <2>2. claim[d] \in [status : ClaimStatus, ref : References]
      BY <2>1 DEF Pending, Filed, Claim, NoClaim
    <2>3. claim'[d] # NoClaim /\ claim'[d].ref = claim[d].ref /\ claim'[d].status = "VERIFIED"
      BY <2>1, <2>2 DEF NoClaim
    <2>4. \A e \in Claims : e # d => claim'[e] = claim[e]
      BY <2>1
    <2>5. ~Pending(d)'
      BY <2>3 DEF Pending, Filed
    <2>6. /\ credit \subseteq credit'
          /\ \A k \in credit' \ credit : k.claim = d
          /\ \A j, k \in credit' \ credit : j = k
      BY <1>1 DEF Settle
    <2> QED BY <2>1, <2>3, <2>4, <2>5, <2>6 DEF Pending, Filed
  <1>2. CASE UNCHANGED <<claim, credit>>
    BY <1>2 DEF Pending, Filed
  <1>3. ASSUME NEW s \in Slots, FileClaim(s)
        PROVE  /\ claim[c] # NoClaim => claim'[c] = claim[c]
               /\ credit' = credit
    BY <1>3 DEF FileClaim
  <1>4. ASSUME NEW d \in Claims, RejectClaim(d) \/ RequestInfo(d)
        PROVE  /\ claim[c] # NoClaim => /\ claim'[c] # NoClaim /\ claim'[c].ref = claim[c].ref
                                        /\ Pending(c)' => Pending(c)
               /\ credit' = credit
    <2>1. claim[d] # NoClaim
      BY <1>4 DEF RejectClaim, RequestInfo, Pending, Filed, NoClaim
    <2>2. claim[d] \in [status : ClaimStatus, ref : References]
      BY <2>1 DEF Claim
    <2>3. PICK status \in {"REJECTED", "REQUEST_INFO"} : claim' = [claim EXCEPT ![d].status = status]
      BY <1>4 DEF RejectClaim, RequestInfo
    <2>4. claim'[d] # NoClaim /\ claim'[d].ref = claim[d].ref /\ claim'[d].status = status
      BY <2>2, <2>3 DEF NoClaim
    <2>5. \A e \in Claims : e # d => claim'[e] = claim[e]
      BY <2>3
    <2>6. credit' = credit
      BY <1>4 DEF RejectClaim, RequestInfo
    <2> QED BY <2>4, <2>5, <2>6 DEF Pending, Filed
  <1>5. CASE ClaimNext
    <2>1. CASE \E s \in Slots, d \in Claims, r \in References : SubmitReference(s, d, r)
      BY <2>1, <1>2 DEF SubmitReference
    <2>2. CASE \E d \in Claims : VerifyClaim(d)
      BY <2>2, <1>1 DEF VerifyClaim
    <2>3. CASE \E d \in Claims : RejectClaim(d) \/ RequestInfo(d)
      BY <2>3, <1>4
    <2> QED BY <1>5, <2>1, <2>2, <2>3 DEF ClaimNext
  <1>6. CASE Uploads
    BY <1>6, <1>2 DEF Uploads, UploadStatement
  <1>7. ASSUME NEW s \in Slots, Step(s)
        PROVE  \/ FileClaim(s) \/ UNCHANGED <<claim, credit>>
               \/ \E d \in Claims, l \in Lines, by \in {"machine", "hand"} : Settle(d, l, by)
    <2>1. CASE \E l \in Lines : CreditLine(s, l)
      <3>1. PICK l \in Lines : CreditLine(s, l)
        BY <2>1
      <3>2. job[s].todo[l] \in Claims
        BY <3>1, RunningJob, WorklistElements DEF CreditLine
      <3> QED BY <3>1, <3>2 DEF CreditLine, SettlementFails
    <2>2. CASE SettleByHand(s)
      <3>1. job[s].line \in Lines /\ job[s].claim \in Claims
        BY <2>2, RunningJob DEF SettleByHand
      <3> QED BY <2>2, <3>1 DEF SettleByHand, SettlementFails
    <2>3. CASE \E l \in Lines : WriteMatch(s, l)
      BY <2>3 DEF WriteMatch
    <2>4. CASE ListMatched(s) \/ MarkLine(s) \/ FinishPass(s) \/ RecordDecision(s) \/ RecordCredit(s)
      BY <2>4 DEF ListMatched, MarkLine, FinishPass, RecordDecision, RecordCredit
    <2> QED BY <1>7, <2>1, <2>2, <2>3, <2>4 DEF Step
  <1>8. CASE \E s \in Slots : Step(s)
    BY <1>8, <1>7, <1>1, <1>2, <1>3 DEF Pending, Filed
  <1>9. CASE \E s \in Slots : Request(s)
    BY <1>9, <1>2 DEF Request, ApplyStatement, Purge, Sweep, RematchStatement, Rematch, LeaveLine, CreditByHand
  <1>10. CASE \E P \in Processes : Crash(P)
    BY <1>10, <1>2 DEF Crash
  <1>11. CASE UNCHANGED vars
    BY <1>11, <1>2 DEF vars
  <1> QED BY <1>5, <1>6, <1>8, <1>9, <1>10, <1>11 DEF Next

(* A stored line stays what the bank printed, matched once is matched for  *)
(* good, and a credited one stays credited.                                *)
RowKept(l) ==
  row[l] # NoRow =>
    /\ row'[l] # NoRow /\ row'[l].keys = row[l].keys /\ row'[l].sort = row[l].sort
    /\ row'[l].file = row[l].file
    /\ row[l].match # "UNMATCHED" => row'[l].match # "UNMATCHED"
    /\ row[l].credited => row'[l].credited

(* A step writes one row, or it is an upload, or it writes none. *)
LEMMA RowWritten ==
  ASSUME Typed, NEW s \in Slots, Step(s)
  PROVE  \/ UNCHANGED row
         \/ \E l \in StoredRows :
              \/ \E c \in Claims :
                   /\ job[s].at = "match" /\ l \in DOMAIN job[s].found /\ job[s].found[l] = c
                   /\ row' = [row EXCEPT ![l] = [@ EXCEPT !.match = "MATCHED", !.claim = c]]
              \/ /\ At(s, "mark") /\ job[s].line = l /\ job[s].as = "credited"
                 /\ row' = [row EXCEPT ![l] = [@ EXCEPT !.credited = TRUE]]
              \/ row' = [row EXCEPT ![l] = [@ EXCEPT !.match = "ALREADY_SETTLED"]]
              \/ row' = [row EXCEPT ![l] = [@ EXCEPT !.decided = TRUE]]
              \/ \E c \in Claims :
                   /\ At(s, "record") /\ job[s].line = l
                   /\ row' = [row EXCEPT ![l] = [@ EXCEPT !.match = "MATCHED", !.claim = c,
                                                          !.credited = TRUE, !.decided = TRUE]]
  <1> USE DEF Typed, TypeOK
  <1>1. ASSUME NEW l \in Lines, WriteMatch(s, l)
        PROVE  \/ UNCHANGED row
               \/ /\ l \in StoredRows
                  /\ job[s].at = "match" /\ l \in DOMAIN job[s].found /\ job[s].found[l] \in Claims
                  /\ row' = [row EXCEPT ![l] = [@ EXCEPT !.match = "MATCHED", !.claim = job[s].found[l]]]
    <2>1. job[s].at = "match" /\ l \in DOMAIN job[s].found /\ job[s].found[l] \in Claims
      BY <1>1, RunningJob, WorklistElements DEF WriteMatch, At
    <2>2. CASE l \in StoredRows
      BY <1>1, <2>1, <2>2 DEF WriteMatch
    <2>3. CASE l \notin StoredRows
      BY <1>1, <2>3 DEF WriteMatch
    <2> QED BY <2>2, <2>3
  <1>2. CASE MarkLine(s)
    <2>1. CASE job[s].line \notin StoredRows
      BY <1>2, <2>1 DEF MarkLine
    <2>2. CASE job[s].line \in StoredRows /\ job[s].as = "credited"
      BY <1>2, <2>2 DEF MarkLine
    <2>3. CASE job[s].line \in StoredRows /\ job[s].as # "credited"
      BY <1>2, <2>3 DEF MarkLine
    <2> QED BY <2>1, <2>2, <2>3
  <1>3. CASE RecordDecision(s)
    <2>1. CASE job[s].line \notin StoredRows
      BY <1>3, <2>1 DEF RecordDecision
    <2>2. CASE job[s].line \in StoredRows
      BY <1>3, <2>2 DEF RecordDecision
    <2> QED BY <2>1, <2>2
  <1>4. CASE RecordCredit(s)
    <2>1. CASE job[s].line \notin StoredRows
      BY <1>4, <2>1 DEF RecordCredit
    <2>2. CASE job[s].line \in StoredRows
      <3>1. job[s].claim \in Claims
        BY <1>4, RunningJob DEF RecordCredit
      <3> QED BY <1>4, <2>2, <3>1 DEF RecordCredit
    <2> QED BY <2>1, <2>2
  <1>5. CASE (FileClaim(s) /\ UNCHANGED row) \/ ListMatched(s) \/ FinishPass(s) \/ SettleByHand(s)
    BY <1>5 DEF ListMatched, FinishPass, SettleByHand
  <1>6. CASE \E l \in Lines : CreditLine(s, l)
    BY <1>6 DEF CreditLine
  <1>7. CASE \E l \in Lines : WriteMatch(s, l)
    BY <1>7, <1>1
  <1> QED BY <1>2, <1>3, <1>4, <1>5, <1>6, <1>7 DEF Step

LEMMA RequestRows ==
  ASSUME NEW s \in Slots, Request(s)
  PROVE  UNCHANGED <<claim, credit, row>>
  BY DEF Request, ApplyStatement, Purge, Sweep, RematchStatement, Rematch, LeaveLine, CreditByHand

LEMMA RowsKeep ==
  ASSUME Typed, [Next]_vars, NEW l \in Lines
  PROVE  RowKept(l)
  <1> USE DEF RowKept
  <1>1. CASE UNCHANGED row
    BY <1>1
  <1>2. CASE Uploads
    BY <1>2 DEF Uploads, UploadStatement, Uploaded
  <1>3. ASSUME NEW s \in Slots, Step(s)
        PROVE  RowKept(l)
    <2> SUFFICES ASSUME row[l] # NoRow PROVE RowKept(l)
      OBVIOUS
    <2>1. /\ row \in [Lines -> Row]
          /\ row[l] \in [uploaded : {TRUE}, file : Statements, keys : Keys, sort : Sorts, match : Verdicts,
                         claim : Claims \cup {NoClaim}, credited : BOOLEAN, decided : BOOLEAN]
      BY RowFields DEF Typed, TypeOK
    <2>2. CASE row'[l] = row[l]
      BY <2>2
    <2>3. CASE row'[l] # row[l]
      <3>1. \/ \E c \in Claims : row'[l] = [row[l] EXCEPT !.match = "MATCHED", !.claim = c]
            \/ row'[l] = [row[l] EXCEPT !.credited = TRUE]
            \/ row'[l] = [row[l] EXCEPT !.match = "ALREADY_SETTLED"]
            \/ row'[l] = [row[l] EXCEPT !.decided = TRUE]
            \/ \E c \in Claims : row'[l] = [row[l] EXCEPT !.match = "MATCHED", !.claim = c,
                                                          !.credited = TRUE, !.decided = TRUE]
        <4>1. PICK k \in StoredRows :
                \/ \E c \in Claims : row' = [row EXCEPT ![k] = [@ EXCEPT !.match = "MATCHED", !.claim = c]]
                \/ row' = [row EXCEPT ![k] = [@ EXCEPT !.credited = TRUE]]
                \/ row' = [row EXCEPT ![k] = [@ EXCEPT !.match = "ALREADY_SETTLED"]]
                \/ row' = [row EXCEPT ![k] = [@ EXCEPT !.decided = TRUE]]
                \/ \E c \in Claims :
                     row' = [row EXCEPT ![k] = [@ EXCEPT !.match = "MATCHED", !.claim = c,
                                                         !.credited = TRUE, !.decided = TRUE]]
          BY <1>3, <2>3, RowWritten
        <4>2. k = l
          BY <2>1, <2>3, <4>1
        <4> QED BY <2>1, <4>1, <4>2
      <3> QED BY <2>1, <3>1 DEF NoRow
    <2> QED BY <2>2, <2>3
  <1>4. CASE (ClaimNext /\ UNCHANGED <<statement, row, crashes>>) \/ UNCHANGED vars
    BY <1>4, <1>1 DEF vars
  <1>5. CASE \E s \in Slots : Request(s)
    BY <1>5, <1>1, RequestRows
  <1>6. CASE \E P \in Processes : Crash(P)
    BY <1>6, <1>1 DEF Crash
  <1> QED BY <1>2, <1>3, <1>4, <1>5, <1>6 DEF Next

(* A purged statement stays purged. *)
LEMMA StoredKept ==
  ASSUME Typed, [Next]_vars, NEW l \in Lines, row[l] # NoRow, l \in StoredRows'
  PROVE  l \in StoredRows
  <1>1. row'[l].file = row[l].file
    BY RowsKeep DEF RowKept
  <1>2. row[l].file \in Statements
    <2>1. row[l] \in Row
      BY DEF Typed, TypeOK
    <2> QED BY <2>1, RowFields
  <1>3. \A f \in Statements : statement[f] = "PURGED" => statement'[f] = "PURGED"
    <2>1. ASSUME NEW s \in Slots, Step(s)
          PROVE  UNCHANGED statement \/ FinishPass(s)
      BY <2>1 DEF Step, WriteMatch, CreditLine, ListMatched, MarkLine, RecordDecision, SettleByHand, RecordCredit
    <2>2. ASSUME NEW s \in Slots, FinishPass(s)
          PROVE  \A f \in Statements : statement[f] = "PURGED" => statement'[f] = "PURGED"
      BY <2>2 DEF FinishPass, Typed, TypeOK
    <2>3. ASSUME NEW s \in Slots, Request(s)
          PROVE  UNCHANGED statement \/ \E f \in Statements : Purge(s, f)
      BY <2>3 DEF Request, ApplyStatement, Sweep, RematchStatement, Rematch, LeaveLine, CreditByHand
    <2>4. ASSUME NEW s \in Slots, NEW g \in Statements, Purge(s, g)
          PROVE  \A f \in Statements : statement[f] = "PURGED" => statement'[f] = "PURGED"
      BY <2>4 DEF Purge, Typed, TypeOK
    <2>5. CASE Uploads
      BY <2>5 DEF Uploads, UploadStatement, Typed, TypeOK
    <2>6. CASE (ClaimNext /\ UNCHANGED <<statement, row, crashes>>) \/ UNCHANGED vars
               \/ \E P \in Processes : Crash(P)
      BY <2>6 DEF vars, Crash
    <2> QED BY <2>1, <2>2, <2>3, <2>4, <2>5, <2>6 DEF Next
  <1> QED BY <1>1, <1>2, <1>3 DEF StoredRows, Uploaded

(***************************************************************************)
(* What a line is for.  A line spends on a claim when its row is MATCHED   *)
(* to it and not credited, when a pass has it on its list to credit, or    *)
(* when a pass has credited it; a line aims at a claim when, besides, a    *)
(* rematch has found it and not yet written it.                            *)
(***************************************************************************)

JobSpends(j, l, c) == j.at \in {"credit", "mark"} /\ l \in DOMAIN j.todo /\ j.todo[l] = c
JobFinds(j, l, c) == j.at = "match" /\ l \in DOMAIN j.found /\ j.found[l] = c
RowSpends(l, c) ==
  row[l] # NoRow /\ row[l].match = "MATCHED" /\ ~row[l].credited /\ row[l].claim = c
HasPaid(l, c) == \E k \in credit : k.by = "machine" /\ k.line = l /\ k.claim = c

Spends(l, c) == RowSpends(l, c) \/ HasPaid(l, c) \/ \E s \in Slots : JobSpends(job[s], l, c)
Aims(l, c) == Spends(l, c) \/ \E s \in Slots : JobFinds(job[s], l, c)

(* What a line that was not matched may be matched to. *)
Offered(keys, c) == \E found \in Found : OneKind(Named(keys, found)) /\ c \in Named(keys, found)
Fresh(l, c) ==
  /\ row[l] # NoRow /\ row[l].sort = "exact"
  /\ \E keys \in Keys : row[l].keys = keys /\ Offered(keys, c)
NotMatched(l) == row[l] = NoRow \/ row[l].match = "UNMATCHED"

(* Where the aims of the handlers come from when one of them moves. *)
LEMMA JobMoves ==
  ASSUME job \in [Slots -> Job], NEW s \in Slots, NEW j, job' = [job EXCEPT ![s] = j],
         NEW l, NEW c
  PROVE  /\ (\E t \in Slots : JobSpends(job'[t], l, c)) =>
              (\E t \in Slots : JobSpends(job[t], l, c)) \/ JobSpends(j, l, c)
         /\ (\E t \in Slots : JobFinds(job'[t], l, c)) =>
              (\E t \in Slots : JobFinds(job[t], l, c)) \/ JobFinds(j, l, c)
  <1>1. \A t \in Slots : job'[t] = IF t = s THEN j ELSE job[t]
    OBVIOUS
  <1> QED BY <1>1

LEMMA JobRests ==
  ASSUME NEW j, j.at \notin {"match", "credit", "mark"}, NEW l, NEW c
  PROVE  ~JobSpends(j, l, c) /\ ~JobFinds(j, l, c)
  BY DEF JobSpends, JobFinds

LEMMA IdleRests ==
  ASSUME NEW l, NEW c
  PROVE  ~JobSpends(Idle, l, c) /\ ~JobFinds(Idle, l, c)
  <1>1. Idle.at \notin {"match", "credit", "mark"}
    BY DEF Idle
  <1> QED BY <1>1, JobRests

(* The list of a pass is of rows that spend. *)
LEMMA PassSpends ==
  ASSUME NEW f, NEW then, NEW l, NEW c, JobSpends(CreditPass(f, then), l, c)
  PROVE  RowSpends(l, c)
  <1>1. l \in Creditable(f) /\ row[l].claim = c
    BY DEF JobSpends, CreditPass
  <1> QED BY <1>1 DEF RowSpends, Creditable, Open, RowsOf, StoredRows, Uploaded

(* A handler's step makes a line spend on what the line aimed at, and aims *)
(* at nothing new.                                                         *)
LEMMA StepAims ==
  ASSUME Typed, NEW s \in Slots, Step(s), NEW l \in Lines, NEW c \in Claims
  PROVE  /\ Aims(l, c)' => Aims(l, c)
         /\ Spends(l, c)' => Spends(l, c) \/ (row'[l] # NoRow /\ row'[l].match # "UNMATCHED")
  <1> USE DEF Typed, TypeOK
  <1>1. CASE FileClaim(s) /\ UNCHANGED <<statement, row, crashes>>
    <2>1. Return(s) /\ UNCHANGED <<row, credit>>
      BY <1>1 DEF FileClaim
    <2> QED BY <2>1, JobMoves, IdleRests DEF Return, Continue, Aims, Spends, RowSpends, HasPaid
  <1>2. ASSUME NEW k \in Lines, WriteMatch(s, k)
        PROVE  /\ Aims(l, c)' => Aims(l, c)
               /\ Spends(l, c)' => Spends(l, c) \/ (row'[l] # NoRow /\ row'[l].match # "UNMATCHED")
    <2> DEFINE rest == [m \in DOMAIN job[s].found \ {k} |-> job[s].found[m]]
               j == [job[s] EXCEPT !.found = rest]
    <2>1. /\ job[s].at = "match" /\ k \in DOMAIN job[s].found
          /\ job' = [job EXCEPT ![s] = j] /\ UNCHANGED credit
      BY <1>2 DEF WriteMatch, At, Continue
    <2>2. job[s] = [at |-> "match", found |-> job[s].found, file |-> job[s].file, then |-> job[s].then]
      BY <2>1, RunningJob DEF At
    <2>3. ~JobSpends(j, l, c) /\ (JobFinds(j, l, c) => JobFinds(job[s], l, c))
      <3>1. j.at = "match" /\ j.found = rest
        BY <2>2
      <3> HIDE DEF j
      <3> QED BY <2>1, <3>1 DEF JobSpends, JobFinds
    <2>4. RowSpends(l, c)' => RowSpends(l, c) \/ JobFinds(job[s], l, c)
      <3>1. CASE k \in StoredRows /\ l = k
        <4>1. row[l] \in [uploaded : {TRUE}, file : Statements, keys : Keys, sort : Sorts, match : Verdicts,
                claim : Claims \cup {NoClaim}, credited : BOOLEAN, decided : BOOLEAN]
          BY <3>1, StoredIsRow
        <4>2. row'[l] = [row[l] EXCEPT !.match = "MATCHED", !.claim = job[s].found[k]]
          BY <1>2, <3>1 DEF WriteMatch
        <4>3. row'[l].claim = job[s].found[k]
          BY <4>1, <4>2
        <4> QED BY <2>1, <3>1, <4>3 DEF RowSpends, JobFinds
      <3>2. CASE ~(k \in StoredRows /\ l = k)
        <4>1. row'[l] = row[l]
          BY <1>2, <3>2 DEF WriteMatch
        <4> QED BY <4>1 DEF RowSpends
      <3> QED BY <3>1, <3>2
    <2>5. RowSpends(l, c)' => row'[l] # NoRow /\ row'[l].match # "UNMATCHED"
      BY DEF RowSpends
    <2>6. HasPaid(l, c)' = HasPaid(l, c)
      BY <2>1 DEF HasPaid
    <2> HIDE DEF j
    <2>7. /\ (\E t \in Slots : JobSpends(job'[t], l, c)) => \E t \in Slots : JobSpends(job[t], l, c)
          /\ (\E t \in Slots : JobFinds(job'[t], l, c)) => \E t \in Slots : JobFinds(job[t], l, c)
      BY <2>1, <2>3, JobMoves
    <2> QED BY <2>4, <2>5, <2>6, <2>7 DEF Aims, Spends
  <1>3. ASSUME NEW k \in Lines, CreditLine(s, k)
        PROVE  (Aims(l, c)' => Aims(l, c)) /\ (Spends(l, c)' => Spends(l, c))
    <2> DEFINE rest == [m \in DOMAIN job[s].todo \ {k} |-> job[s].todo[m]]
               Mark(as) == [at |-> "mark", line |-> k, as |-> as, todo |-> rest,
                            file |-> job[s].file, then |-> job[s].then]
               go == [job[s] EXCEPT !.todo = rest]
    <2>1. job[s].at = "credit" /\ k \in DOMAIN job[s].todo /\ UNCHANGED row
      BY <1>3 DEF CreditLine, At
    <2>2. job[s] = [at |-> "credit", todo |-> job[s].todo, file |-> job[s].file, then |-> job[s].then]
      BY <2>1, RunningJob DEF At
    <2>3. \/ Settle(job[s].todo[k], k, "machine") /\ job' = [job EXCEPT ![s] = Mark("credited")]
          \/ UNCHANGED credit /\ job' = [job EXCEPT ![s] = go]
          \/ UNCHANGED credit /\ job' = [job EXCEPT ![s] = Mark("ALREADY_SETTLED")]
      BY <1>3 DEF CreditLine, SettlementFails, Continue
    <2>4. \A as : ~JobFinds(Mark(as), l, c) /\ (JobSpends(Mark(as), l, c) => JobSpends(job[s], l, c))
      BY <2>1 DEF JobSpends, JobFinds
    <2>5. ~JobFinds(go, l, c) /\ (JobSpends(go, l, c) => JobSpends(job[s], l, c))
      <3>1. go.at = "credit" /\ go.todo = rest
        BY <2>2
      <3> HIDE DEF go
      <3> QED BY <2>1, <3>1 DEF JobSpends, JobFinds
    <2>6. HasPaid(l, c)' => HasPaid(l, c) \/ JobSpends(job[s], l, c)
      BY <2>1, <2>3 DEF HasPaid, Settle, JobSpends
    <2> HIDE DEF go, Mark
    <2>7. PICK j : /\ job' = [job EXCEPT ![s] = j]
                   /\ ~JobFinds(j, l, c) /\ (JobSpends(j, l, c) => JobSpends(job[s], l, c))
      BY <2>3, <2>4, <2>5
    <2>8. /\ (\E t \in Slots : JobSpends(job'[t], l, c)) => \E t \in Slots : JobSpends(job[t], l, c)
          /\ (\E t \in Slots : JobFinds(job'[t], l, c)) => \E t \in Slots : JobFinds(job[t], l, c)
      BY <2>7, JobMoves
    <2>9. RowSpends(l, c)' = RowSpends(l, c)
      BY <2>1 DEF RowSpends
    <2> QED BY <2>6, <2>8, <2>9 DEF Aims, Spends
  <1>4. CASE ListMatched(s)
    <2>1. PICK j \in {CreditPass(job[s].file, "watch"), Idle} : job' = [job EXCEPT ![s] = j]
      BY <1>4 DEF ListMatched, Continue
    <2>2. ~JobFinds(j, l, c) /\ (JobSpends(j, l, c) => RowSpends(l, c))
      <3>1. CASE j = Idle
        BY <3>1, IdleRests
      <3>2. CASE j = CreditPass(job[s].file, "watch")
        <4>1. j.at = "credit"
          BY <3>2 DEF CreditPass
        <4> QED BY <3>2, <4>1, PassSpends DEF JobFinds
      <3> QED BY <3>1, <3>2
    <2>3. UNCHANGED <<row, credit>>
      BY <1>4 DEF ListMatched
    <2> QED BY <2>1, <2>2, <2>3, JobMoves DEF Aims, Spends, RowSpends, HasPaid
  <1>5. CASE MarkLine(s)
    <2> DEFINE j == [at |-> "credit", todo |-> job[s].todo, file |-> job[s].file, then |-> job[s].then]
    <2>1. job[s].at = "mark" /\ job' = [job EXCEPT ![s] = j] /\ UNCHANGED credit
      BY <1>5 DEF MarkLine, At, Continue
    <2>2. ~JobFinds(j, l, c) /\ (JobSpends(j, l, c) => JobSpends(job[s], l, c))
      BY <2>1 DEF JobFinds, JobSpends
    <2>3. RowSpends(l, c)' => RowSpends(l, c)
      <3>1. CASE job[s].line \in StoredRows /\ l = job[s].line
        <4>1. row[l] \in [uploaded : {TRUE}, file : Statements, keys : Keys, sort : Sorts, match : Verdicts,
                claim : Claims \cup {NoClaim}, credited : BOOLEAN, decided : BOOLEAN]
          BY <3>1, StoredIsRow
        <4>2. row'[l] = [row[l] EXCEPT !.credited = TRUE] \/ row'[l] = [row[l] EXCEPT !.match = "ALREADY_SETTLED"]
          BY <1>5, <3>1 DEF MarkLine
        <4>3. row'[l].credited \/ row'[l].match # "MATCHED"
          BY <4>1, <4>2
        <4> QED BY <4>3 DEF RowSpends
      <3>2. CASE ~(job[s].line \in StoredRows /\ l = job[s].line)
        <4>1. row'[l] = row[l]
          BY <1>5, <3>2 DEF MarkLine
        <4> QED BY <4>1 DEF RowSpends
      <3> QED BY <3>1, <3>2
    <2> HIDE DEF j
    <2> QED BY <2>1, <2>2, <2>3, JobMoves DEF Aims, Spends, HasPaid
  <1>6. CASE FinishPass(s)
    <2>1. Return(s) /\ UNCHANGED <<row, credit>>
      BY <1>6 DEF FinishPass
    <2> QED BY <2>1, JobMoves, IdleRests DEF Return, Continue, Aims, Spends, RowSpends, HasPaid
  <1>7. CASE RecordDecision(s) \/ RecordCredit(s)
    <2>1. Return(s) /\ UNCHANGED credit
      BY <1>7 DEF RecordDecision, RecordCredit
    <2>2. RowSpends(l, c)' => RowSpends(l, c)
      <3>1. CASE job[s].line \in StoredRows /\ l = job[s].line
        <4>1. row[l] \in [uploaded : {TRUE}, file : Statements, keys : Keys, sort : Sorts, match : Verdicts,
                claim : Claims \cup {NoClaim}, credited : BOOLEAN, decided : BOOLEAN] /\ row[l] # NoRow
          BY <3>1, StoredIsRow
        <4>2. \/ row'[l] = [row[l] EXCEPT !.decided = TRUE]
              \/ row'[l] = [row[l] EXCEPT !.match = "MATCHED", !.claim = job[s].claim,
                                          !.credited = TRUE, !.decided = TRUE]
          BY <1>7, <3>1 DEF RecordDecision, RecordCredit
        <4>3. CASE row'[l] = [row[l] EXCEPT !.decided = TRUE]
          BY <4>1, <4>3 DEF RowSpends
        <4>4. CASE row'[l] = [row[l] EXCEPT !.match = "MATCHED", !.claim = job[s].claim,
                                            !.credited = TRUE, !.decided = TRUE]
          BY <4>1, <4>4 DEF RowSpends
        <4> QED BY <4>2, <4>3, <4>4
      <3>2. CASE ~(job[s].line \in StoredRows /\ l = job[s].line)
        <4>1. row'[l] = row[l]
          BY <1>7, <3>2 DEF RecordDecision, RecordCredit
        <4> QED BY <4>1 DEF RowSpends
      <3> QED BY <3>1, <3>2
    <2> QED BY <2>1, <2>2, JobMoves, IdleRests DEF Return, Continue, Aims, Spends, HasPaid
  <1>8. CASE SettleByHand(s)
    <2> DEFINE j == [at |-> "record", line |-> job[s].line, claim |-> job[s].claim]
    <2>1. /\ job' = [job EXCEPT ![s] = j] \/ job' = [job EXCEPT ![s] = Idle]
          /\ UNCHANGED row
      BY <1>8 DEF SettleByHand, Return, Continue
    <2>2. HasPaid(l, c)' => HasPaid(l, c)
      BY <1>8 DEF SettleByHand, SettlementFails, Settle, HasPaid
    <2>3. ~JobSpends(j, l, c) /\ ~JobFinds(j, l, c)
      BY JobRests
    <2> HIDE DEF j
    <2> QED BY <2>1, <2>2, <2>3, JobMoves, IdleRests DEF Aims, Spends, RowSpends
  <1> QED BY <1>1, <1>2, <1>3, <1>4, <1>5, <1>6, <1>7, <1>8 DEF Step

(* An upload and a rematch aim lines at claims; they do so afresh. *)
LEMMA NamedCites ==
  ASSUME NEW keys, NEW found, NEW c \in Named(keys, found)
  PROVE  c \in Claims /\ claim[c] # NoClaim /\ claim[c].ref \in Carried(keys)
  BY DEF Named, Citing

LEMMA OfferStands ==
  ASSUME UNCHANGED claim, NEW keys, NEW c
  PROVE  Offered(keys, c)' = Offered(keys, c)
  BY DEF Offered, Named, Citing, Visible, Filed, Found, OneKind

LEMMA UploadAims ==
  ASSUME Typed, Uploads, NEW l \in Lines, NEW c \in Claims
  PROVE  /\ Aims(l, c)' => Aims(l, c) \/ (Fresh(l, c)' /\ NotMatched(l))
         /\ Spends(l, c)' => Spends(l, c) \/ (row'[l] # NoRow /\ row'[l].match # "UNMATCHED")
         /\ UNCHANGED <<claim, credit, job>>
  <1>1. PICK f \in Statements, L \in SUBSET Lines, found \in Found :
          \E about \in [L -> [keys : Keys, sort : Sorts]] : UploadStatement(f, about, found)
    BY DEF Uploads
  <1>2. PICK about \in [L -> [keys : Keys, sort : Sorts]] : UploadStatement(f, about, found)
    BY <1>1
  <1> DEFINE m == Matching(about, found)
  <1>3. /\ DOMAIN m \subseteq L
        /\ \A k \in DOMAIN m : /\ about[k].sort = "exact"
                               /\ OneKind(Named(about[k].keys, found))
                               /\ m[k] \in Named(about[k].keys, found)
    BY MatchingTyped
  <1> HIDE DEF m
  <1>4. UNCHANGED <<claim, credit, job>>
    BY <1>2 DEF UploadStatement
  <1>5. row'[l] = IF l \in L THEN StoredRow(f, about[l], l, m) ELSE row[l]
    BY <1>2 DEF UploadStatement, m
  <1>6. \A k \in L : row[k] = NoRow
    BY <1>2 DEF UploadStatement, Uploaded
  <1>7. RowSpends(l, c)' => RowSpends(l, c) \/ (Fresh(l, c)' /\ row[l] = NoRow)
    <2>1. CASE l \in L
      <3> SUFFICES ASSUME RowSpends(l, c)' PROVE Fresh(l, c)' /\ row[l] = NoRow
        OBVIOUS
      <3>1. l \in DOMAIN m /\ c = m[l]
        BY <1>5, <2>1 DEF RowSpends, StoredRow
      <3>2. row'[l].sort = about[l].sort /\ row'[l].keys = about[l].keys /\ row'[l] # NoRow
        BY <1>5, <2>1 DEF RowSpends, StoredRow
      <3>3. Offered(about[l].keys, c)
        BY <1>3, <3>1 DEF Offered
      <3>4. Offered(about[l].keys, c)'
        BY <1>4, <3>3, OfferStands
      <3>5. row'[l].sort = "exact" /\ about[l].keys \in Keys
        BY <1>3, <2>1, <3>1, <3>2
      <3> QED BY <1>6, <2>1, <3>2, <3>4, <3>5 DEF Fresh
    <2>2. CASE l \notin L
      BY <1>5, <2>2 DEF RowSpends
    <2> QED BY <2>1, <2>2
  <1>8. /\ HasPaid(l, c)' = HasPaid(l, c)
        /\ \A s \in Slots : job'[s] = job[s]
    BY <1>4 DEF HasPaid
  <1>9. RowSpends(l, c)' => row'[l] # NoRow /\ row'[l].match # "UNMATCHED"
    BY DEF RowSpends
  <1> QED BY <1>4, <1>7, <1>8, <1>9 DEF Aims, Spends, NotMatched

LEMMA RequestAims ==
  ASSUME Typed, NEW s \in Slots, Request(s), NEW l \in Lines, NEW c \in Claims
  PROVE  /\ Aims(l, c)' => Aims(l, c) \/ (Fresh(l, c)' /\ NotMatched(l))
         /\ Spends(l, c)' => Spends(l, c)
         /\ UNCHANGED <<claim, credit, row>>
  <1>1. UNCHANGED <<claim, credit, row>>
    BY RequestRows
  <1>2. job \in [Slots -> Job]
    BY DEF Typed, TypeOK
  <1>3. RowSpends(l, c)' = RowSpends(l, c) /\ HasPaid(l, c)' = HasPaid(l, c)
    BY <1>1 DEF RowSpends, HasPaid
  <1>4. ASSUME NEW f \in Statements, ApplyStatement(s, f)
        PROVE  (Aims(l, c)' => Aims(l, c)) /\ (Spends(l, c)' => Spends(l, c))
    <2>1. job' = [job EXCEPT ![s] = CreditPass(f, "apply")]
      BY <1>4 DEF ApplyStatement, Begin
    <2>2. ~JobFinds(CreditPass(f, "apply"), l, c)
      BY DEF JobFinds, CreditPass
    <2> QED BY <1>2, <1>3, <2>1, <2>2, JobMoves, PassSpends DEF Aims, Spends
  <1>5. ASSUME NEW f \in Statements, Purge(s, f)
        PROVE  (Aims(l, c)' => Aims(l, c)) /\ (Spends(l, c)' => Spends(l, c))
    <2>1. UNCHANGED job
      BY <1>5 DEF Purge
    <2> QED BY <1>3, <2>1 DEF Aims, Spends
  <1>6. ASSUME NEW f \in Statements, NEW found \in Found, NEW then, Rematch(s, f, found, then)
        PROVE  /\ Aims(l, c)' => Aims(l, c) \/ (Fresh(l, c)' /\ NotMatched(l))
               /\ Spends(l, c)' => Spends(l, c)
    <2> DEFINE m == Matching([k \in Rematchable(f) |-> row[k]], found)
               n == {k \in DOMAIN m : claim[m[k]].status # "VERIFIED"}
               j == [at |-> "match", found |-> [k \in n |-> m[k]], file |-> f, then |-> then]
    <2>1. job' = [job EXCEPT ![s] = j]
      BY <1>6 DEF Rematch, Begin
    <2>2. \A k \in n : /\ k \in Rematchable(f) /\ row[k].sort = "exact"
                       /\ OneKind(Named(row[k].keys, found)) /\ m[k] \in Named(row[k].keys, found)
      BY RematchFinds DEF Typed
    <2> HIDE DEF m, n
    <2>3. ~JobSpends(j, l, c) /\ (JobFinds(j, l, c) => l \in n /\ c = m[l])
      BY DEF JobSpends, JobFinds
    <2>4. l \in n /\ c = m[l] => Fresh(l, c) /\ NotMatched(l)
      <3> SUFFICES ASSUME l \in n, c = m[l] PROVE Fresh(l, c) /\ NotMatched(l)
        OBVIOUS
      <3>1. l \in StoredRows /\ row[l].match = "UNMATCHED"
        BY <2>2 DEF Rematchable, RowsOf
      <3>2. row[l].keys \in Keys /\ row[l] # NoRow
        BY <3>1, StoredIsRow DEF Typed
      <3>3. Offered(row[l].keys, c)
        BY <2>2 DEF Offered
      <3> QED BY <2>2, <3>1, <3>2, <3>3 DEF Fresh, NotMatched
    <2>5. Fresh(l, c) => Fresh(l, c)'
      BY <1>1, OfferStands DEF Fresh
    <2> HIDE DEF j
    <2> QED BY <1>2, <1>3, <2>1, <2>3, <2>4, <2>5, JobMoves DEF Aims, Spends
  <1>7. ASSUME NEW k \in Lines, LeaveLine(s, k) \/ \E d \in Claims : CreditByHand(s, k, d)
        PROVE  (Aims(l, c)' => Aims(l, c)) /\ (Spends(l, c)' => Spends(l, c))
    <2>1. PICK j : job' = [job EXCEPT ![s] = j] /\ j.at \in {"leave", "settle"}
      <3>1. [at |-> "leave", line |-> k].at = "leave"
        OBVIOUS
      <3>2. \A d : [at |-> "settle", line |-> k, claim |-> d].at = "settle"
        OBVIOUS
      <3> QED BY <1>7, <3>1, <3>2 DEF LeaveLine, CreditByHand, Begin
    <2> QED BY <1>2, <1>3, <2>1, JobMoves, JobRests DEF Aims, Spends
  <1> QED BY <1>1, <1>4, <1>5, <1>6, <1>7 DEF Request, Sweep, RematchStatement

(* Every aim of a line is an old one or a fresh one, and a row is matched  *)
(* by the step that lets its line spend.                                   *)
LEMMA NextAims ==
  ASSUME Typed, [Next]_vars, NEW l \in Lines, NEW c \in Claims
  PROVE  /\ Aims(l, c)' =>
              Aims(l, c) \/ (Fresh(l, c)' /\ NotMatched(l) /\ UNCHANGED <<claim, credit>>)
         /\ Spends(l, c)' => Spends(l, c) \/ (row'[l] # NoRow /\ row'[l].match # "UNMATCHED")
  <1>1. CASE ClaimNext /\ UNCHANGED <<statement, row, crashes>>
    <2>1. HasPaid(l, c)' => HasPaid(l, c)
      <3>1. credit' = credit \/ \E d \in Claims : VerifyClaim(d)
        BY <1>1 DEF ClaimNext, SubmitReference, RejectClaim, RequestInfo
      <3>2. ASSUME NEW d \in Claims, VerifyClaim(d)
            PROVE  credit' = credit \cup {[claim |-> d, line |-> NoLine, by |-> "admin"]}
        BY <3>2 DEF VerifyClaim, Settle
      <3> QED BY <3>1, <3>2 DEF HasPaid
    <2>2. RowSpends(l, c)' = RowSpends(l, c)
      BY <1>1 DEF RowSpends
    <2>3. job \in [Slots -> Job]
      BY DEF Typed, TypeOK
    <2>4. \/ UNCHANGED job
          \/ \E s \in Slots : \E j : job' = [job EXCEPT ![s] = j] /\ j.at = "file"
      <3>1. \A d, r : [at |-> "file", claim |-> d, ref |-> r].at = "file"
        OBVIOUS
      <3> QED BY <1>1, <3>1 DEF ClaimNext, SubmitReference, VerifyClaim, RejectClaim, RequestInfo, Begin
    <2>5. CASE UNCHANGED job
      BY <2>1, <2>2, <2>5 DEF Aims, Spends
    <2>6. CASE \E s \in Slots : \E j : job' = [job EXCEPT ![s] = j] /\ j.at = "file"
      BY <2>1, <2>2, <2>3, <2>6, JobMoves, JobRests DEF Aims, Spends
    <2> QED BY <2>4, <2>5, <2>6
  <1>2. CASE Uploads
    BY <1>2, UploadAims
  <1>3. CASE \E s \in Slots : Step(s)
    BY <1>3, StepAims
  <1>4. CASE \E s \in Slots : Request(s)
    BY <1>4, RequestAims
  <1>5. CASE \E P \in Processes : Crash(P)
    <2>1. PICK P \in Processes : Crash(P)
      BY <1>5
    <2>2. \A s \in Slots : job'[s] = Idle \/ job'[s] = job[s]
      BY <2>1 DEF Crash
    <2>3. UNCHANGED <<claim, credit, row>>
      BY <2>1 DEF Crash
    <2> QED BY <2>2, <2>3, IdleRests DEF Aims, Spends, RowSpends, HasPaid
  <1>6. CASE UNCHANGED vars
    BY <1>6 DEF vars, Aims, Spends, RowSpends, HasPaid
  <1> QED BY <1>1, <1>2, <1>3, <1>4, <1>5, <1>6 DEF Next

(***************************************************************************)
(* Credits.                                                                *)
(***************************************************************************)

(* The unique index of each table: one claim of a reference in it. *)
OneRef ==
  \A c, d \in Claims :
    /\ claim[c] # NoClaim /\ claim[d] # NoClaim /\ claim[c].ref = claim[d].ref
    /\ TableOf(c) = TableOf(d)
    => c = d

CreditsClosed == \A k \in credit : claim[k.claim] # NoClaim /\ ~Pending(k.claim)

(* What a line aims at is a claim of a reference that it carries, and it   *)
(* spends only once its row is no longer up for a match.                   *)
Fits(l, c) ==
  /\ row[l] # NoRow /\ row[l].sort = "exact"
  /\ claim[c] # NoClaim /\ claim[c].ref \in Carried(row[l].keys)
AimsFit ==
  \A l \in Lines, c \in Claims :
    (Aims(l, c) => Fits(l, c)) /\ (Spends(l, c) => row[l].match # "UNMATCHED")

(* A line of one reference aims at no two claims that may still be paid by *)
(* it or were.                                                             *)
Alive(l, c) == Pending(c) \/ HasPaid(l, c)
OneTarget ==
  \A l \in Lines : row[l] # NoRow /\ Len(row[l].keys) = 1 =>
    \A c, d \in Claims : Aims(l, c) /\ Aims(l, d) /\ Alive(l, c) /\ Alive(l, d) => c = d

CreditInv == Typed /\ OneRef /\ CreditsClosed /\ CreditedOnce /\ AimsFit /\ OneTarget

LEMMA OneRefStays ==
  ASSUME Typed, OneRef, [Next]_vars
  PROVE  OneRef'
  <1> USE DEF Typed, TypeOK
  <1>1. CASE \E s \in Slots : FileClaim(s)
    <2>1. PICK s \in Slots : FileClaim(s)
      BY <1>1
    <2> DEFINE c == job[s].claim
               r == job[s].ref
    <2>2. c \in Claims /\ r \in References
      BY <2>1, RunningJob DEF FileClaim
    <2>3. CASE claim[c] = NoClaim /\ Citing(r) \cap TableOf(c) = {}
      <3>1. claim' = [claim EXCEPT ![c] = [status |-> "VERIFICATION_PENDING", ref |-> r]]
        BY <2>1, <2>3 DEF FileClaim
      <3>2. claim'[c].ref = r /\ \A d \in Claims : d # c => claim'[d] = claim[d]
        BY <2>2, <3>1
      <3>3. \A d \in Claims : claim[d] # NoClaim /\ claim[d].ref = r => TableOf(d) # TableOf(c)
        BY <2>3 DEF Citing, TableOf, Claims
      <3> HIDE DEF c, r
      <3> QED BY <2>2, <3>2, <3>3 DEF OneRef
    <2>4. CASE ~(claim[c] = NoClaim /\ Citing(r) \cap TableOf(c) = {})
      <3>1. UNCHANGED claim
        BY <2>1, <2>4 DEF FileClaim
      <3> QED BY <3>1 DEF OneRef
    <2> QED BY <2>3, <2>4
  <1>2. ASSUME NEW d \in Claims, claim[d] # NoClaim, NEW status, claim' = [claim EXCEPT ![d].status = status]
        PROVE  OneRef'
    <2>1. claim[d] \in [status : ClaimStatus, ref : References]
      BY <1>2 DEF Claim
    <2>2. claim'[d].ref = claim[d].ref /\ \A e \in Claims : e # d => claim'[e] = claim[e]
      BY <1>2, <2>1
    <2> QED BY <1>2, <2>2 DEF OneRef
  <1>3. CASE UNCHANGED claim
    BY <1>3 DEF OneRef
  <1>4. \/ UNCHANGED claim \/ \E s \in Slots : FileClaim(s)
        \/ \E d \in Claims, status \in ClaimStatus :
             claim[d] # NoClaim /\ claim' = [claim EXCEPT ![d].status = status]
    <2>1. \A d \in Claims : Pending(d) => claim[d] # NoClaim
      BY DEF Pending, Filed, NoClaim
    <2>2. CASE ClaimNext
      BY <2>1, <2>2 DEF ClaimNext, SubmitReference, VerifyClaim, Settle, RejectClaim, RequestInfo, ClaimStatus
    <2>3. CASE Uploads
      BY <2>3 DEF Uploads, UploadStatement
    <2>4. ASSUME NEW s \in Slots, NEW l \in Lines, CreditLine(s, l)
          PROVE  UNCHANGED claim \/ \E d \in Claims : Pending(d) /\ claim' = [claim EXCEPT ![d].status = "VERIFIED"]
      <3>1. job[s].todo[l] \in Claims
        BY <2>4, RunningJob, WorklistElements DEF CreditLine
      <3> QED BY <2>4, <3>1 DEF CreditLine, SettlementFails, Settle
    <2>5. ASSUME NEW s \in Slots, SettleByHand(s)
          PROVE  UNCHANGED claim \/ \E d \in Claims : Pending(d) /\ claim' = [claim EXCEPT ![d].status = "VERIFIED"]
      <3>1. job[s].claim \in Claims
        BY <2>5, RunningJob DEF SettleByHand
      <3> QED BY <2>5, <3>1 DEF SettleByHand, SettlementFails, Settle
    <2>6. CASE \E s \in Slots : Step(s)
      BY <2>1, <2>4, <2>5, <2>6
         DEF Step, WriteMatch, ListMatched, MarkLine, FinishPass, RecordDecision, RecordCredit, ClaimStatus
    <2>7. CASE \E s \in Slots : Request(s)
      BY <2>7, RequestRows
    <2>8. CASE (\E P \in Processes : Crash(P)) \/ UNCHANGED vars
      BY <2>8 DEF Crash, vars
    <2> QED BY <2>2, <2>3, <2>6, <2>7, <2>8 DEF Next
  <1> QED BY <1>1, <1>2, <1>3, <1>4

LEMMA CreditsStay ==
  ASSUME CreditInv, [Next]_vars
  PROVE  CreditsClosed' /\ CreditedOnce'
  <1>1. \A k \in credit : k.claim \in Claims
    BY DEF CreditInv, Typed, TypeOK, Credit
  <1>2. \A k \in credit : claim'[k.claim] # NoClaim /\ ~Pending(k.claim)'
    BY <1>1, ClaimsKeep DEF CreditInv, CreditsClosed
  <1>3. /\ \A k \in credit' \ credit : Pending(k.claim) /\ ~Pending(k.claim)' /\ k.claim \in Claims
        /\ \A j, k \in credit' \ credit : j = k
    <2>1. CASE Claims = {}
      <3>1. credit' \subseteq Credit
        BY NextTyped DEF CreditInv, Typed, TypeOK
      <3> QED BY <2>1, <3>1 DEF Credit
    <2>2. CASE Claims # {}
      BY <2>2, ClaimsKeep DEF CreditInv
    <2> QED BY <2>1, <2>2
  <1>4. \A k \in credit' \ credit : claim'[k.claim] # NoClaim
    <2>1. \A c \in Claims : Pending(c) => claim[c] # NoClaim
      BY DEF Pending, Filed, NoClaim
    <2> QED BY <1>3, <2>1, ClaimsKeep DEF CreditInv
  <1>5. \A j \in credit, k \in credit' \ credit : j.claim # k.claim
    BY <1>3 DEF CreditInv, CreditsClosed
  <1> QED BY <1>2, <1>3, <1>4, <1>5 DEF CreditInv, CreditsClosed, CreditedOnce

LEMMA FitsStay ==
  ASSUME Typed, [Next]_vars, NEW l \in Lines, NEW c \in Claims, Fits(l, c)
  PROVE  Fits(l, c)' /\ row'[l].keys = row[l].keys
  BY ClaimsKeep, RowsKeep DEF Fits, RowKept, Carried

LEMMA FreshFits ==
  ASSUME NEW l, NEW c, Fresh(l, c)
  PROVE  Fits(l, c)
  BY NamedCites DEF Fresh, Offered, Fits

LEMMA AimsStay ==
  ASSUME CreditInv, [Next]_vars
  PROVE  AimsFit'
  <1> SUFFICES ASSUME NEW l \in Lines, NEW c \in Claims
               PROVE  (Aims(l, c)' => Fits(l, c)') /\ (Spends(l, c)' => row'[l].match # "UNMATCHED")
    BY DEF AimsFit
  <1>1. Typed /\ AimsFit
    BY DEF CreditInv
  <1>2. Fresh(l, c)' => Fits(l, c)'
    BY FreshFits, PTL
  <1>3. Aims(l, c)' => Fits(l, c)'
    BY <1>1, <1>2, NextAims, FitsStay DEF AimsFit
  <1>4. Spends(l, c) => row[l] # NoRow /\ row[l].match # "UNMATCHED"
    BY <1>1 DEF AimsFit, Fits, Aims
  <1>5. Spends(l, c)' => row'[l].match # "UNMATCHED"
    BY <1>1, <1>4, NextAims, RowsKeep DEF RowKept
  <1> QED BY <1>3, <1>5

(* Of a line of one reference, a claim that is pending is among those      *)
(* named, and those named are of one table.                                *)
LEMMA OneNamed ==
  ASSUME CreditInv, NEW keys \in Keys, Len(keys) = 1, NEW c \in Claims, NEW d \in Claims,
         Offered(keys, c), Pending(d), claim[d].ref \in Carried(keys)
  PROVE  c = d
  <1>1. PICK found \in Found : OneKind(Named(keys, found)) /\ c \in Named(keys, found)
    BY DEF Offered
  <1>2. claim[d] # NoClaim
    BY DEF Pending, Filed, NoClaim
  <1>3. d \in Named(keys, found)
    BY <1>2 DEF Named, Visible, Citing, Pending
  <1>4. TableOf(c) = TableOf(d)
    BY <1>1, <1>3, ClaimAssumption DEF OneKind, TableOf
  <1>5. claim[c] # NoClaim /\ claim[c].ref \in Carried(keys)
    BY <1>1, NamedCites
  <1>6. keys \in Seq(References) /\ DOMAIN keys = {1}
    BY StatementAssumption
  <1>7. claim[c].ref = claim[d].ref
    BY <1>5, <1>6 DEF Carried
  <1> QED BY <1>2, <1>4, <1>5, <1>7 DEF CreditInv, OneRef

LEMMA AliveBefore ==
  ASSUME CreditInv, [Next]_vars, NEW l, NEW c \in Claims, claim[c] # NoClaim, Alive(l, c)'
  PROVE  Alive(l, c)
  BY ClaimsKeep DEF CreditInv, Alive, HasPaid

(* What is fresh excludes every other aim that is alive. *)
LEMMA FreshAlone ==
  ASSUME CreditInv, UNCHANGED <<claim, credit>>, NEW l \in Lines, RowKept(l),
         NEW c \in Claims, NEW d \in Claims,
         Fresh(l, c)', NotMatched(l), Fits(l, d)', Alive(l, d)', row'[l] # NoRow, Len(row'[l].keys) = 1
  PROVE  c = d
  <1>1. PICK keys \in Keys : row'[l].keys = keys /\ Offered(keys, c)'
    BY DEF Fresh
  <1>2. Offered(keys, c) /\ Pending(d)' = Pending(d) /\ HasPaid(l, d)' = HasPaid(l, d)
    BY <1>1, OfferStands DEF Pending, Filed, HasPaid
  <1>3. ~HasPaid(l, d)
    BY DEF CreditInv, AimsFit, Aims, Spends, NotMatched, Fits
  <1>4. Pending(d) /\ claim[d].ref \in Carried(keys)
    BY <1>1, <1>2, <1>3 DEF Alive, Fits
  <1> QED BY <1>1, <1>2, <1>4, OneNamed

LEMMA OneTargetStays ==
  ASSUME CreditInv, [Next]_vars
  PROVE  OneTarget'
  <1> SUFFICES ASSUME NEW l \in Lines, row'[l] # NoRow, Len(row'[l].keys) = 1,
                      NEW c \in Claims, NEW d \in Claims,
                      Aims(l, c)', Aims(l, d)', Alive(l, c)', Alive(l, d)'
               PROVE  c = d
    BY DEF OneTarget
  <1>1. Typed /\ AimsFit /\ OneTarget
    BY DEF CreditInv
  <1>2. Fits(l, c)' /\ Fits(l, d)'
    BY AimsStay DEF AimsFit
  <1>3. RowKept(l)
    BY <1>1, RowsKeep
  <1>4. CASE Aims(l, c) /\ Aims(l, d)
    <2>1. Fits(l, c) /\ Fits(l, d)
      BY <1>1, <1>4 DEF AimsFit
    <2>2. row[l] # NoRow /\ row'[l].keys = row[l].keys
      BY <1>1, <2>1, FitsStay DEF Fits
    <2>3. Alive(l, c) /\ Alive(l, d)
      BY <2>1, AliveBefore DEF Fits
    <2> QED BY <1>1, <1>4, <2>2, <2>3 DEF OneTarget
  <1>5. CASE Fresh(l, c)' /\ NotMatched(l) /\ UNCHANGED <<claim, credit>>
    BY <1>2, <1>3, <1>5, FreshAlone
  <1>6. CASE Fresh(l, d)' /\ NotMatched(l) /\ UNCHANGED <<claim, credit>>
    BY <1>2, <1>3, <1>6, FreshAlone
  <1> QED BY <1>1, <1>4, <1>5, <1>6, NextAims

LEMMA CreditInit == Init => CreditInv
  <1> SUFFICES ASSUME Init PROVE CreditInv
    OBVIOUS
  <1>1. Typed
    BY InitTyped
  <1>2. OneRef /\ CreditsClosed /\ CreditedOnce
    BY DEF Init, ClaimInit, OneRef, CreditsClosed, CreditedOnce
  <1>3. \A l \in Lines, c \in Claims : ~Aims(l, c)
    BY IdleRests DEF Init, ClaimInit, Aims, Spends, RowSpends, HasPaid
  <1>4. \A l \in Lines, c \in Claims : ~Spends(l, c)
    BY <1>3 DEF Aims
  <1> QED BY <1>1, <1>2, <1>3, <1>4 DEF CreditInv, AimsFit, OneTarget

LEMMA CreditNext ==
  ASSUME CreditInv, [Next]_vars
  PROVE  CreditInv'
  BY NextTyped, OneRefStays, CreditsStay, AimsStay, OneTargetStays DEF CreditInv

LEMMA AlwaysCredits == Spec => []CreditInv
  BY CreditInit, CreditNext, PTL DEF Spec

(* No claim is credited twice, whoever settles it: an admin, a decision on *)
(* a row, or any number of overlapping passes over any statements.         *)
THEOREM ClaimCreditedOnce == Spec => []CreditedOnce
  BY AlwaysCredits, PTL DEF CreditInv

LEMMA PaidLine ==
  ASSUME Typed, NEW k \in MachineCredits
  PROVE  k.line \in Lines /\ k.claim \in Claims /\ HasPaid(k.line, k.claim) /\ Aims(k.line, k.claim)
  BY DEF Typed, TypeOK, Credit, MachineCredits, HasPaid, Aims, Spends

(* A pass credits a claim only by a line that is exact and carries its     *)
(* reference, however many references a line carries and whatever became   *)
(* of row, claim and statement since the pass looked.                      *)
THEOREM PassesCreditExactly == Spec => []MachineCreditsExactly
  <1>1. CreditInv => MachineCreditsExactly
    BY PaidLine DEF CreditInv, AimsFit, Fits, MachineCreditsExactly
  <1> QED BY <1>1, AlwaysCredits, PTL

(* A line of one reference pays one claim, as far as passes go, also when  *)
(* a restart left its row unmarked or the claim was rejected afterwards.   *)
THEOREM LinePaysOnce == Spec => []MachineLinePaysOnce
  <1>1. ASSUME CreditInv, NEW j \in MachineCredits, NEW k \in MachineCredits,
               j.line = k.line, Len(row[j.line].keys) = 1
        PROVE  j = k
    <2>1. Typed /\ AimsFit /\ OneTarget /\ CreditedOnce
      BY <1>1 DEF CreditInv
    <2>2. /\ j.line \in Lines /\ j.claim \in Claims /\ k.claim \in Claims
          /\ Aims(j.line, j.claim) /\ Aims(j.line, k.claim)
          /\ Alive(j.line, j.claim) /\ Alive(j.line, k.claim)
      BY <1>1, <2>1, PaidLine DEF Alive
    <2>3. row[j.line] # NoRow
      BY <2>1, <2>2 DEF AimsFit, Fits
    <2>4. j.claim = k.claim
      BY <1>1, <2>1, <2>2, <2>3 DEF OneTarget
    <2> QED BY <2>1, <2>4 DEF CreditedOnce, MachineCredits
  <1>2. CreditInv => MachineLinePaysOnce
    BY <1>1 DEF MachineLinePaysOnce
  <1> QED BY <1>2, AlwaysCredits, PTL

(***************************************************************************)
(* What the rows tell.                                                     *)
(***************************************************************************)

(* A handler names a stored or purged row, and one about to stamp a row    *)
(* has a credit to show for it.                                            *)
OfARow(j) == j.at \in {"mark", "leave", "settle", "record"} => row[j.line] # NoRow
StampsTrue == \A s \in Slots, l \in Lines : Stamps(job[s], l) => Credits(l) # {}
CreditsOfRows == \A k \in credit : k.line \in Lines => row[k.line] # NoRow

StoryInv ==
  /\ CreditInv
  /\ \A s \in Slots : OfARow(job[s])
  /\ StampsTrue
  /\ CreditsOfRows
  /\ \A l \in Lines : row[l] # NoRow /\ row[l].credited => Credits(l) # {}
  /\ \A l \in StoredRows : Credits(l) # {} => row[l].credited \/ Stamping(l) \/ crashes > 0

(* What the step of a handler, s, may do to the story: the credit it makes *)
(* is of a row and is stamped next, and it stops stamping only once the    *)
(* row is stamped or purged.                                               *)
Tells(s) ==
  /\ \E j : job' = [job EXCEPT ![s] = j]
  /\ \/ credit' = credit
     \/ \E k : /\ credit' = credit \cup {k}
               /\ k.line \in Lines => row[k.line] # NoRow /\ Stamps(job'[s], k.line)
  /\ OfARow(job'[s])
  /\ \A l \in Lines :
       /\ Stamps(job'[s], l) => \E k \in credit' : k.line = l
       /\ Stamps(job[s], l) => Stamps(job'[s], l) \/ l \notin StoredRows \/ row'[l].credited

LEMMA NoStamp ==
  ASSUME NEW j, j.at \notin {"mark", "leave", "settle", "record"}
  PROVE  OfARow(j) /\ \A l : ~Stamps(j, l)
  BY DEF OfARow, Stamps

LEMMA StepTells ==
  ASSUME StoryInv, NEW s \in Slots, Step(s)
  PROVE  Tells(s)
  <1> USE DEF Continue, Return
  <1>1. job \in [Slots -> Job] /\ Typed
    BY DEF StoryInv, CreditInv, Typed, TypeOK
  <1>2. \A j : job' = [job EXCEPT ![s] = j] => job'[s] = j
    BY <1>1
  <1>3. Idle.at = "idle"
    BY DEF Idle
  <1>4. ASSUME job[s].at \in {"file", "match", "credit", "leave", "settle"}
        PROVE  \A l : ~Stamps(job[s], l)
    BY <1>4 DEF Stamps
  <1>5. CASE FileClaim(s)
    <2>1. job[s].at = "file" /\ job' = [job EXCEPT ![s] = Idle] /\ credit' = credit
      BY <1>5 DEF FileClaim, At
    <2> QED BY <1>2, <1>3, <1>4, <2>1, NoStamp DEF Tells
  <1>6. ASSUME NEW l \in Lines, WriteMatch(s, l)
        PROVE  Tells(s)
    <2> DEFINE j == [job[s] EXCEPT !.found = [k \in DOMAIN job[s].found \ {l} |-> job[s].found[k]]]
    <2>1. job[s].at = "match" /\ job' = [job EXCEPT ![s] = j] /\ credit' = credit
      BY <1>6 DEF WriteMatch, At
    <2>2. j.at = "match"
      <3>1. job[s] = [at |-> "match", found |-> job[s].found, file |-> job[s].file, then |-> job[s].then]
        BY <1>1, <2>1, RunningJob DEF At
      <3> QED BY <3>1
    <2> HIDE DEF j
    <2> QED BY <1>2, <1>4, <2>1, <2>2, NoStamp DEF Tells
  <1>7. CASE ListMatched(s)
    <2> DEFINE j == IF job[s].then = "watch" THEN CreditPass(job[s].file, "watch") ELSE Idle
    <2>1. job' = [job EXCEPT ![s] = j] /\ j.at \in {"credit", "idle"}
      BY <1>3, <1>7 DEF ListMatched, CreditPass
    <2>2. job[s].at = "match" /\ credit' = credit
      BY <1>7 DEF ListMatched, At
    <2> HIDE DEF j
    <2> QED BY <1>2, <1>4, <2>1, <2>2, NoStamp DEF Tells
  <1>8. ASSUME NEW l \in Lines, CreditLine(s, l)
        PROVE  Tells(s)
    <2> DEFINE rest == [m \in DOMAIN job[s].todo \ {l} |-> job[s].todo[m]]
               Mark(as) == [at |-> "mark", line |-> l, as |-> as, todo |-> rest,
                            file |-> job[s].file, then |-> job[s].then]
               go == [job[s] EXCEPT !.todo = rest]
               c == job[s].todo[l]
    <2>1. job[s].at = "credit" /\ l \in DOMAIN job[s].todo
      BY <1>8 DEF CreditLine, At
    <2>2. c \in Claims /\ job[s] = [at |-> "credit", todo |-> job[s].todo, file |-> job[s].file, then |-> job[s].then]
      BY <1>1, <2>1, RunningJob, WorklistElements DEF At
    <2>3. row[l] # NoRow
      <3>1. Aims(l, c)
        BY <2>1 DEF Aims, Spends, JobSpends
      <3> HIDE DEF c
      <3> QED BY <2>2, <3>1 DEF StoryInv, CreditInv, AimsFit, Fits
    <2>4. \/ Settle(c, l, "machine") /\ job' = [job EXCEPT ![s] = Mark("credited")]
          \/ credit' = credit /\ job' = [job EXCEPT ![s] = go]
          \/ credit' = credit /\ job' = [job EXCEPT ![s] = Mark("ALREADY_SETTLED")]
      BY <1>8 DEF CreditLine, SettlementFails
    <2>5. CASE Settle(c, l, "machine") /\ job' = [job EXCEPT ![s] = Mark("credited")]
      <3> DEFINE k == [claim |-> c, line |-> l, by |-> "machine"]
      <3>1. credit' = credit \cup {k} /\ k.line = l
        BY <2>5 DEF Settle
      <3>2. job'[s].at = "mark" /\ job'[s].as = "credited" /\ job'[s].line = l
        BY <1>2, <2>5
      <3>3. Stamps(job'[s], l) /\ \A m : Stamps(job'[s], m) => m = l
        BY <3>2 DEF Stamps
      <3>4. OfARow(job'[s])
        BY <2>3, <3>2 DEF OfARow
      <3> HIDE DEF k, c
      <3>5. k \in credit'
        BY <3>1
      <3> QED BY <1>4, <2>1, <2>3, <2>5, <3>1, <3>3, <3>4, <3>5 DEF Tells
    <2>6. CASE credit' = credit /\ job' = [job EXCEPT ![s] = go]
      <3>1. go.at = "credit"
        BY <2>2
      <3> HIDE DEF go
      <3> QED BY <1>2, <1>4, <2>1, <2>6, <3>1, NoStamp DEF Tells
    <2>7. CASE credit' = credit /\ job' = [job EXCEPT ![s] = Mark("ALREADY_SETTLED")]
      <3>1. job'[s].at = "mark" /\ job'[s].as = "ALREADY_SETTLED" /\ job'[s].line = l
        BY <1>2, <2>7
      <3>2. OfARow(job'[s]) /\ \A m : ~Stamps(job'[s], m)
        BY <2>3, <3>1 DEF OfARow, Stamps
      <3> QED BY <1>4, <2>1, <2>7, <3>2 DEF Tells
    <2> QED BY <2>4, <2>5, <2>6, <2>7
  <1>9. CASE MarkLine(s)
    <2>1. /\ job[s].at = "mark" /\ credit' = credit
          /\ job' = [job EXCEPT ![s] = [at |-> "credit", todo |-> job[s].todo, file |-> job[s].file,
                                        then |-> job[s].then]]
      BY <1>9 DEF MarkLine, At
    <2>2. job'[s].at = "credit"
      BY <1>1, <2>1
    <2>3. OfARow(job'[s]) /\ \A l : ~Stamps(job'[s], l)
      BY <2>2, NoStamp
    <2>4. ASSUME NEW l \in StoredRows, Stamps(job[s], l)
          PROVE  row'[l].credited
      <3>1. l = job[s].line /\ job[s].as = "credited"
        BY <2>1, <2>4 DEF Stamps
      <3>2. row'[l] = [row[l] EXCEPT !.credited = TRUE]
        BY <1>1, <1>9, <3>1, StoredIsRow DEF MarkLine, Typed, TypeOK
      <3> QED BY <1>1, <3>2, StoredIsRow DEF Typed
    <2> QED BY <2>1, <2>3, <2>4 DEF Tells
  <1>10. CASE FinishPass(s)
    <2>1. job[s].at = "credit" /\ job' = [job EXCEPT ![s] = Idle] /\ credit' = credit
      BY <1>10 DEF FinishPass, At
    <2> QED BY <1>2, <1>3, <1>4, <2>1, NoStamp DEF Tells
  <1>11. CASE RecordDecision(s)
    <2>1. job[s].at = "leave" /\ job' = [job EXCEPT ![s] = Idle] /\ credit' = credit
      BY <1>11 DEF RecordDecision, At
    <2> QED BY <1>2, <1>3, <1>4, <2>1, NoStamp DEF Tells
  <1>12. CASE SettleByHand(s)
    <2> DEFINE l == job[s].line
               c == job[s].claim
    <2>1. job[s].at = "settle"
      BY <1>12 DEF SettleByHand, At
    <2>2. row[l] # NoRow
      BY <2>1 DEF StoryInv, OfARow
    <2>3. \/ Settle(c, l, "hand") /\ job' = [job EXCEPT ![s] = [at |-> "record", line |-> l, claim |-> c]]
          \/ credit' = credit /\ job' = [job EXCEPT ![s] = Idle]
      BY <1>12 DEF SettleByHand, SettlementFails
    <2>4. CASE Settle(c, l, "hand") /\ job' = [job EXCEPT ![s] = [at |-> "record", line |-> l, claim |-> c]]
      <3> DEFINE k == [claim |-> c, line |-> l, by |-> "hand"]
      <3>1. credit' = credit \cup {k} /\ k.line = l
        BY <2>4 DEF Settle
      <3>2. job'[s].at = "record" /\ job'[s].line = l
        BY <1>2, <2>4
      <3> HIDE DEF k, c, l
      <3>3. Stamps(job'[s], l) /\ \A m : Stamps(job'[s], m) => m = l
        BY <3>2 DEF Stamps
      <3>4. OfARow(job'[s])
        BY <2>2, <3>2 DEF OfARow
      <3>5. k \in credit'
        BY <3>1
      <3> QED BY <1>4, <2>1, <2>2, <2>4, <3>1, <3>3, <3>4, <3>5 DEF Tells
    <2>5. CASE credit' = credit /\ job' = [job EXCEPT ![s] = Idle]
      BY <1>2, <1>3, <1>4, <2>1, <2>5, NoStamp DEF Tells
    <2> QED BY <2>3, <2>4, <2>5
  <1>13. CASE RecordCredit(s)
    <2>1. job[s].at = "record" /\ job' = [job EXCEPT ![s] = Idle] /\ credit' = credit
      BY <1>13 DEF RecordCredit, At
    <2>2. OfARow(job'[s]) /\ \A l : ~Stamps(job'[s], l)
      BY <1>2, <1>3, <2>1, NoStamp
    <2>3. ASSUME NEW l \in StoredRows, Stamps(job[s], l)
          PROVE  row'[l].credited
      <3>1. l = job[s].line
        BY <2>3 DEF Stamps
      <3>2. row'[l] = [row[l] EXCEPT !.match = "MATCHED", !.claim = job[s].claim,
                                     !.credited = TRUE, !.decided = TRUE]
        BY <1>1, <1>13, <3>1, StoredIsRow DEF RecordCredit, Typed, TypeOK
      <3> QED BY <1>1, <3>2, StoredIsRow DEF Typed
    <2> QED BY <2>1, <2>2, <2>3 DEF Tells
  <1> QED
    BY <1>5, <1>6, <1>7, <1>8, <1>9, <1>10, <1>11, <1>12, <1>13 DEF Step

(* A request begins a handler of a stored row, or of none. *)
LEMMA RequestTells ==
  ASSUME StoryInv, NEW s \in Slots, Request(s)
  PROVE  Tells(s) \/ UNCHANGED job
  <1>1. job \in [Slots -> Job]
    BY DEF StoryInv, CreditInv, Typed, TypeOK
  <1>2. UNCHANGED credit
    BY RequestRows
  <1>3. ASSUME NEW j, Begin(s, j), OfARow(j), \A l : ~Stamps(j, l)
        PROVE  Tells(s)
    <2>1. job[s].at = "idle" /\ job'[s] = j /\ job' = [job EXCEPT ![s] = j]
      BY <1>1, <1>3 DEF Begin, Idle
    <2> QED BY <1>2, <1>3, <2>1, NoStamp DEF Tells
  <1>4. ASSUME NEW f \in Statements, ApplyStatement(s, f)
        PROVE  Tells(s)
    <2>1. CreditPass(f, "apply").at = "credit"
      BY DEF CreditPass
    <2> QED BY <1>3, <1>4, <2>1, NoStamp DEF ApplyStatement
  <1>5. ASSUME NEW f, NEW found, NEW then, Rematch(s, f, found, then)
        PROVE  Tells(s)
    <2>1. PICK j : Begin(s, j) /\ j.at = "match"
      BY <1>5 DEF Rematch
    <2> QED BY <1>3, <2>1, NoStamp
  <1>6. ASSUME NEW l \in Lines, LeaveLine(s, l)
        PROVE  Tells(s)
    <2> DEFINE j == [at |-> "leave", line |-> l]
    <2>1. Begin(s, j) /\ row[l] # NoRow
      BY <1>6 DEF LeaveLine, StoredRows, Uploaded
    <2>2. OfARow(j) /\ \A m : ~Stamps(j, m)
      BY <2>1 DEF OfARow, Stamps
    <2> QED BY <1>3, <2>1, <2>2
  <1>7. ASSUME NEW l \in Lines, NEW c \in Claims, CreditByHand(s, l, c)
        PROVE  Tells(s)
    <2> DEFINE j == [at |-> "settle", line |-> l, claim |-> c]
    <2>1. Begin(s, j) /\ row[l] # NoRow
      BY <1>7 DEF CreditByHand, StoredRows, Uploaded
    <2>2. OfARow(j) /\ \A m : ~Stamps(j, m)
      BY <2>1 DEF OfARow, Stamps
    <2> QED BY <1>3, <2>1, <2>2
  <1>8. ASSUME NEW f \in Statements, Purge(s, f)
        PROVE  UNCHANGED job
    BY <1>8 DEF Purge
  <1> QED BY <1>4, <1>5, <1>6, <1>7, <1>8 DEF Request, Sweep, RematchStatement

(* A row gets its stamp from a handler that stamps it. *)
LEMMA StampedBy ==
  ASSUME Typed, [Next]_vars, NEW l \in Lines, row'[l] # NoRow, row'[l].credited
  PROVE  (row[l] # NoRow /\ row[l].credited) \/ \E s \in Slots : Stamps(job[s], l)
  <1> row \in [Lines -> Row] /\ TypeOK
    BY DEF Typed, TypeOK
  <1>1. CASE UNCHANGED row
    BY <1>1
  <1>2. CASE Uploads
    <2>1. PICK f \in Statements, L \in (SUBSET Lines) \ {{}}, found \in Found :
            \E about \in [L -> [keys : Keys, sort : Sorts]] : UploadStatement(f, about, found)
      BY <1>2 DEF Uploads
    <2>2. PICK about \in [L -> [keys : Keys, sort : Sorts]] : UploadStatement(f, about, found)
      BY <2>1
    <2>3. row'[l] = IF l \in DOMAIN about THEN StoredRow(f, about[l], l, Matching(about, found)) ELSE row[l]
      BY <2>2 DEF UploadStatement
    <2>4. ~StoredRow(f, about[l], l, Matching(about, found)).credited
      BY DEF StoredRow
    <2> QED BY <2>3, <2>4
  <1>3. ASSUME NEW s \in Slots, Step(s)
        PROVE  (row[l] # NoRow /\ row[l].credited) \/ Stamps(job[s], l)
    <2>1. CASE row'[l] = row[l]
      BY <2>1
    <2>2. CASE row'[l] # row[l]
      <3>1. PICK k \in StoredRows :
              \/ \E c \in Claims :
                   /\ job[s].at = "match" /\ k \in DOMAIN job[s].found /\ job[s].found[k] = c
                   /\ row' = [row EXCEPT ![k] = [@ EXCEPT !.match = "MATCHED", !.claim = c]]
              \/ /\ At(s, "mark") /\ job[s].line = k /\ job[s].as = "credited"
                 /\ row' = [row EXCEPT ![k] = [@ EXCEPT !.credited = TRUE]]
              \/ row' = [row EXCEPT ![k] = [@ EXCEPT !.match = "ALREADY_SETTLED"]]
              \/ row' = [row EXCEPT ![k] = [@ EXCEPT !.decided = TRUE]]
              \/ \E c \in Claims :
                   /\ At(s, "record") /\ job[s].line = k
                   /\ row' = [row EXCEPT ![k] = [@ EXCEPT !.match = "MATCHED", !.claim = c,
                                                          !.credited = TRUE, !.decided = TRUE]]
        <4>1. ~UNCHANGED row
          BY <2>2
        <4> QED BY <1>3, <4>1, RowWritten, Zenon
      <3>2. /\ k = l /\ row[l] # NoRow
            /\ row[l] \in [uploaded : {TRUE}, file : Statements, keys : Keys, sort : Sorts, match : Verdicts,
                 claim : Claims \cup {NoClaim}, credited : BOOLEAN, decided : BOOLEAN]
        <4>1. k \in Lines /\ row[k] # NoRow
              /\ row[k] \in [uploaded : {TRUE}, file : Statements, keys : Keys, sort : Sorts, match : Verdicts,
                   claim : Claims \cup {NoClaim}, credited : BOOLEAN, decided : BOOLEAN]
          BY <3>1, StoredIsRow
        <4>2. k = l
          BY <2>2, <3>1, <4>1
        <4> QED BY <4>1, <4>2
      <3>3. \/ \E c \in Claims : row'[l] = [row[l] EXCEPT !.match = "MATCHED", !.claim = c]
            \/ Stamps(job[s], l)
            \/ row'[l] = [row[l] EXCEPT !.match = "ALREADY_SETTLED"]
            \/ row'[l] = [row[l] EXCEPT !.decided = TRUE]
        BY <3>1, <3>2 DEF Stamps, At
      <3> QED BY <3>2, <3>3
    <2> QED BY <2>1, <2>2
  <1>4. CASE \E s \in Slots : Request(s)
    BY <1>4, <1>1, RequestRows
  <1>5. CASE (ClaimNext /\ UNCHANGED <<statement, row, crashes>>) \/ UNCHANGED vars
             \/ \E P \in Processes : Crash(P)
    BY <1>5, <1>1 DEF vars, Crash
  <1> QED BY <1>2, <1>3, <1>4, <1>5 DEF Next

(* What a step of the whole system does to handlers and credits. *)
LEMMA NextTells ==
  ASSUME StoryInv, [Next]_vars
  PROVE  \/ \E s \in Slots : Tells(s) /\ crashes' = crashes
         \/ UNCHANGED job /\ crashes' = crashes
              /\ \A k \in credit' \ credit : k.line \notin Lines
         \/ UNCHANGED credit /\ crashes' > 0 /\ \A s \in Slots : job'[s] \in {job[s], Idle}
  <1> USE DEF StoryInv, CreditInv, Typed, TypeOK
  <1>1. ASSUME NEW s \in Slots, Step(s)
        PROVE  crashes' = crashes
    BY <1>1 DEF Step, WriteMatch, CreditLine, ListMatched, MarkLine, FinishPass, RecordDecision,
                SettleByHand, RecordCredit
  <1>2. ASSUME NEW s \in Slots, Request(s)
        PROVE  crashes' = crashes
    BY <1>2 DEF Request, ApplyStatement, Purge, Sweep, RematchStatement, Rematch, LeaveLine, CreditByHand
  <1>3. CASE ClaimNext /\ UNCHANGED <<statement, row, crashes>>
    <2>1. ASSUME NEW s \in Slots, NEW c \in Claims, NEW r \in References, SubmitReference(s, c, r)
          PROVE  Tells(s)
      <3> DEFINE j == [at |-> "file", claim |-> c, ref |-> r]
      <3>1. job[s].at = "idle" /\ job' = [job EXCEPT ![s] = j] /\ job'[s] = j /\ credit' = credit
        BY <2>1 DEF SubmitReference, Begin, Idle
      <3>2. OfARow(j) /\ \A l : ~Stamps(j, l)
        BY NoStamp
      <3>3. \A l : ~Stamps(job[s], l)
        BY <3>1, NoStamp
      <3> QED BY <3>1, <3>2, <3>3 DEF Tells
    <2>2. ASSUME NEW c \in Claims, VerifyClaim(c) \/ RejectClaim(c) \/ RequestInfo(c)
          PROVE  UNCHANGED job /\ \A k \in credit' \ credit : k.line \notin Lines
      BY <2>2, ClaimAssumption DEF VerifyClaim, Settle, RejectClaim, RequestInfo
    <2> QED BY <1>3, <2>1, <2>2 DEF ClaimNext
  <1>4. CASE Uploads \/ UNCHANGED vars
    BY <1>4 DEF Uploads, UploadStatement, vars
  <1>5. CASE \E s \in Slots : Step(s)
    BY <1>5, <1>1, StepTells
  <1>6. CASE \E s \in Slots : Request(s)
    BY <1>6, <1>2, RequestTells, RequestRows
  <1>7. CASE \E P \in Processes : Crash(P)
    BY <1>7, StatementAssumption DEF Crash
  <1> QED BY <1>3, <1>4, <1>5, <1>6, <1>7 DEF Next

LEMMA StoryNext ==
  ASSUME StoryInv, [Next]_vars
  PROVE  StoryInv'
  <1>1. Typed /\ job \in [Slots -> Job] /\ credit \subseteq credit'
    <2>1. CASE Claims = {}
      <3>1. credit = {}
        BY <2>1 DEF StoryInv, CreditInv, Typed, TypeOK, Credit
      <3> QED BY <3>1 DEF StoryInv, CreditInv, Typed, TypeOK
    <2> QED BY <2>1, ClaimsKeep DEF StoryInv, CreditInv, Typed, TypeOK
  <1>2. CreditInv'
    BY CreditNext DEF StoryInv
  <1>3. \A l \in Lines : RowKept(l)
    BY <1>1, RowsKeep
  <1>4. \A l \in Lines : Credits(l) \subseteq Credits(l)'
    BY <1>1 DEF Credits
  <1>5. ASSUME NEW j \in Job, OfARow(j)
        PROVE  OfARow(j)'
    <2>1. j.at \in {"mark", "leave", "settle", "record"} => j.line \in Lines
      <3>1. \/ j.at \notin {"mark", "leave", "settle", "record"}
            \/ j \in [at : {"mark"}, line : Lines, as : {"credited", "ALREADY_SETTLED"},
                       todo : Worklist, file : Statements, then : {"watch", "apply"}]
            \/ j \in [at : {"leave"}, line : Lines]
            \/ j \in [at : {"settle", "record"}, line : Lines, claim : Claims]
        BY <1>5 DEF Job, Worklist, Idle
      <3> QED BY <3>1
    <2> QED BY <1>3, <1>5, <2>1 DEF OfARow, RowKept
  <1>6. OfARow(Idle)' /\ \A l : ~Stamps(Idle, l)
    BY DEF OfARow, Stamps, Idle
  <1>7. \A l \in Lines : row'[l] # NoRow /\ row'[l].credited => Credits(l)' # {}
    BY <1>1, <1>4, StampedBy DEF StoryInv, StampsTrue
  <1>8. ASSUME NEW s \in Slots, Tells(s), crashes' = crashes
        PROVE  StoryInv'
    <2>1. \A t \in Slots : t # s => job'[t] = job[t]
      BY <1>1, <1>8 DEF Tells
    <2>2. \A t \in Slots : OfARow(job[t])'
      <3>1. job'[s] \in Job
        BY <1>2 DEF CreditInv, Typed, TypeOK
      <3>2. OfARow(job'[s])
        BY <1>8 DEF Tells
      <3>3. \A t \in Slots : t # s => job[t] \in Job /\ OfARow(job[t])
        BY <1>1 DEF StoryInv
      <3> QED BY <1>5, <2>1, <3>1, <3>2, <3>3 DEF OfARow
    <2>3. \A t \in Slots, l \in Lines : Stamps(job'[t], l) => Credits(l)' # {}
      <3>1. \A l \in Lines : Stamps(job'[s], l) => Credits(l)' # {}
        BY <1>8 DEF Tells, Credits
      <3>2. \A t \in Slots, l \in Lines : t # s /\ Stamps(job'[t], l) => Credits(l)' # {}
        BY <1>4, <2>1 DEF StoryInv, StampsTrue
      <3> QED BY <3>1, <3>2
    <2>4. CreditsOfRows'
      <3>1. \A k \in credit' : k.line \in Lines => row[k.line] # NoRow
        BY <1>8 DEF StoryInv, CreditsOfRows, Tells
      <3> QED BY <1>3, <3>1 DEF CreditsOfRows, RowKept
    <2>5. ASSUME NEW l \in StoredRows', Credits(l)' # {}
          PROVE  row'[l].credited \/ (\E t \in Slots : Stamps(job'[t], l)) \/ crashes' > 0
      <3>1. l \in Lines
        BY <2>5 DEF StoredRows, Uploaded
      <3>2. CASE Credits(l) = {}
        <4>1. PICK k \in credit' \ credit : k.line = l
          BY <2>5, <3>2 DEF Credits
        <4>2. Stamps(job'[s], l)
          BY <1>8, <3>1, <4>1 DEF Tells
        <4> QED BY <4>2
      <3>3. CASE Credits(l) # {}
        <4>1. row[l] # NoRow
          BY <3>1, <3>3 DEF StoryInv, CreditsOfRows, Credits
        <4>2. l \in StoredRows
          BY <1>1, <2>5, <3>1, <4>1, StoredKept
        <4>3. row[l].credited \/ (\E t \in Slots : Stamps(job[t], l)) \/ crashes > 0
          BY <3>3, <4>2 DEF StoryInv, Stamping
        <4>4. row[l].credited => row'[l].credited
          BY <1>3, <3>1, <4>1 DEF RowKept
        <4>5. Stamps(job[s], l) => Stamps(job'[s], l) \/ row'[l].credited
          BY <1>8, <3>1, <4>2 DEF Tells
        <4> QED BY <1>8, <2>1, <4>3, <4>4, <4>5
      <3> QED BY <3>2, <3>3
    <2> QED BY <1>2, <1>7, <2>2, <2>3, <2>4, <2>5 DEF StoryInv, StampsTrue, Stamping
  <1>9. CASE UNCHANGED job /\ crashes' = crashes /\ \A k \in credit' \ credit : k.line \notin Lines
    <2>1. \A t \in Slots : OfARow(job[t])'
      BY <1>1, <1>5, <1>9 DEF StoryInv, OfARow
    <2>2. \A t \in Slots, l \in Lines : Stamps(job'[t], l) => Credits(l)' # {}
      BY <1>4, <1>9 DEF StoryInv, StampsTrue
    <2>3. CreditsOfRows'
      BY <1>3, <1>9 DEF StoryInv, CreditsOfRows, RowKept
    <2>4. ASSUME NEW l \in StoredRows', Credits(l)' # {}
          PROVE  row'[l].credited \/ (\E t \in Slots : Stamps(job'[t], l)) \/ crashes' > 0
      <3>1. l \in Lines
        BY <2>4 DEF StoredRows, Uploaded
      <3>2. Credits(l) # {}
        BY <1>9, <2>4, <3>1 DEF Credits
      <3>3. row[l] # NoRow
        BY <3>1, <3>2 DEF StoryInv, CreditsOfRows, Credits
      <3>4. l \in StoredRows
        BY <1>1, <2>4, <3>1, <3>3, StoredKept
      <3> QED BY <1>3, <1>9, <3>1, <3>2, <3>3, <3>4 DEF StoryInv, Stamping, RowKept
    <2> QED BY <1>2, <1>7, <2>1, <2>2, <2>3, <2>4 DEF StoryInv, StampsTrue, Stamping
  <1>10. CASE UNCHANGED credit /\ crashes' > 0 /\ \A s \in Slots : job'[s] \in {job[s], Idle}
    <2>1. \A t \in Slots : OfARow(job[t])'
      BY <1>1, <1>5, <1>6, <1>10 DEF StoryInv, OfARow
    <2>2. \A t \in Slots, l \in Lines : Stamps(job'[t], l) => Credits(l)' # {}
      BY <1>4, <1>6, <1>10 DEF StoryInv, StampsTrue
    <2>3. CreditsOfRows'
      BY <1>3, <1>10 DEF StoryInv, CreditsOfRows, RowKept
    <2> QED BY <1>2, <1>7, <1>10, <2>1, <2>2, <2>3 DEF StoryInv, StampsTrue
  <1> QED BY <1>8, <1>9, <1>10, NextTells

LEMMA StoryInit == Init => StoryInv
  <1> SUFFICES ASSUME Init PROVE StoryInv
    OBVIOUS
  <1>1. \A s \in Slots : job[s] = Idle /\ Idle.at = "idle"
    BY DEF Init, ClaimInit, Idle
  <1>2. \A s \in Slots : OfARow(job[s]) /\ \A l : ~Stamps(job[s], l)
    BY <1>1, NoStamp
  <1>3. credit = {} /\ \A l \in Lines : row[l] = NoRow
    BY DEF Init, ClaimInit
  <1> QED BY <1>2, <1>3, CreditInit DEF StoryInv, StampsTrue, CreditsOfRows, Credits

(* A row is stamped only if its line made a credit, and without a restart  *)
(* no credit of a line stays unstamped: for any number of rows, passes and *)
(* decisions by hand on the same row.                                      *)
THEOREM RowsTell == Spec => []RowsTellCredits
  <1>1. StoryInv => RowsTellCredits
    BY DEF StoryInv, RowsTellCredits, StoredRows, Uploaded
  <1> QED BY <1>1, StoryInit, StoryNext, PTL DEF Spec

=============================================================================
