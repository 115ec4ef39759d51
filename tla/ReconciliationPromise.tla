------------------------ MODULE ReconciliationPromise -----------------------
(***************************************************************************)
(* What claims and statements keep, however users, admins, passes and      *)
(* restarts interleave.                                                    *)
(***************************************************************************)
EXTENDS BankReconciliation

Job ==
  {Idle}
  \cup [at : {"file"}, claim : Claims, ref : References]
  \cup [at : {"match"}, found : UNION {[L -> Claims] : L \in SUBSET Lines},
        file : Statements, then : {"watch", "return"}]
  \cup [at : {"credit"}, todo : UNION {[L -> Claims] : L \in SUBSET Lines},
        file : Statements, then : {"watch", "apply"}]
  \cup [at : {"mark"}, line : Lines, as : {"credited", "ALREADY_SETTLED"},
        todo : UNION {[L -> Claims] : L \in SUBSET Lines},
        file : Statements, then : {"watch", "apply"}]
  \cup [at : {"leave"}, line : Lines]
  \cup [at : {"settle", "record"}, line : Lines, claim : Claims]

TypeOK ==
  /\ claim \in [Claims -> Claim]
  /\ credit \subseteq Credit
  /\ job \in [Slots -> Job]
  /\ statement \in [Statements -> StatementStatus]
  /\ row \in [Lines -> Row]
  /\ crashes \in 0..MaxCrashes

(* bankReconciliation: "running this while an admin has the same payment   *)
(* open is safe and a double-applied statement credits nothing twice".     *)
CreditedOnce == \A j, k \in credit : j.claim = k.claim => j = k

(* The rows tell who was paid by what: a row is stamped as credited only   *)
(* if its line made a credit (losing the race for a claim never stamps     *)
(* it), and without a restart no credit of a line stays unstamped once its *)
(* handler is done, so no later pass or person can take it for unspent.    *)
Credits(l) == {k \in credit : k.line = l}
Stamps(j, l) == ((j.at = "mark" /\ j.as = "credited") \/ j.at = "record") /\ j.line = l
Stamping(l) == \E s \in Slots : Stamps(job[s], l)
RowsTellCredits ==
  \A l \in StoredRows :
    /\ row[l].credited => Credits(l) # {}
    /\ Credits(l) # {} => row[l].credited \/ Stamping(l) \/ crashes > 0

(* "A reference with no claim behind it, or a claim for a different        *)
(* amount, is never credited" by a pass, whatever was matched, decided,    *)
(* overwritten or purged since the pass looked.                            *)
MachineCredits == {k \in credit : k.by = "machine"}
MachineCreditsExactly ==
  \A k \in MachineCredits :
    /\ row[k.line] # NoRow /\ row[k.line].sort = "exact"
    /\ claim[k.claim].ref \in Carried(row[k.line].keys)

(* One bank line pays one claim, as far as passes go and the line names    *)
(* one reference: also when the claim it paid is rejected later, the       *)
(* reference filed again for something else, or the row was not stamped    *)
(* because of a restart.                                                   *)
MachineLinePaysOnce ==
  \A j, k \in MachineCredits :
    j.line = k.line /\ Len(row[j.line].keys) = 1 => j = k

-----------------------------------------------------------------------------
(* A handler that runs goes on, and the sweeper's interval fires although  *)
(* the process is busy (Slots) again and again.                            *)
Fairness ==
  /\ \A s \in Slots : WF_vars(Step(s))
  /\ \A f \in Statements : SF_vars(\E s \in Slots, found \in Found : Sweep(s, f, found))

FairSpec == Spec /\ Fairness

(* A pending top-up that nothing but one exact line of a watched statement *)
(* speaks of does not wait for ever, even if it was filed long after the   *)
(* upload: a sweep credits it, or an admin steps in.                       *)
Awaits(c, l) ==
  /\ Pending(c) /\ Citing(claim[c].ref) = {c}
  /\ l \in StoredRows /\ row[l].sort = "exact" /\ row[l].keys = <<claim[c].ref>>
  /\ statement[row[l].file] = "WATCHED" /\ Open(l)
  /\ \A k \in RowsOf(row[l].file) \ {l} : Carried(row[k].keys) \cap Carried(row[l].keys) = {}

AwaitedIsSwept == \A c \in TopUps, l \in Lines : Awaits(c, l) ~> ~Awaits(c, l)
=============================================================================
