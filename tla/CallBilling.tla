---------------------------- MODULE CallBilling -----------------------------
(***************************************************************************)
(* Metered calls of the wallet's user.  Accepting a call reserves the most *)
(* it can cost in heldBalance; ending it charges the minutes used and      *)
(* gives the reservation back.  Live calls are shared through Redis, and   *)
(* the process that wrote an entry keeps a copy, which it still finds when *)
(* another process has deleted the entry.  The timers of a call are local  *)
(* to the process that set them.                                           *)
(*                                                                         *)
(* Abstracted: the peers, the CallLog, callers exempt from billing, the    *)
(* six-hour expiry of a live call.  reconcileOrphanedHolds has no caller.  *)
(***************************************************************************)
EXTENDS Wallet

CONSTANTS
  Calls, \* identities of calls
  Hold,  \* what a call reserves: rate times the per-call ceiling
  Redis  \* is Redis configured?  Without it there should be one process

ASSUME CallAssumption == Hold \in Nat \ {0} /\ Redis \in BOOLEAN

VARIABLES
  placed,    \* calls whose row exists
  live,      \* calls with an entry in Redis
  localCalls,\* pairs <<call, process>>: the copies
  ringTimer, \* ringTimers: pairs <<call, process>>
  capTimer,  \* maxDurationTimers: pairs <<call, process>>
  charge,    \* charge[c]: CallCharge.status
  charged    \* charged[c]: CallCharge.chargedAmount

signalling == <<placed, live, localCalls, ringTimer, capTimer>>
callVars == <<signalling, charge, charged>>

ChargeStatus == {"NONE", "HELD", "CHARGED", "RELEASED"}
CallInit ==
  /\ placed = {} /\ live = {} /\ localCalls = {} /\ ringTimer = {} /\ capTimer = {}
  /\ charge = [c \in Calls |-> "NONE"]
  /\ charged = [c \in Calls |-> 0]

Charged(status) == {c \in Calls : charge[c] = status}
Here(s, c) == <<c, ProcessOf(s)>>

(* getLiveCall, listLiveCallIds: Redis, or else the copy of this process. *)
Found(s, c) == c \in live \/ Here(s, c) \in localCalls
Listed(s) == IF live # {} THEN live ELSE {c \in Calls : Found(s, c)}

(* dropLiveCall *)
Drop(s, c) ==
  /\ live' = live \ {c}
  /\ localCalls' = localCalls \ {Here(s, c)}

(* clearLiveCall: the timers of this process, and the entry. *)
ForgetCall(s, c) ==
  /\ Drop(s, c)
  /\ ringTimer' = ringTimer \ {Here(s, c)}
  /\ capTimer' = capTimer \ {Here(s, c)}

-----------------------------------------------------------------------------
(* Inviting: a caller who can afford a call replaces the earlier ones.     *)

Invite(s) ==
  /\ Spendable >= Hold
  /\ Begin(s, [at |-> "replace", todo |-> Listed(s)])
  /\ UNCHANGED <<wallet, callVars>>

DropReplaced(s, c) ==
  /\ At(s, "replace") /\ c \in job[s].todo
  /\ ForgetCall(s, c)
  /\ Continue(s, [at |-> "replace", todo |-> job[s].todo \ {c}])
  /\ UNCHANGED <<wallet, placed, charge, charged>>

PlaceCall(s, c) ==
  /\ At(s, "replace") /\ job[s].todo = {} /\ c \in Calls \ placed
  /\ placed' = placed \cup {c}
  /\ live' = live \cup {c}
  /\ localCalls' = localCalls \cup {Here(s, c)}
  /\ ringTimer' = ringTimer \cup {Here(s, c)}
  /\ Return(s)
  /\ UNCHANGED <<wallet, capTimer, charge, charged>>

-----------------------------------------------------------------------------
(* Accepting.                                                              *)

Accept(s, c) ==
  /\ Found(s, c)
  /\ Begin(s, [at |-> "take hold", of |-> c])
  /\ UNCHANGED <<wallet, callVars>>

(* holdForCall: the guarded reservation and the row (one per call), or an  *)
(* error that drops the call.                                              *)
TakeHold(s) ==
  LET c == job[s].of IN
  /\ At(s, "take hold")
  /\ IF charge[c] = "NONE" /\ Spendable >= Hold
       THEN /\ heldBalance' = heldBalance + Hold
            /\ charge' = [charge EXCEPT ![c] = "HELD"]
            /\ capTimer' = capTimer \cup {Here(s, c)}
            /\ ringTimer' = ringTimer \ {Here(s, c)}
            /\ Continue(s, [at |-> "connect", of |-> c])
       ELSE /\ Continue(s, [at |-> "clear", of |-> c, then |-> "return"])
            /\ UNCHANGED <<heldBalance, charge, capTimer, ringTimer>>
  /\ UNCHANGED <<balance, placed, live, localCalls, charged>>

(* updateLiveCall reads the shared entry, and writes it back if it found   *)
(* one.                                                                    *)
Connect(s) ==
  LET c == job[s].of IN
  /\ At(s, "connect")
  /\ Continue(s, IF Found(s, c) THEN [at |-> "put back", of |-> c] ELSE Idle)
  /\ UNCHANGED <<wallet, callVars>>

PutBack(s) ==
  /\ At(s, "put back")
  /\ live' = live \cup {job[s].of}
  /\ localCalls' = localCalls \cup {Here(s, job[s].of)}
  /\ Return(s)
  /\ UNCHANGED <<wallet, placed, ringTimer, capTimer, charge, charged>>

-----------------------------------------------------------------------------
(* Ending: whoever ends the call reads it, drops it, then settles the      *)
(* charge (end, disconnect, the ceiling) or releases it (reject, no        *)
(* microphone, no answer).                                                 *)

HangUp(s, c, then) ==
  /\ Found(s, c)
  /\ Begin(s, [at |-> "clear", of |-> c, then |-> then])
  /\ UNCHANGED <<wallet, callVars>>

ClearCall(s) ==
  LET c == job[s].of IN
  /\ At(s, "clear")
  /\ ForgetCall(s, c)
  /\ Continue(s, IF job[s].then = "return" THEN Idle ELSE [at |-> job[s].then, of |-> c])
  /\ UNCHANGED <<wallet, placed, charge, charged>>

(* After thirty seconds, if this process still has the timer. *)
RingTimeout(s, c) ==
  /\ Here(s, c) \in ringTimer
  /\ ringTimer' = ringTimer \ {Here(s, c)}
  /\ IF Found(s, c) THEN Begin(s, [at |-> "drop", of |-> c]) ELSE UNCHANGED job
  /\ UNCHANGED <<wallet, placed, live, localCalls, capTimer, charge, charged>>

DropUnanswered(s) ==
  LET c == job[s].of IN
  /\ At(s, "drop")
  /\ Drop(s, c)
  /\ Continue(s, [at |-> "release", of |-> c])
  /\ UNCHANGED <<wallet, placed, ringTimer, capTimer, charge, charged>>

MaxDuration(s, c) ==
  /\ Here(s, c) \in capTimer
  /\ capTimer' = capTimer \ {Here(s, c)}
  /\ IF Found(s, c)
       THEN Begin(s, [at |-> "clear", of |-> c, then |-> "settle"])
       ELSE UNCHANGED job
  /\ UNCHANGED <<wallet, placed, live, localCalls, ringTimer, charge, charged>>

(* Mutant: the ceiling of the hold is not applied. *)
BillableUnclamped == 0..(Hold + 1)

(* What the minutes used may come to, clamped to the hold. *)
Billable == 0..Hold

(* Mutant: only the part not used leaves heldBalance. *)
ChargeReleasingRest(c, m) ==
  /\ balance' = balance - m
  /\ heldBalance' = heldBalance - (Hold - m)
  /\ charge' = [charge EXCEPT ![c] = "CHARGED"]
  /\ charged' = [charged EXCEPT ![c] = m]

Charge(c, m) ==
  /\ balance' = balance - m
  /\ heldBalance' = heldBalance - Hold
  /\ charge' = [charge EXCEPT ![c] = "CHARGED"]
  /\ charged' = [charged EXCEPT ![c] = m]

(* settleCall: the claim, the debit and the whole reservation, or, when    *)
(* the balance does not have the minutes used, an error that rolls all of  *)
(* it back and is dropped.                                                 *)
Settle(s) ==
  LET c == job[s].of IN
  /\ At(s, "settle")
  /\ \/ /\ charge[c] = "HELD"
        /\ \E m \in Billable : balance >= m /\ Charge(c, m)
     \/ /\ charge[c] = "HELD" => balance < Hold
        /\ UNCHANGED <<wallet, charge, charged>>
  /\ Return(s)
  /\ UNCHANGED signalling

Release(s) ==
  LET c == job[s].of IN
  /\ At(s, "release")
  /\ IF charge[c] = "HELD"
       THEN /\ heldBalance' = heldBalance - Hold
            /\ charge' = [charge EXCEPT ![c] = "RELEASED"]
       ELSE UNCHANGED <<heldBalance, charge>>
  /\ Return(s)
  /\ UNCHANGED <<balance, signalling, charged>>

CallStep(s) ==
  \/ \E c \in Calls : DropReplaced(s, c) \/ PlaceCall(s, c)
  \/ TakeHold(s) \/ Connect(s) \/ PutBack(s)
  \/ ClearCall(s) \/ DropUnanswered(s) \/ Settle(s) \/ Release(s)

CallTimer(s, c) == RingTimeout(s, c) \/ MaxDuration(s, c)

CallNext ==
  \E s \in Slots :
    \/ CallStep(s) \/ Invite(s)
    \/ \E c \in Calls :
         \/ Accept(s, c) \/ CallTimer(s, c)
         \/ \E then \in {"settle", "release"} : HangUp(s, c, then)

(* A restart: the copies and the timers of the process are gone, and when  *)
(* there is no Redis the live calls with them.                             *)
CallCrash(P) ==
  /\ live' = IF Redis THEN live ELSE {}
  /\ localCalls' = {l \in localCalls : l[2] # P}
  /\ ringTimer' = {t \in ringTimer : t[2] # P}
  /\ capTimer' = {t \in capTimer : t[2] # P}
  /\ UNCHANGED <<wallet, placed, charge, charged>>
=============================================================================
