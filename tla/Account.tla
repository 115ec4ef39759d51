------------------------------- MODULE Account ------------------------------
(***************************************************************************)
(* What a wallet promises about each thing that moves its money: the       *)
(* purse changes by exactly what one entry says, each entry moves money at *)
(* most once, and what it moved goes back at most once.                    *)
(***************************************************************************)
EXTENDS Integers

CONSTANTS
  Entries, \* what may move money: payouts, calls, top-ups
  MayMove  \* MayMove[e]: what an entry may add to the purse when it is taken

VARIABLES
  purse, \* the money in the account
  entry, \* entry[e]: where it stands
  moved  \* moved[e]: what it has added to the purse

account == <<purse, entry, moved>>

Init ==
  /\ purse \in Int
  /\ entry = [e \in Entries |-> "open"]
  /\ moved = [e \in Entries |-> 0]

Take(e, amount) ==
  /\ entry[e] = "open"
  /\ entry' = [entry EXCEPT ![e] = "taken"]
  /\ moved' = [moved EXCEPT ![e] = amount]
  /\ purse' = purse + amount

GiveBack(e) ==
  /\ entry[e] = "taken"
  /\ entry' = [entry EXCEPT ![e] = "returned"]
  /\ moved' = [moved EXCEPT ![e] = 0]
  /\ purse' = purse - moved[e]

Close(e) ==
  /\ entry[e] = "taken"
  /\ entry' = [entry EXCEPT ![e] = "final"]
  /\ UNCHANGED <<purse, moved>>

Next ==
  \E e \in Entries :
    \/ \E amount \in MayMove[e] : Take(e, amount)
    \/ GiveBack(e)
    \/ Close(e)

Spec == Init /\ [][Next]_account
=============================================================================
