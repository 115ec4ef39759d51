----------------------------- MODULE Milestones -----------------------------
(***************************************************************************)
(* What a booking promises its two parties whatever overlaps: money is     *)
(* taken before anybody is engaged or anything given back, the partner     *)
(* engaged first stays, and is paid only once the code of the start and    *)
(* then the code of the completion were entered, in this order.  How often *)
(* money moves is not promised here: Engagement says that, for requests    *)
(* that do not overlap.                                                    *)
(***************************************************************************)
EXTENDS Naturals

CONSTANTS Bookings, Partners, NoPartner

VARIABLES
  taken,    \* taken[b]: how often the user's money was taken
  engaged,  \* engaged[b]: the partner engaged
  entered,  \* entered[b]: the codes entered
  paidOut,  \* paidOut[b]: how often the partner was paid
  givenBack \* givenBack[b]: how often the user's money was given back

milestones == <<taken, engaged, entered, paidOut, givenBack>>

MilestonesInit ==
  /\ taken = [b \in Bookings |-> 0]
  /\ engaged = [b \in Bookings |-> NoPartner]
  /\ entered = [b \in Bookings |-> {}]
  /\ paidOut = [b \in Bookings |-> 0]
  /\ givenBack = [b \in Bookings |-> 0]

Take(b) ==
  /\ taken' = [taken EXCEPT ![b] = @ + 1]
  /\ UNCHANGED <<engaged, entered, paidOut, givenBack>>

Engage(b, p) ==
  /\ taken[b] > 0 /\ engaged[b] = NoPartner
  /\ engaged' = [engaged EXCEPT ![b] = p]
  /\ UNCHANGED <<taken, entered, paidOut, givenBack>>

EnterStart(b) ==
  /\ engaged[b] # NoPartner
  /\ entered' = [entered EXCEPT ![b] = @ \cup {"start"}]
  /\ UNCHANGED <<taken, engaged, paidOut, givenBack>>

EnterDone(b) ==
  /\ "start" \in entered[b]
  /\ entered' = [entered EXCEPT ![b] = @ \cup {"done"}]
  /\ UNCHANGED <<taken, engaged, paidOut, givenBack>>

PayOut(b) ==
  /\ entered[b] = {"start", "done"}
  /\ paidOut' = [paidOut EXCEPT ![b] = @ + 1]
  /\ UNCHANGED <<taken, engaged, entered, givenBack>>

GiveBack(b) ==
  /\ taken[b] > 0
  /\ givenBack' = [givenBack EXCEPT ![b] = @ + 1]
  /\ UNCHANGED <<taken, engaged, entered, paidOut>>

MilestonesNext ==
  \E b \in Bookings :
    \/ Take(b) \/ EnterStart(b) \/ EnterDone(b) \/ PayOut(b) \/ GiveBack(b)
    \/ \E p \in Partners : Engage(b, p)

MilestonesSpec == MilestonesInit /\ [][MilestonesNext]_milestones
=============================================================================
