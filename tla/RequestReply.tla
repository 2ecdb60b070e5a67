---------------------------- MODULE RequestReply ----------------------------
(***************************************************************************)
(* What an HTTP server promises about one request, whatever queues, tables *)
(* and timers implement it: the client gets at most one reply; the reply   *)
(* is something the program offered for this very request while it was     *)
(* open, or the timeout; a plain request that was answered in time never   *)
(* times out; and nothing is offered twice.                                *)
(***************************************************************************)
CONSTANTS Requests,  \* requests clients may send
          Upgrades,  \* those that may switch protocols
          Answers    \* HTTP answers a program can give

VARIABLES status,    \* "new", "open" or "closed"
          offers,    \* outcomes the program has offered for a request
          result     \* what the client got, or "none"

vars == <<status, offers, result>>

Init ==
  /\ status = [r \in Requests |-> "new"]
  /\ offers = [r \in Requests |-> {}]
  /\ result = [r \in Requests |-> "none"]

Receive(r) ==
  /\ status[r] = "new"
  /\ status' = [status EXCEPT ![r] = "open"]
  /\ UNCHANGED <<offers, result>>

\* The program answers; only the first answer counts.
OfferAnswer(r, a) ==
  /\ status[r] = "open"
  /\ offers[r] \cap Answers = {}
  /\ offers' = [offers EXCEPT ![r] = @ \cup {a}]
  /\ UNCHANGED <<status, result>>

OfferUpgrade(r) ==
  /\ r \in Upgrades
  /\ status[r] = "open"
  /\ "switching" \notin offers[r]
  /\ offers' = [offers EXCEPT ![r] = @ \cup {"switching"}]
  /\ UNCHANGED <<status, result>>

Close(r, outcome) ==
  /\ status[r] = "open"
  /\ status' = [status EXCEPT ![r] = "closed"]
  /\ result' = [result EXCEPT ![r] = outcome]
  /\ UNCHANGED offers

Conclude(r) == \E outcome \in offers[r] : Close(r, outcome)

GiveUp(r) == /\ r \in Upgrades \/ offers[r] = {}
             /\ Close(r, "timeout")

Abandon(r) == Close(r, "none")

Next == \E r \in Requests :
  \/ Receive(r) \/ OfferUpgrade(r) \/ Conclude(r) \/ GiveUp(r) \/ Abandon(r)
  \/ \E a \in Answers : OfferAnswer(r, a)

Spec == Init /\ [][Next]_vars
=============================================================================
