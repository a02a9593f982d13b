----------------------------- MODULE RatingLedger -----------------------------
(***************************************************************************)
(* What rating promises of a scope, whoever carries it out: a mark, up to  *)
(* which the scope counts as rated, and the periods whose data are stored. *)
(* The mark follows the data one period at a time and never runs ahead of  *)
(* them.  It leaves that path only to land on a timestamp from which on    *)
(* everything stored has been erased.                                      *)
(***************************************************************************)
EXTENDS Integers

CONSTANTS Scopes, MaxPeriod, Idle

Periods == 0..MaxPeriod
Never   == -1

VARIABLES mark, stored

ledgerVars == <<mark, stored>>

Init ==
  /\ mark = [s \in Scopes |-> Never]
  /\ stored = [s \in Scopes |-> {}]

Follows(s, t) == mark[s] = Never \/ t = mark[s] + 1

Record(s, t) ==
  /\ Follows(s, t)
  /\ stored' = [stored EXCEPT ![s] = @ \cup {t}]
  /\ UNCHANGED mark

Advance(s, t) ==
  /\ Follows(s, t)
  /\ t \in stored[s] \/ <<s, t>> \in Idle
  /\ mark' = [mark EXCEPT ![s] = t]
  /\ UNCHANGED stored

Erase(s, t) ==
  /\ mark[s] # Never
  /\ stored' = [stored EXCEPT ![s] = {u \in @ : u < t}]
  /\ UNCHANGED mark

Land(s, t) ==
  /\ mark[s] # Never
  /\ \A u \in stored[s] : u < t
  /\ mark' = [mark EXCEPT ![s] = t]
  /\ UNCHANGED stored

Next == \E s \in Scopes, t \in Periods :
          Record(s, t) \/ Advance(s, t) \/ Erase(s, t) \/ Land(s, t)

Spec == Init /\ [][Next]_ledgerVars
=============================================================================
