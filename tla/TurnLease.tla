----------------------------- MODULE TurnLease -----------------------------
(***************************************************************************)
(* What the task manager promises about turns, without saying how: a task  *)
(* is leased to at most one call at a time, a call holds the lease at most *)
(* once, and only the call that holds the lease gives it back.             *)
(***************************************************************************)
EXTENDS Naturals

CONSTANTS Tasks, Calls, NoCall

VARIABLES
  holder,   \* the call each task is leased to, or NoCall
  spent     \* the <<task, call>> pairs whose lease is over

leaseVars == <<holder, spent>>

Init ==
  /\ holder = [t \in Tasks |-> NoCall]
  /\ spent = {}

Take(t, c) ==
  /\ holder[t] = NoCall
  /\ <<t, c>> \notin spent
  /\ holder' = [holder EXCEPT ![t] = c]
  /\ UNCHANGED spent

Return(t, c) ==
  /\ holder[t] = c
  /\ holder' = [holder EXCEPT ![t] = NoCall]
  /\ spent' = spent \cup {<<t, c>>}

Next == \E t \in Tasks, c \in Calls : Take(t, c) \/ Return(t, c)

Spec == Init /\ [][Next]_leaseVars
=============================================================================
