------------------------------ MODULE TaskSlots ------------------------------
(***************************************************************************)
(* What the admission core promises, without goroutines, locks, files or   *)
(* objects: users list and unlist tasks, and of these some run, never more *)
(* than the limit that was in force when the last one was started.  A task *)
(* that is unlisted while it runs gives its slot back.                     *)
(***************************************************************************)
EXTENDS Naturals, FiniteSets

CONSTANT Task

VARIABLES
  limit,    \* MaxConcurrentTask; 0 is unlimited
  listed,   \* the tasks the user sees
  running   \* the tasks that have a slot

vars == <<limit, listed, running>>

Init == limit \in Nat /\ listed = {} /\ running = {}

List(t) ==
  /\ t \notin listed
  /\ listed' = listed \cup {t}
  /\ UNCHANGED <<limit, running>>

Unlist(t) ==
  /\ listed' = listed \ {t}
  /\ UNCHANGED <<limit, running>>

Start(t) ==
  /\ limit > 0 => Cardinality(running) < limit
  /\ running' = running \cup {t}
  /\ UNCHANGED <<limit, listed>>

Stop(t) ==
  /\ t \in running
  /\ running' = running \ {t}
  /\ UNCHANGED <<limit, listed>>

SetLimit == limit' \in Nat /\ UNCHANGED <<listed, running>>

Next ==
  \/ \E t \in Task : List(t) \/ Unlist(t) \/ Start(t) \/ Stop(t)
  \/ SetLimit

Spec == Init /\ [][Next]_vars

\* The slot of a task nobody lists any more is given back.
GivenBack == \A t \in Task : (t \in running /\ t \notin listed) ~> (t \notin running \/ t \in listed)

Promise == Spec /\ GivenBack
=============================================================================
