------------------------------ MODULE Requests ------------------------------
(***************************************************************************)
(* The threads of the framework that serve requests.  A request is a call  *)
(* of one method of the plugin on one thread, cut into steps where another *)
(* thread, or the end of the process, can come between.                    *)
(***************************************************************************)
EXTENDS Integers

CONSTANTS
  Workers,   \* threads that serve requests
  Parts,     \* the parts of the plugin that the requests are for
  Budgets    \* bound: how many requests of each part a behaviour may have

ASSUME RequestsAssumption == Budgets \subseteq [Parts -> Nat]

VARIABLES
  pc,        \* the step each worker is at
  local,     \* the local variables of the call each worker serves
  left,      \* requests of each part still to come
  spoiled    \* history: which parts met an overlap, a failure or a crash

requests == <<pc, local, left, spoiled>>

NoCall == [part |-> "none"]

RequestsInit ==
  /\ pc = [w \in Workers |-> "idle"]
  /\ local = [w \in Workers |-> NoCall]
  /\ left \in Budgets
  /\ spoiled = {}

\* A call of this part of the plugin is under way.
Busy(part) == \E w \in Workers : pc[w] # "idle" /\ local[w].part = part

AllIdle == \A w \in Workers : pc[w] = "idle"

\* Nothing this part promises is excused, and no call of it is under way.
Undisturbed(part) == ~Busy(part) /\ \A s \in spoiled : s.part # part

Met(part, cause) == [part |-> part, cause |-> cause] \in spoiled

\* A request that takes one step.
Instant(w, part) ==
  /\ pc[w] = "idle" /\ left[part] > 0
  /\ left' = [left EXCEPT ![part] = @ - 1]
  /\ UNCHANGED <<pc, local>>

\* A request that takes several: it stops at a label, with local variables.
Start(w, label, values) ==
  /\ pc[w] = "idle" /\ left[values.part] > 0
  /\ left' = [left EXCEPT ![values.part] = @ - 1]
  /\ pc' = [pc EXCEPT ![w] = label]
  /\ local' = [local EXCEPT ![w] = values]

Spoil(part, cause) == spoiled' = spoiled \cup {[part |-> part, cause |-> cause]}

\* An overlap with another call of the part is written down.
Overlaps(part) == IF Busy(part) THEN Spoil(part, "overlap") ELSE UNCHANGED spoiled

Step(w, to, values) ==
  /\ pc' = [pc EXCEPT ![w] = to]
  /\ local' = [local EXCEPT ![w] = values]
  /\ UNCHANGED left

Finish(w) == Step(w, "idle", NoCall)

\* The process ends: no call is under way, and its parts may be left halfway.
Abandon ==
  /\ pc' = [w \in Workers |-> "idle"]
  /\ local' = [w \in Workers |-> NoCall]
  /\ spoiled' = spoiled \cup
       {[part |-> local[w].part, cause |-> "crash"] : w \in {v \in Workers : pc[v] # "idle"}}
  /\ UNCHANGED left
=============================================================================
