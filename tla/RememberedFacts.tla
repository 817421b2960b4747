---------------------------- MODULE RememberedFacts ----------------------------
(***************************************************************************)
(* One user's memory (memory/memoryService.ts): the memory_remember tool,  *)
(* which runs of several conversations may call at once, and the memory    *)
(* routes.  Validation, which refuses before anything is read, is left out.*)
(***************************************************************************)
EXTENDS Integers, FiniteSets

CONSTANTS
  FactKeys, Facts,  \* keys, and what is said under one
  Items, NoItem,    \* rows of the table
  Rememberers       \* calls of the tool that may run at once

ASSUME FactsAssumption == NoItem \notin Items

VARIABLES
  item,      \* row -> [state, key, fact]: "free", "enabled", "disabled", "deleted"
  calls,     \* caller -> [key, fact, existing]
  told,      \* ghost: key -> the fact of the last call that came back
  doubled    \* ghost: keys two rows were made for outside a single call

factVars == <<item, calls, told, doubled>>

NoCallYet == [key |-> "none", fact |-> "none", existing |-> NoItem]

FactsTypeOK ==
  /\ item \in [Items -> [state : {"free", "enabled", "disabled", "deleted"}, key : FactKeys \union {"none"},
                         fact : Facts \union {"none"}]]
  /\ calls \in [Rememberers -> [key : FactKeys \union {"none"}, fact : Facts \union {"none"},
                                existing : Items \union {NoItem}]]
  /\ told \in [FactKeys -> Facts \union {"none"}] /\ doubled \subseteq FactKeys

FactsInit ==
  /\ item = [i \in Items |-> [state |-> "free", key |-> "none", fact |-> "none"]]
  /\ calls = [r \in Rememberers |-> NoCallYet]
  /\ told = [k \in FactKeys |-> "none"] /\ doubled = {}

Enabled(k) == {i \in Items : item[i].state = "enabled" /\ item[i].key = k}
\* The row made next: one of those not used yet, it does not matter which.
Free == LET free == {i \in Items : item[i].state = "free"}
        IN IF free = {} THEN {} ELSE {CHOOSE i \in free : TRUE}
Row(k, f) == [state |-> "enabled", key |-> k, fact |-> f]

\* findFirst, among several in no order.
Finds(r) ==
  /\ calls[r] = NoCallYet
  /\ \E k \in FactKeys, f \in Facts :
       /\ \E i \in (IF Enabled(k) = {} THEN {NoItem} ELSE Enabled(k)) :
            calls' = [calls EXCEPT ![r] = [key |-> k, fact |-> f, existing |-> i]]
       /\ doubled' = IF \E q \in Rememberers : calls[q].key = k THEN doubled \union {k} ELSE doubled
  /\ UNCHANGED <<item, told>>

Written_Appends(c) == {[item EXCEPT ![i] = Row(c.key, c.fact)] : i \in Free}

\* The row that was found is rewritten, whatever became of it; else one is made.
Written(c) ==
  IF c.existing = NoItem THEN {[item EXCEPT ![i] = Row(c.key, c.fact)] : i \in Free}
  ELSE {[item EXCEPT ![c.existing].fact = c.fact]}

Remembers(r) ==
  /\ calls[r] # NoCallYet
  /\ calls[r].existing # NoItem => item[calls[r].existing].state # "deleted"
  /\ item' \in Written(calls[r])
  /\ told' = [told EXCEPT ![calls[r].key] = calls[r].fact]
  /\ calls' = [calls EXCEPT ![r] = NoCallYet] /\ UNCHANGED doubled

\* The row is gone: update throws, and the model is told.
RememberFails(r) ==
  /\ calls[r].existing # NoItem /\ item[calls[r].existing].state = "deleted"
  /\ calls' = [calls EXCEPT ![r] = NoCallYet] /\ UNCHANGED <<item, told, doubled>>

\* createMemory, from the route, looks for no other row.
Creates(k, f) ==
  /\ \E i \in Free : item' = [item EXCEPT ![i] = Row(k, f)]
  /\ doubled' = IF Enabled(k) # {} \/ \E r \in Rememberers : calls[r].key = k
                THEN doubled \union {k} ELSE doubled
  /\ told' = [told EXCEPT ![k] = f] /\ UNCHANGED calls

\* updateMemory from the route: disabled or enabled again.
Toggles(i) ==
  /\ item[i].state \in {"enabled", "disabled"}
  /\ item' = [item EXCEPT ![i].state = IF @ = "enabled" THEN "disabled" ELSE "enabled"]
  /\ doubled' = doubled \union {item[i].key}
  /\ UNCHANGED <<calls, told>>

Deletes(i) ==
  /\ item[i].state \in {"enabled", "disabled"}
  /\ item' = [item EXCEPT ![i].state = "deleted"]
  /\ told' = IF item[i].state = "enabled" THEN [told EXCEPT ![item[i].key] = "none"] ELSE told
  /\ UNCHANGED <<calls, doubled>>

FactsNext ==
  \/ \E r \in Rememberers : Finds(r) \/ Remembers(r) \/ RememberFails(r)
  \/ \E k \in FactKeys, f \in Facts : Creates(k, f)
  \/ \E i \in Items : Toggles(i) \/ Deletes(i)

FactsSpec == FactsInit /\ [][FactsNext]_factVars

-----------------------------------------------------------------------------
(* Properties *)

\* "replaces that memory instead of leaving two contradictory ones": a key that was not
\* used by two calls at once, by the route beside a row, or switched off and on, has one
\* row at most, and it says what was told last.
OneFactPerKey ==
  \A k \in FactKeys \ doubled :
    /\ Cardinality(Enabled(k)) <= 1
    /\ \A i \in Enabled(k) : item[i].fact = told[k]
=============================================================================
