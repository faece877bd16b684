------------------------- MODULE ProviderCompanies -------------------------
(***************************************************************************)
(* The customers that a provider lists, as discoveries store them, and      *)
(* their explicit mappings to customers of the CMDB (src/backend/main.py,   *)
(* src/src/cmdb/repository.py).                                             *)
(*                                                                         *)
(* A discovery reads the provider, then the exclusions, and stores what is  *)
(* left in one READ COMMITTED transaction: an upsert of each row, and a     *)
(* sweep of the rows that another discovery wrote.  Discoveries of one      *)
(* replica store one after the other; those of two replicas overlap and     *)
(* wait for each other's rows.                                              *)
(***************************************************************************)
EXTENDS Integers, FiniteSets, Functions

CONSTANTS Companies,     \* identifiers of the provider's customers
          Customers,     \* customers of the CMDB
          Workers, Replicas, Home,   \* Home: worker -> its replica
          MaxRuns, MaxEdits          \* bounds: discoveries, changes made meanwhile

None == "none"

CompanyAssumption ==
    /\ None \notin Workers \cup Customers /\ Home \in [Workers -> Replicas]
    /\ MaxRuns \in Nat /\ MaxEdits \in Nat

Idle == [pc |-> "idle"]

VARIABLES offered,    \* the customers the provider lists now
          excluded,   \* the exclusions of the saved policy
          rows,       \* company -> its committed observation
          mapping,    \* company -> the customer it is mapped to
          lock,       \* replica -> the worker that holds its lock
          task,       \* worker -> what it does
          runs, edits \* counters

vars == <<offered, excluded, rows, mapping, lock, task, runs, edits>>

Init == /\ offered \in SUBSET Companies /\ excluded = {}
        /\ rows = [c \in Companies |-> [run |-> 0, active |-> FALSE]]
        /\ mapping = [c \in Companies |-> None]
        /\ lock = [r \in Replicas |-> None]
        /\ task = [w \in Workers |-> Idle]
        /\ runs = 0 /\ edits = 0

Known(c) == rows[c].run # 0
Active == {c \in Companies : rows[c].active}
Storing(w) == task[w].pc \in {"upsert", "sweep"}

\* Rows that the open transaction of w has written.
Written(w) == IF Storing(w) THEN (task[w].items \ task[w].left) \cup task[w].swept ELSE {}
Free(w, c) == \A v \in Workers \ {w} : c \notin Written(v)

-----------------------------------------------------------------------------
BeginDiscovery(w) ==
    /\ task[w] = Idle /\ runs < MaxRuns
    /\ runs' = runs + 1
    /\ task' = [task EXCEPT ![w] = [pc |-> "found", run |-> runs + 1, found |-> offered]]
    /\ UNCHANGED <<offered, excluded, rows, mapping, lock, edits>>

ApplyFilters(w) ==
    /\ task[w].pc = "found"
    /\ task' = [task EXCEPT ![w] = [pc |-> "filtered", run |-> @.run,
                                    items |-> @.found \ excluded]]
    /\ UNCHANGED <<offered, excluded, rows, mapping, lock, runs, edits>>

\* The lock of the replica, then the transaction.
BeginStore(w) ==
    /\ task[w].pc = "filtered" /\ lock[Home[w]] = None
    /\ lock' = [lock EXCEPT ![Home[w]] = w]
    /\ task' = [task EXCEPT ![w] = [pc |-> "upsert", run |-> @.run, items |-> @.items,
                                    left |-> @.items, swept |-> {}]]
    /\ UNCHANGED <<offered, excluded, rows, mapping, runs, edits>>

Upsert(w, c) ==
    /\ task[w].pc = "upsert" /\ c \in task[w].left
    /\ Free(w, c)
    /\ task' = [task EXCEPT ![w].left = @ \ {c}]
    /\ UNCHANGED <<offered, excluded, rows, mapping, lock, runs, edits>>

\* Mutant: the sweep takes the rows of the discovery before this one.
SweptOfPrevious(w) == {c \in Companies : Known(c) /\ rows[c].run = task[w].run - 1}
                         \ task[w].items

\* The rows of other discoveries that are committed when the sweep begins.
Swept(w) == {c \in Companies : Known(c)} \ task[w].items

BeginSweep(w) ==
    /\ task[w].pc = "upsert" /\ task[w].left = {}
    /\ task' = [task EXCEPT ![w] = [pc |-> "sweep", run |-> @.run, items |-> @.items,
                                    left |-> {}, swept |-> {}, targets |-> Swept(w),
                                    late |-> {}]]
    /\ UNCHANGED <<offered, excluded, rows, mapping, lock, runs, edits>>

Sweep(w, c) ==
    /\ task[w].pc = "sweep" /\ c \in task[w].targets
    /\ Free(w, c)
    /\ task' = [task EXCEPT ![w].targets = @ \ {c}, ![w].swept = @ \cup {c}]
    /\ UNCHANGED <<offered, excluded, rows, mapping, lock, runs, edits>>

Stored(w, c) ==
    IF c \in task[w].items THEN [run |-> task[w].run, active |-> TRUE]
    ELSE IF c \in task[w].swept THEN [rows[c] EXCEPT !.active = FALSE] ELSE rows[c]

\* "late" is the history of rows that are new after another sweep has begun.
CommitStore(w) ==
    /\ task[w].pc = "sweep" /\ task[w].targets = {}
    /\ rows' = [c \in Companies |-> Stored(w, c)]
    /\ lock' = [lock EXCEPT ![Home[w]] = None]
    /\ LET new == {c \in task[w].items : ~Known(c)}
       IN task' = [v \in Workers |->
                      IF v = w THEN Idle
                      ELSE IF task[v].pc = "sweep" THEN [task[v] EXCEPT !.late = @ \cup new]
                      ELSE task[v]]
    /\ UNCHANGED <<offered, excluded, mapping, runs, edits>>

\* A deadlock, an error or a crash rolls the transaction back.
RollBack(w) ==
    /\ Storing(w)
    /\ task' = [task EXCEPT ![w] = Idle]
    /\ lock' = [lock EXCEPT ![Home[w]] = None]
    /\ UNCHANGED <<offered, excluded, rows, mapping, runs, edits>>

-----------------------------------------------------------------------------
\* A mapping request holds its replica's lock from its first read to the end.
Enters(w) == lock[Home[w]] = None /\ lock' = [lock EXCEPT ![Home[w]] = w]

\* Mutant: an error path leaves without releasing the lock.
LeavesLocked(w) == lock' = lock

Leaves(w) == lock' = [lock EXCEPT ![Home[w]] = IF @ = w THEN None ELSE @]

\* The company must have been observed; it need not be active.
BeginMap(w, c, customer) ==
    /\ task[w] = Idle /\ edits < MaxEdits
    /\ Known(c)
    /\ Enters(w)
    /\ edits' = edits + 1
    /\ task' = [task EXCEPT ![w] = [pc |-> "map", company |-> c, to |-> customer]]
    /\ UNCHANGED <<offered, excluded, rows, mapping, runs>>

\* One mapping per company: a newer one replaces it.  "raced" is the history of
\* the removals under way elsewhere.
CommitMap(w) ==
    /\ task[w].pc = "map"
    /\ mapping' = [mapping EXCEPT ![task[w].company] = task[w].to]
    /\ Leaves(w)
    /\ task' = [v \in Workers |->
                   IF v = w THEN Idle
                   ELSE IF task[v].pc = "unmap" /\ Home[v] # Home[w]
                   THEN [task[v] EXCEPT !.raced = TRUE] ELSE task[v]]
    /\ UNCHANGED <<offered, excluded, rows, runs, edits>>

BeginUnmap(w, c) ==
    /\ task[w] = Idle /\ edits < MaxEdits
    /\ mapping[c] # None
    /\ Enters(w)
    /\ edits' = edits + 1
    /\ task' = [task EXCEPT ![w] = [pc |-> "unmap", company |-> c, read |-> mapping[c],
                                    raced |-> FALSE]]
    /\ UNCHANGED <<offered, excluded, rows, mapping, runs>>

CommitUnmap(w) ==
    /\ task[w].pc = "unmap"
    /\ mapping' = [mapping EXCEPT ![task[w].company] = None]
    /\ Leaves(w)
    /\ task' = [task EXCEPT ![w] = Idle]
    /\ UNCHANGED <<offered, excluded, rows, runs, edits>>

ProviderChanges(c) ==
    /\ edits < MaxEdits /\ edits' = edits + 1
    /\ offered' = IF c \in offered THEN offered \ {c} ELSE offered \cup {c}
    /\ UNCHANGED <<excluded, rows, mapping, lock, task, runs>>

SaveExclusion(c) ==
    /\ edits < MaxEdits /\ edits' = edits + 1
    /\ excluded' = IF c \in excluded THEN excluded \ {c} ELSE excluded \cup {c}
    /\ UNCHANGED <<offered, rows, mapping, lock, task, runs>>

Next == \/ \E w \in Workers :
             \/ BeginDiscovery(w) \/ ApplyFilters(w) \/ BeginStore(w)
             \/ \E c \in Companies : Upsert(w, c) \/ Sweep(w, c)
             \/ BeginSweep(w) \/ CommitStore(w) \/ RollBack(w)
             \/ \E c \in Companies, customer \in Customers : BeginMap(w, c, customer)
             \/ CommitMap(w)
             \/ \E c \in Companies : BeginUnmap(w, c)
             \/ CommitUnmap(w)
        \/ \E c \in Companies : ProviderChanges(c) \/ SaveExclusion(c)

Spec == Init /\ [][Next]_vars

-----------------------------------------------------------------------------
TypeOK == /\ offered \subseteq Companies /\ excluded \subseteq Companies
          /\ rows \in [Companies -> [run : 0..MaxRuns, active : BOOLEAN]]
          /\ mapping \in [Companies -> Customers \cup {None}]
          /\ lock \in [Replicas -> Workers \cup {None}]
          /\ \A w \in Range(lock) \ {None} : lock[Home[w]] = w /\ task[w] # Idle
          /\ runs \in 0..MaxRuns /\ edits \in 0..MaxEdits

\* When a discovery commits, the active customers are those it has read and not
\* excluded, and none that an earlier one left; but for customers that another
\* replica's discovery stores for the first time while this one sweeps.
OneDiscoveryStands ==
    [][\A w \in Workers :
          task[w].pc = "sweep" /\ rows' # rows /\ task'[w] = Idle
          => Active' = task[w].items \cup (task[w].late \cap Active)]_vars

\* A request that removes a mapping removes the one it has read and writes to
\* the audit trail; only a request to another replica can change it in between.
MappingsAreRemovedAsRead ==
    [][\A c \in Companies : mapping[c] # None /\ mapping'[c] = None =>
          \E w \in Workers : /\ task[w].pc = "unmap" /\ task[w].company = c
                             /\ task[w].read = mapping[c] \/ task[w].raced]_vars
=============================================================================
