------------------------- MODULE TechnicalInventory -------------------------
(***************************************************************************)
(* The technical inventory of one provider device: its collections, stored  *)
(* as snapshots of the mapping that links the device to a CI, and its       *)
(* network interfaces (src/src/cmdb/repository.py, technical_inventory.py). *)
(*                                                                         *)
(* An import or an explicit link reads a record of the device, links the    *)
(* identity in one transaction and stores the inventory in another, which   *)
(* holds the row of the mapping.  Whatever happens between the steps of one *)
(* worker is done by others: another replica imports an older or a newer    *)
(* record, the device reports again, the mapping is moved or retired.       *)
(***************************************************************************)
EXTENDS Integers, FiniteSets, FiniteSetsExt, Functions

CONSTANTS Contents,          \* collection -> its possible contents, sets of items
          Cis, Workers,
          Retention,         \* snapshots kept of a collection
          MaxClock, MaxReports, MaxEdits   \* bounds

\* An item of a collection is [key, value]; an object is its keys and values.
Nics == "network_interfaces"
Rejected == "rejected"       \* key of a sensitive or oversized item
None == "none"
Idle == [pc |-> "idle"]

Collections == DOMAIN Contents
Keys == {item.key : item \in UNION Contents[Nics]}

InventoryAssumption ==
    /\ Nics \in Collections /\ None \notin Cis
    /\ \A item \in UNION UNION Range(Contents) : item = [key |-> item.key, value |-> item.value]
    /\ Retention \in Nat \ {0} /\ MaxClock \in Nat \ {0}

NoNic == [value |-> None, last |-> 0, active |-> FALSE, ci |-> None]
NoBest == [time |-> 0, content |-> {}, ci |-> None]

VARIABLES clock,     \* the latest time that an observation carries
          device,    \* what REST returns: the time of the check-in, the sections
          cached,    \* the published enrichment of the device: some sections
          mapping,   \* the CI that it is linked to, and whether it is active
          retired,   \* CIs out of service
          rows,      \* collection -> its snapshots
          nics,      \* interface key -> its row
          task,      \* worker -> the record that it holds
          best,      \* collection -> the newest observation stored so far
          reports, edits

vars == <<clock, device, cached, mapping, retired, rows, nics, task, best, reports, edits>>

NoSections == [c \in {} |-> {}]

Init == /\ clock = 1
        /\ device = [time |-> 1, sections |-> [c \in Collections |-> {}]]
        /\ cached = NoSections
        /\ mapping = [ci |-> None, active |-> FALSE]
        /\ retired = {}
        /\ rows = [c \in Collections |-> {}]
        /\ nics = [k \in Keys |-> NoNic]
        /\ task = [w \in Workers |-> Idle]
        /\ best = [c \in Collections |-> NoBest]
        /\ reports = 0 /\ edits = 0

\* The device checks in, or returns something else without a new check-in.
Report(c, content, checkIn) ==
    /\ reports < MaxReports /\ device.sections[c] # content
    /\ checkIn => clock < MaxClock
    /\ clock' = IF checkIn THEN clock + 1 ELSE clock
    /\ device' = [time |-> IF checkIn THEN clock' ELSE device.time,
                  sections |-> [device.sections EXCEPT ![c] = content]]
    /\ reports' = reports + 1
    /\ UNCHANGED <<cached, mapping, retired, rows, nics, task, best, edits>>

\* Another generation of the enrichment; empty groups are left out of it.
Publish(sections) ==
    /\ edits < MaxEdits
    /\ cached' = RestrictValues(Restrict(device.sections, sections), LAMBDA x : x # {})
    /\ edits' = edits + 1
    /\ UNCHANGED <<clock, device, mapping, retired, rows, nics, task, best, reports>>

-----------------------------------------------------------------------------
\* A list of the enrichment replaces the list of the record; an object adds to it.
Merged(c, rest, extra) ==
    IF c = Nics THEN extra
    ELSE extra \cup {item \in rest : \A other \in extra : other.key # item.key}

\* The sections that were read, with the enrichment merged in.
Enriched(rest, extra) ==
    [c \in DOMAIN rest \cup DOMAIN extra |->
        IF c \notin DOMAIN extra THEN rest[c]
        ELSE Merged(c, IF c \in DOMAIN rest THEN rest[c] ELSE {}, extra[c])]

\* A record of the device; without a time the import puts its own on it.
Read(w, sections, stamped) ==
    /\ task[w] = Idle
    /\ task' = [task EXCEPT ![w] =
                  [pc |-> "read", time |-> IF stamped THEN device.time ELSE 0,
                   sections |-> Enriched(Restrict(device.sections, sections), cached)]]
    /\ UNCHANGED <<clock, device, cached, mapping, retired, rows, nics, best, reports, edits>>

\* The reviewed import commits the identity: a link may move it to another CI.
Link(w, ci) ==
    /\ task[w].pc = "read"
    /\ ci \notin retired
    /\ mapping.ci # None => mapping.active
    /\ mapping' = [ci |-> ci, active |-> TRUE]
    /\ task' = [task EXCEPT ![w] = IF @.sections = NoSections THEN Idle
                                   ELSE [pc |-> "linked", time |-> @.time,
                                         sections |-> @.sections, ci |-> ci]]
    /\ UNCHANGED <<clock, device, cached, retired, rows, nics, best, reports, edits>>

\* The import is refused, or the operator does not pursue it.
Refuse(w) ==
    /\ task[w].pc = "read"
    /\ task' = [task EXCEPT ![w] = Idle]
    /\ UNCHANGED <<clock, device, cached, mapping, retired, rows, nics, best, reports, edits>>

\* Lifecycle decisions about the mapping, and a CI that is retired (in the database: no
\* statement of the program sets retired_at).
SetActive(active) ==
    /\ edits < MaxEdits /\ mapping.ci # None /\ mapping.active # active
    /\ mapping' = [mapping EXCEPT !.active = active]
    /\ edits' = edits + 1
    /\ UNCHANGED <<clock, device, cached, retired, rows, nics, task, best, reports>>

RetireCi(ci) ==
    /\ edits < MaxEdits /\ ci \notin retired
    /\ retired' = retired \cup {ci}
    /\ edits' = edits + 1
    /\ UNCHANGED <<clock, device, cached, mapping, rows, nics, task, best, reports>>

-----------------------------------------------------------------------------
Current(c) == {r \in rows[c] : r.current}

\* Mutant: an observation is never too old.
NeverStale(c, t) == FALSE

Stale(c, t) == \E r \in Current(c) : t < r.last

\* The rows of c after an observation at t, before old ones are deleted.
After(c, content, t, ci) ==
    LET same == {r \in rows[c] : r.content = content}
        last == Max({t} \cup {r.last : r \in same})
    IN  IF Stale(c, t)
        THEN IF same = {}
             THEN rows[c] \cup {[content |-> content, last |-> t, current |-> FALSE, ci |-> ci]}
             ELSE (rows[c] \ same) \cup {[r EXCEPT !.last = last] : r \in same}
        ELSE {[r EXCEPT !.current = FALSE] : r \in rows[c] \ same}
             \cup {[content |-> content, last |-> last, current |-> TRUE, ci |-> ci]}

Before(r, s) == r.current \/ (~s.current /\ r.last >= s.last)

\* What retention may keep: the current row, then the newest.
Retained(all) ==
    {kept \in SUBSET all :
        /\ Cardinality(kept) = Min({Cardinality(all), Retention})
        /\ \A r \in kept, s \in all \ kept : Before(r, s)}

\* Rows of k after the interfaces were stored; of two with one key the last stands.
NicAfter(k, items, t, ci) ==
    LET reported == {item \in items : item.key = k}
        stale == t < nics[k].last
    IN  IF reported # {}
        THEN {IF stale THEN nics[k]
              ELSE [value |-> item.value, last |-> t, active |-> TRUE, ci |-> ci] :
                 item \in reported}
        ELSE {IF stale THEN nics[k] ELSE [nics[k] EXCEPT !.active = FALSE]}

Available(ci) == mapping.active /\ mapping.ci = ci /\ ci \notin retired

Refused(sections) == \E item \in UNION Range(sections) : item.key = Rejected

Newer(b, t, content, ci) == IF t < b.time THEN b ELSE [time |-> t, content |-> content, ci |-> ci]

\* One transaction: every collection of the record, then its interfaces.
Store(w) ==
    LET record == task[w]
        ci == record.ci
        t == IF record.time # 0 THEN record.time ELSE clock + 1
        stored == DOMAIN record.sections
    IN  /\ record.pc = "linked"
        /\ task' = [task EXCEPT ![w] = Idle]
        /\ IF Available(ci) /\ ~Refused(record.sections)
           THEN /\ t <= MaxClock /\ clock' = Max({clock, t})
                /\ \E kept \in [stored -> UNION {Retained(After(c, record.sections[c], t, ci)) :
                                                    c \in stored}] :
                      /\ \A c \in stored :
                            kept[c] \in Retained(After(c, record.sections[c], t, ci))
                      /\ rows' = [c \in Collections |-> IF c \in stored THEN kept[c] ELSE rows[c]]
                /\ IF Nics \in stored /\ ~Stale(Nics, t)
                   THEN \E after \in [Keys -> UNION {NicAfter(k, record.sections[Nics], t, ci) :
                                                        k \in Keys}] :
                           /\ \A k \in Keys : after[k] \in NicAfter(k, record.sections[Nics], t, ci)
                           /\ nics' = after
                   ELSE UNCHANGED nics
                /\ best' = [c \in Collections |->
                              IF c \in stored THEN Newer(best[c], t, record.sections[c], ci)
                              ELSE best[c]]
           ELSE UNCHANGED <<clock, rows, nics, best>>
        /\ UNCHANGED <<device, cached, mapping, retired, reports, edits>>

Next ==
    \/ \E c \in Collections, checkIn \in BOOLEAN :
          \E content \in Contents[c] : Report(c, content, checkIn)
    \/ \E sections \in SUBSET Collections : Publish(sections)
    \/ \E w \in Workers, sections \in SUBSET Collections, stamped \in BOOLEAN :
          Read(w, sections, stamped)
    \/ \E w \in Workers, ci \in Cis : Link(w, ci)
    \/ \E w \in Workers : Refuse(w) \/ Store(w)
    \/ \E active \in BOOLEAN : SetActive(active)
    \/ \E ci \in Cis : RetireCi(ci)

Spec == Init /\ [][Next]_vars

-----------------------------------------------------------------------------
\* What the inventory of a CI shows.
Shown(ci) ==
    IF ci \in retired THEN [collections |-> {}, nics |-> {}]
    ELSE [collections |-> UNION {{<<c, r.content>> : r \in {s \in Current(c) : s.ci = ci}} :
                                    c \in Collections},
          nics |-> {[key |-> k, value |-> nics[k].value] :
                       k \in {n \in Keys : nics[n].active /\ nics[n].ci = ci}}]

\* Every variable has its type, and no collection keeps more than it should.
TypeOK ==
    /\ clock \in 1..MaxClock /\ device.time \in 1..clock
    /\ \A c \in Collections :
          /\ device.sections[c] \in Contents[c] \cup {{}}
          /\ Cardinality(rows[c]) <= Retention
          /\ rows[c] \subseteq [content : SUBSET UNION Contents[c], last : 1..clock,
                                current : BOOLEAN, ci : Cis]
    /\ mapping \in [ci : Cis \cup {None}, active : BOOLEAN]
    /\ retired \subseteq Cis
    /\ \A w \in Workers : task[w].pc \in {"idle", "read", "linked"}

\* A CI shows of each collection the observation with the latest time, of two
\* with one time the one stored later, however the imports were delayed: an
\* older record, a partial one and a rejected one leave the collection alone.
NewestObservationStands ==
    \A ci \in Cis \ retired :
       Shown(ci).collections =
          {<<c, best[c].content>> : c \in {d \in Collections : best[d].ci = ci}}

\* The interfaces that a CI shows are those of the list that it shows: each is
\* one of the list, and each of the list is shown unless another has its key.
InterfacesFollowSnapshot ==
    \A ci \in Cis :
       LET items == UNION {shown[2] : shown \in {x \in Shown(ci).collections : x[1] = Nics}}
       IN  /\ Shown(ci).nics \subseteq items
           /\ {nic.key : nic \in Shown(ci).nics} = {item.key : item \in items}
=============================================================================
