-------------------------- MODULE ChangeTemplates --------------------------
(***************************************************************************)
(* One standard change template with its versions, the start-up job that    *)
(* adds closure tests to it, and a change that is created from it and       *)
(* closed against it (src/src/cmdb/repository.py, change_templates.py and   *)
(* change_control.py, src/backend/main.py).                                 *)
(*                                                                         *)
(* An editor's save and the start-up job of a replica run as transactions:  *)
(* a version inserted by one is not visible to the others until it commits, *)
(* and makes whoever inserts the same version number wait.                  *)
(***************************************************************************)
EXTENDS Integers, FiniteSets, Functions

CONSTANTS Editors, Seeders, None,
          MaxVersion   \* bound

TemplateAssumption == /\ None \notin Editors \cup Seeders /\ Editors \cap Seeders = {}
                      /\ MaxVersion \in Nat \ {0}

Processes == Editors \cup Seeders
Results == {"successful", "successful_with_issues", "failed"}
TestResults == {"passed", "failed", "not_run", "pending"}

\* A version's content, as far as it matters: has it a required closure test
\* of its own, and does that test ask for evidence?  Optional tests bind no
\* closure: versions that differ only in them are not told apart.
Contents == {"no_tests", "test", "test_with_evidence"}

VARIABLES template,  \* the version in force and the template's status
          versions,  \* version -> its content and who has yet to commit it
          lock,      \* whose transaction holds the template's row
          proc,      \* editor or starting replica -> where it is
          change,    \* the change created from the template
          closed     \* the closure assessment that was accepted

vars == <<template, versions, lock, proc, change, closed>>

Idle == [pc |-> "idle"]
NoChange == [version |-> 0, content |-> "no_tests", type |-> "normal", risk |-> "low",
             systems |-> FALSE, rollback |-> FALSE]

Init == /\ template = [current |-> 1, status |-> "published"]
        /\ versions = [v \in {1} |-> [content |-> "no_tests", writer |-> None]]
        /\ lock = None
        /\ proc = [p \in Processes |-> Idle]
        /\ change = NoChange
        /\ closed = None

-----------------------------------------------------------------------------
Committed(v) == v \in DOMAIN versions /\ versions[v].writer = None
Uncommitted(v) == v \in DOMAIN versions /\ versions[v].writer # None

WithVersion(v, row) ==
    [w \in DOMAIN versions \cup {v} |-> IF w = v THEN row ELSE versions[w]]

\* What p's transaction leaves when it ends: its version committed ...
CommittedBy(p) ==
    [v \in DOMAIN versions |->
        IF versions[v].writer = p THEN [versions[v] EXCEPT !.writer = None] ELSE versions[v]]

\* ... or gone, with its lock.
Abort(p) ==
    /\ versions' = Restrict(versions, {v \in DOMAIN versions : versions[v].writer # p})
    /\ lock' = IF lock = p THEN None ELSE lock
    /\ proc' = [proc EXCEPT ![p] = Idle]

\* An editor has the current version on screen and fills in the next.
BeginUpdate(e, content, status) ==
    /\ proc[e] = Idle
    /\ template.current < MaxVersion
    /\ proc' = [proc EXCEPT ![e] = [pc |-> "save", expected |-> template.current,
                                    content |-> content, status |-> status]]
    /\ UNCHANGED <<template, versions, lock, change, closed>>

\* SELECT ... FOR UPDATE, and the comparison with the version on screen.
LockTemplate(e) ==
    /\ proc[e].pc = "save" /\ lock = None
    /\ IF template.current = proc[e].expected
       THEN /\ lock' = e
            /\ proc' = [proc EXCEPT ![e].pc = "insert"]
       ELSE /\ proc' = [proc EXCEPT ![e] = Idle]
            /\ UNCHANGED lock
    /\ UNCHANGED <<template, versions, change, closed>>

\* The editor's insertion waits for an uncommitted row of the same version and
\* fails on a committed one.
InsertVersion(e) ==
    /\ e \in Editors /\ proc[e].pc = "insert"
    /\ LET next == proc[e].expected + 1
       IN /\ ~Uncommitted(next)
          /\ IF Committed(next)
             THEN Abort(e)
             ELSE /\ versions' = WithVersion(next, [content |-> proc[e].content, writer |-> e])
                  /\ proc' = [proc EXCEPT ![e].pc = "point"]
                  /\ UNCHANGED lock
    /\ UNCHANGED <<template, change, closed>>

CommitUpdate(e) ==
    /\ e \in Editors /\ proc[e].pc = "point"
    /\ template' = [current |-> proc[e].expected + 1, status |-> proc[e].status]
    /\ versions' = CommittedBy(e)
    /\ lock' = None
    /\ proc' = [proc EXCEPT ![e] = Idle]
    /\ UNCHANGED <<change, closed>>

-----------------------------------------------------------------------------
\* A replica starts: a standard template whose current version has no closure
\* tests gets the tests of the catalogue in a version of its own.
SeedRead(s) ==
    /\ proc[s] = Idle
    /\ template.current < MaxVersion
    /\ versions[template.current].content = "no_tests"
    /\ proc' = [proc EXCEPT ![s] = [pc |-> "insert", next |-> template.current + 1]]
    /\ UNCHANGED <<template, versions, lock, change, closed>>

\* ON CONFLICT DO NOTHING: waits for an uncommitted row, skips a committed one.
SeedInsert(s) ==
    /\ s \in Seeders /\ proc[s].pc = "insert"
    /\ ~Uncommitted(proc[s].next)
    /\ versions' = IF Committed(proc[s].next) THEN versions
                   ELSE WithVersion(proc[s].next, [content |-> "test", writer |-> s])
    /\ proc' = [proc EXCEPT ![s].pc = "point"]
    /\ UNCHANGED <<template, lock, change, closed>>

\* Mutant: the next version is counted from the pointer as it now stands.
SeedPointNext(s) ==
    /\ s \in Seeders /\ proc[s].pc = "point" /\ lock = None
    /\ template' = [template EXCEPT !.current = @ + 1]
    /\ versions' = CommittedBy(s)
    /\ proc' = [proc EXCEPT ![s] = Idle]
    /\ UNCHANGED <<lock, change, closed>>

\* UPDATE ... WHERE current_version < next, which waits for the row's lock.
SeedPoint(s) ==
    /\ s \in Seeders /\ proc[s].pc = "point" /\ lock = None
    /\ template' = [template EXCEPT !.current = IF @ < proc[s].next THEN proc[s].next ELSE @]
    /\ versions' = CommittedBy(s)
    /\ proc' = [proc EXCEPT ![s] = Idle]
    /\ UNCHANGED <<lock, change, closed>>

\* The editor holds the row and waits for the replica's version; the replica
\* holds the version and waits for the row.  The database ends one of the two.
Deadlock(e, s) ==
    /\ lock = e /\ proc[e].pc = "insert" /\ proc[s].pc = "point"
    /\ Uncommitted(proc[e].expected + 1) /\ versions[proc[e].expected + 1].writer = s
    /\ Abort(e) \/ Abort(s)
    /\ UNCHANGED <<template, change, closed>>

-----------------------------------------------------------------------------
\* A published template gives a change the content of any of its versions: the
\* request may name an older one than the current.
CreateChange(v, type, risk, systems) ==
    /\ change = NoChange
    /\ template.status = "published" /\ Committed(v)
    /\ change' = [version |-> v, content |-> versions[v].content, type |-> type,
                  risk |-> risk, systems |-> systems, rollback |-> FALSE]
    /\ UNCHANGED <<template, versions, lock, proc, closed>>

BackOut ==
    /\ change # NoChange /\ ~change.rollback /\ closed = None
    /\ change' = [change EXCEPT !.rollback = TRUE]
    /\ UNCHANGED <<template, versions, lock, proc, closed>>

\* The test of the pinned version, or the validation plan for want of one.
PinnedKey(c) == IF c.content = "no_tests" THEN "validation_plan" ELSE "pinned"

\* An assessment may add tests with requirements of their own; those of the
\* pinned test are the version's, whatever the assessment says.
Required(c, test) == test.key = PinnedKey(c) \/ test.strict
EvidenceRequired(c, test) ==
    IF test.key = PinnedKey(c) THEN c.content = "test_with_evidence" ELSE test.strict

RequiresReview(c, a) ==
    \/ c.type = "emergency" \/ c.risk = "high" \/ c.rollback
    \/ a.result # "successful" \/ a.service # "restored"
    \/ \E t \in a.tests : t.result = "failed"

Complete(c, test) ==
    /\ Required(c, test) => test.result \notin {"pending", "not_run"}
    /\ EvidenceRequired(c, test) /\ test.result \in {"passed", "failed"} => test.evidence

\* Mutant: every test is held to the requirements the assessment states.
AcceptsSupplied(c, a) ==
    /\ \A t \in a.tests : t.strict => t.result \notin {"pending", "not_run"} /\ t.evidence
    /\ PinnedKey(c) \in {t.key : t \in a.tests}
    /\ a.result = "successful" => \A t \in a.tests : t.strict => t.result = "passed"
    /\ a.result \in {"successful", "successful_with_issues"} => a.service = "restored"
    /\ RequiresReview(c, a) => a.reviewed
    /\ c.systems /\ c.risk = "high" => a.confirmed

Accepts(c, a) ==
    /\ \A t \in a.tests : Complete(c, t)
    /\ PinnedKey(c) \in {t.key : t \in a.tests}
    /\ a.result = "successful" =>
          \A t \in a.tests : Required(c, t) => t.result = "passed"
    /\ a.result \in {"successful", "successful_with_issues"} => a.service = "restored"
    /\ RequiresReview(c, a) => a.reviewed
    /\ c.systems /\ c.risk = "high" => a.confirmed

Tests(keys) == [key : keys, result : TestResults, evidence : BOOLEAN, strict : BOOLEAN]

\* What a technician may send: at most two tests, and a review that comes with
\* the lessons learned.
Assessments ==
    [tests : {{t} : t \in Tests({"pinned", "validation_plan", "extra"})}
             \cup {{t, u} : t \in Tests({"pinned"}), u \in Tests({"extra"})},
     result : Results, service : {"restored", "degraded"},
     reviewed : BOOLEAN, confirmed : BOOLEAN]

CloseChange(a) ==
    /\ change # NoChange /\ closed = None
    /\ Accepts(change, a)
    /\ closed' = a
    /\ UNCHANGED <<template, versions, lock, proc, change>>

-----------------------------------------------------------------------------
LibraryNext ==
    \/ \E e \in Editors : \/ LockTemplate(e) \/ InsertVersion(e) \/ CommitUpdate(e)
                          \/ \E c \in Contents, status \in {"draft", "published"} :
                                BeginUpdate(e, c, status)
    \/ \E s \in Seeders : SeedRead(s) \/ SeedInsert(s) \/ SeedPoint(s)
    \/ \E e \in Editors, s \in Seeders : Deadlock(e, s)

CreateNext ==
    \E v \in 1..MaxVersion, type \in {"normal", "emergency"}, risk \in {"low", "high"},
       systems \in BOOLEAN : CreateChange(v, type, risk, systems)

CloseNext == BackOut \/ \E a \in Assessments : CloseChange(a)

Next == LibraryNext \/ CreateNext \/ CloseNext

Spec == Init /\ [][Next]_vars

-----------------------------------------------------------------------------
\* Type correctness.
TypeOK ==
    /\ template \in [current : 1..MaxVersion, status : {"draft", "published"}]
    /\ DOMAIN versions \subseteq 1..MaxVersion
    /\ \A v \in DOMAIN versions : versions[v].content \in Contents
    /\ lock \in Editors \cup {None}
    /\ \A p \in Processes : proc[p].pc \in {"idle", "save", "insert", "point"}

\* The history of a template only grows, whoever saves and whichever replica
\* starts meanwhile: the version in force is never an earlier one again, it is
\* always there to be read, and no committed version changes.
HistoryGrows ==
    [][/\ template'.current >= template.current
       /\ template'.current \in DOMAIN versions' /\ versions'[template'.current].writer = None
       /\ \A v \in DOMAIN versions : Committed(v) =>
             v \in DOMAIN versions' /\ versions'[v] = versions[v]]_vars

\* A change is closed on the terms of the version it was created from, which an
\* edit of the template or the words of the assessment do not soften: a
\* successful change passed that version's test, with the evidence it asks for,
\* and whatever went wrong on the way was reviewed.
ClosedOnPinnedTerms ==
    closed # None =>
        LET of == versions[change.version].content
            tests == {t \in closed.tests :
                         t.key = IF of = "no_tests" THEN "validation_plan" ELSE "pinned"}
            failed == {t \in closed.tests : t.result = "failed"}
        IN /\ \A t \in tests : /\ t.result \in {"passed", "failed"}
                               /\ of = "test_with_evidence" => t.evidence
           /\ tests # {}
           /\ closed.result = "successful" => tests \cap failed = {}
           /\ failed # {} \/ change.rollback => closed.reviewed
=============================================================================
