--------------------------- MODULE DetailRotation ---------------------------
(***************************************************************************)
(* Which devices of an N-central organization a preview reads in detail.    *)
(* A preview reads the details of at most Limit[mode] devices, from a       *)
(* cursor on, and publishes the cursor its successor starts from. Nothing   *)
(* stores the cursor by itself: the next preview looks it up in the rows of *)
(* the customer's latest MaxListed device previews (sync_runs), whatever    *)
(* organization they read and however they ended.                           *)
(*                                                                         *)
(* A durable preview inserts its row when it is requested and keeps its     *)
(* summary in attributes.resultSummary. A direct one, which the continuous  *)
(* policies and the preview button run, inserts its row when it ends and    *)
(* keeps the cursor in attributes.enrichment, which the public form of a    *)
(* row leaves out. The lease of a policy lets one preview of an             *)
(* organization run at a time (PreviewRuns).                                *)
(***************************************************************************)
EXTENDS Integers, Sequences, FiniteSets, FiniteSetsExt

CONSTANTS Orgs,       \* the organizations mapped to one customer
          Estates,    \* the sets of devices an organization may list
          Limit,      \* enrichmentMode -> the devices read in detail (0, 25, 250)
          MaxListed,  \* the rows the look-up reads (50)
          MaxRuns     \* bound: previews of a behaviour

Modes == DOMAIN Limit

RotationAssumption ==
    /\ \A devices \in Estates : devices \subseteq Int /\ IsFiniteSet(devices)
    /\ Limit \in [Modes -> Nat] /\ "fast" \in Modes
    /\ MaxListed \in Nat /\ MaxRuns \in Nat

VARIABLES estate,   \* organization -> the devices N-central lists for it
          mode,     \* organization -> enrichmentMode of its saved policy
          listed,   \* the rows list_sync_runs returns, the latest last
          preview,  \* organization -> the preview that runs for it
          waited,   \* organization -> device -> the rounds it has waited
          begun     \* previews so far

vars == <<estate, mode, listed, preview, waited, begun>>

Steps == {"none", "claimed", "listing", "read"}
None == [step |-> "none", durable |-> FALSE, mode |-> "fast", offset |-> 0,
         rows |-> {}, window |-> {}]

Init == /\ estate \in [Orgs -> Estates] /\ mode \in [Orgs -> Modes]
        /\ listed = <<>> /\ preview = [o \in Orgs |-> None] /\ begun = 0
        /\ waited = [o \in Orgs |-> [d \in UNION Estates |-> 0]]

Recent(rows) == SubSeq(rows, Max({1, Len(rows) - MaxListed + 1}), Len(rows))

----------------------------------------------------------------------------
(* The cursor *)

\* The rows of successful previews of o that show their cursor.
CursorRows(o) == {i \in DOMAIN listed : /\ listed[i].org = o
                                        /\ listed[i].status = "success"
                                        /\ listed[i].durable}

\* _ncentral_saved_enrichment_offset: previews of one organization end in the
\* order of their rows.
SavedOffset(o) == IF CursorRows(o) = {} THEN 0 ELSE listed[Max(CursorRows(o))].next

\* Mutant: the cursor moves one device too far.
NextOffsetPast(offset, devices, limit) ==
    IF devices = {} \/ limit = 0 THEN 0 ELSE (offset + limit + 1) % Cardinality(devices)

NextOffset(offset, devices, limit) ==
    IF devices = {} \/ limit = 0 THEN 0 ELSE (offset + limit) % Cardinality(devices)

\* The place of a device in the order of their ids, from 0 on.
Place(devices, d) == Cardinality({x \in devices : x < d})

\* The devices read in detail: in the order of their ids, from the cursor on and
\* around the end.
Window(devices, offset, limit) ==
    {d \in devices : \E k \in 0..(limit - 1) :
                        Place(devices, d) = (offset + k) % Cardinality(devices)}

----------------------------------------------------------------------------
(* Previews *)

\* A durable preview is queued with the saved policy of that moment.
Request(o) ==
    /\ preview[o].step = "none" /\ begun < MaxRuns
    /\ begun' = begun + 1
    /\ listed' = Recent(Append(listed, [org |-> o, status |-> "active", durable |-> TRUE, next |-> 0]))
    /\ preview' = [preview EXCEPT ![o] = [None EXCEPT !.step = "claimed", !.durable = TRUE,
                                                      !.mode = mode[o]]]
    /\ UNCHANGED <<estate, mode, waited>>

\* A policy is claimed for a direct preview.
Claim(o) ==
    /\ preview[o].step = "none" /\ begun < MaxRuns
    /\ begun' = begun + 1
    /\ preview' = [preview EXCEPT ![o] = [None EXCEPT !.step = "claimed"]]
    /\ UNCHANGED <<estate, mode, listed, waited>>

\* The policy and, unless no details are wanted, the cursor are read. A device
\* whose cursor is not found any more begins to wait anew.
Start(o) ==
    LET p == preview[o]
        m == IF p.durable THEN p.mode ELSE mode[o]
    IN /\ p.step = "claimed"
       /\ preview' = [preview EXCEPT ![o].step = "listing", ![o].mode = m,
                                     ![o].offset = IF Limit[m] = 0 THEN 0 ELSE SavedOffset(o)]
       /\ waited' = IF CursorRows(o) = {} THEN [waited EXCEPT ![o] = [d \in DOMAIN @ |-> 0]]
                                          ELSE waited
       /\ UNCHANGED <<estate, mode, listed, begun>>

\* The devices are listed, and the details of the window are read. That the
\* details of one device cannot be read stops nothing (DetailReads).
Read(o) ==
    LET p == preview[o]
    IN /\ p.step = "listing"
       /\ preview' = [preview EXCEPT ![o].step = "read", ![o].rows = estate[o],
                                     ![o].window = Window(estate[o], p.offset, Limit[p.mode])]
       /\ UNCHANGED <<estate, mode, listed, waited, begun>>

\* The row of the preview that runs for o, written at its request or now.
Ended(o, status, next) ==
    LET p == preview[o]
        row == [org |-> o, status |-> status, durable |-> p.durable, next |-> next]
    IN listed' = IF p.durable
                 THEN [i \in DOMAIN listed |->
                          IF listed[i].org = o /\ listed[i].status = "active" THEN row ELSE listed[i]]
                 ELSE Recent(Append(listed, row))

\* Nothing changed since the preview began: it counts as a round.
IsRound(o) == preview[o].rows = estate[o] /\ preview[o].mode = mode[o] /\ Limit[mode[o]] > 0

Publish(o) ==
    LET p == preview[o]
    IN /\ p.step = "read"
       /\ Ended(o, "success", NextOffset(p.offset, p.rows, Limit[p.mode]))
       /\ preview' = [preview EXCEPT ![o] = None]
       /\ waited' = IF p.durable
                    THEN [waited EXCEPT ![o] = [d \in DOMAIN @ |->
                            IF IsRound(o) /\ d \in p.rows \ p.window THEN @[d] + 1 ELSE 0]]
                    ELSE waited
       /\ UNCHANGED <<estate, mode, begun>>

\* It fails or is cancelled.
Fail(o) ==
    /\ preview[o].step # "none"
    /\ Ended(o, "failed", 0)
    /\ preview' = [preview EXCEPT ![o] = None]
    /\ UNCHANGED <<estate, mode, waited, begun>>

\* Its worker dies or loses the lease. A durable preview is executed again, a
\* direct one leaves no row.
Lose(o) ==
    LET p == preview[o]
    IN /\ p.step \in {"listing", "read"}
       /\ preview' = [preview EXCEPT ![o] =
                        IF p.durable
                        THEN [None EXCEPT !.step = "claimed", !.durable = TRUE, !.mode = p.mode]
                        ELSE None]
       /\ UNCHANGED <<estate, mode, listed, waited, begun>>

\* The provider lists other devices. (Every device begins to wait anew.)
ChangeEstate(o) ==
    /\ estate' \in {[estate EXCEPT ![o] = devices] : devices \in Estates \ {estate[o]}}
    /\ waited' = [waited EXCEPT ![o] = [d \in DOMAIN @ |-> 0]]
    /\ UNCHANGED <<mode, listed, preview, begun>>

\* The saved policy asks for more or fewer details.
SavePolicy(o) ==
    /\ mode' \in {[mode EXCEPT ![o] = m] : m \in Modes \ {mode[o]}}
    /\ waited' = [waited EXCEPT ![o] = [d \in DOMAIN @ |-> 0]]
    /\ UNCHANGED <<estate, listed, preview, begun>>

Next == \E o \in Orgs : \/ Request(o) \/ Claim(o) \/ Start(o) \/ Read(o) \/ Publish(o)
                        \/ Fail(o) \/ Lose(o) \/ ChangeEstate(o) \/ SavePolicy(o)

Spec == Init /\ [][Next]_vars

----------------------------------------------------------------------------
TypeOK ==
    /\ estate \in [Orgs -> Estates] /\ mode \in [Orgs -> Modes]
    /\ listed \in Seq([org : Orgs, status : {"active", "success", "failed"},
                       durable : BOOLEAN, next : Nat])
    /\ Len(listed) <= MaxListed
    /\ \A o \in Orgs : /\ preview[o].step \in Steps /\ preview[o].mode \in Modes
                       /\ preview[o].window \subseteq preview[o].rows
                       /\ Cardinality(preview[o].window) <= Limit[preview[o].mode]
    /\ waited \in [Orgs -> [UNION Estates -> Nat]]

\* The details of every device are read in turn: as long as an organization and
\* its policy stay as they are, and its cursor is found, none of its n devices
\* waits through ceiling(n / limit) durable previews, however many others fail,
\* are cancelled, are executed again or are direct.
EveryDeviceHasItsTurn ==
    \A o \in Orgs, d \in UNION Estates :
        (Limit[mode[o]] > 0 /\ waited[o][d] > 0) =>
            waited[o][d] * Limit[mode[o]] < Cardinality(estate[o])

\* docs/NCENTRAL.md: "the saved cursor advances after each successful preview".
\* It does not after a direct one.
CursorAdvances ==
    [][\A o \in Orgs :
         (preview[o].step = "read" /\ Publish(o)) =>
             SavedOffset(o)' = NextOffset(preview[o].offset, preview[o].rows,
                                          Limit[preview[o].mode])]_vars
=============================================================================
