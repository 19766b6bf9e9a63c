------------------------ MODULE ContentRestrictions ------------------------
(***************************************************************************)
(* The restricted words of the platform: rows of the database, edited by   *)
(* administrators, the registry every guard of this process reads, and the *)
(* term sets compiled from it per country.  An operation writes its row,   *)
(* reads all active rows back and hydrates the registry with them: three   *)
(* awaits, between which other operations and guards run.                  *)
(***************************************************************************)
EXTENDS Naturals, FiniteSets

CONSTANTS
    Terms,          \* words that may be restricted
    Countries,      \* two-letter codes
    Global,         \* "*", every country
    Severities,     \* BANNED and RESTRICTED; a search is refused for both
    Defaults,       \* the entries DEFAULT_CONTENT_RESTRICTIONS seeds
    RowIds,         \* identifiers of rows; bounds how many there can be
    NoRow,          \* not a row
    NotCompiled,    \* no compiled set
    Admins,         \* operations in flight at a time
    MaxEdits        \* bound: edits in all

Scopes == Countries \cup {Global}
Entry == [term : Terms, country : Scopes, severity : Severities]
Row == [entry : Entry, active : BOOLEAN]

ASSUME RestrictionAssumption ==
    /\ Global \notin Countries
    /\ Defaults \subseteq Entry
    /\ NoRow \notin Row
    /\ MaxEdits \in Nat

VARIABLES
    rows,           \* the table contentRestrictionTerm
    registry,       \* records, the active entries in memory
    compiled,       \* compileCache: all terms that apply in a country
    admin,          \* where each administrator's operation is
    edits,          \* operations started
    behind          \* history: the last reload failed, or its rows had changed
                    \* again before they were hydrated

restrictionVars == <<rows, registry, compiled, admin, edits, behind>>

Idle == [pc |-> "idle", id |-> NoRow, read |-> {}]
AdminSteps == {"idle", "update", "delete", "read", "hydrate"}

RestrictionsTyped ==
    /\ rows \in [RowIds -> Row \cup {NoRow}]
    /\ registry \subseteq Entry
    /\ compiled \in [Scopes -> (SUBSET Terms) \cup {NotCompiled}]
    /\ admin \in [Admins -> [pc : AdminSteps, id : RowIds \cup {NoRow}, read : SUBSET Entry]]
    /\ edits \in 0..MaxEdits
    /\ behind \in BOOLEAN

Taken(e) == \E i \in RowIds : rows[i] # NoRow /\ rows[i].entry = e
ActiveIn(r) == {r[i].entry : i \in {j \in RowIds : r[j] # NoRow /\ r[j].active}}
Active == ActiveIn(rows)

\* The terms that apply in a country: its own and the global ones.
Applicable(entries, country) ==
    {e.term : e \in {f \in entries : f.country \in {Global, country}}}

\* Mutant: the terms compiled from the previous records are kept.
HydrateKeeping(entries) ==
    /\ registry' = entries
    /\ UNCHANGED compiled
Hydrate(entries) ==
    /\ registry' = entries
    /\ compiled' = [c \in Scopes |-> NotCompiled]

\* The compiled terms of a country: the remembered ones, or those of the registry.
AllTerms(country) ==
    IF compiled[country] # NotCompiled THEN compiled[country]
    ELSE Applicable(registry, country)
Compile(country) == compiled' = [compiled EXCEPT ![country] = AllTerms(country)]

\* createMany with skipDuplicates: a default whose entry no row has gets a row.
Seeds(before, r) ==
    LET Has(table, e) == \E i \in RowIds : table[i] # NoRow /\ table[i].entry = e
        added == {i \in RowIds : r[i] # before[i]}
    IN  /\ \A i \in added : /\ before[i] = NoRow
                            /\ r[i].active /\ r[i].entry \in Defaults
                            /\ ~ Has(before, r[i].entry)
        /\ \A i, j \in added : r[i] = r[j] => i = j
        /\ \A e \in Defaults : Has(r, e)

\* There are rows enough for the defaults.
ASSUME SeedsAssumption ==
    \E r \in [RowIds -> Row \cup {NoRow}] : Seeds([i \in RowIds |-> NoRow], r)

RestrictionsInit ==
    /\ rows = CHOOSE r \in [RowIds -> Row \cup {NoRow}] : Seeds([i \in RowIds |-> NoRow], r)
    /\ registry = Defaults
    /\ compiled = [c \in Scopes |-> NotCompiled]
    /\ admin = [a \in Admins |-> Idle]
    /\ edits \in 0..MaxEdits
    /\ behind = FALSE

To(a, pc) == admin' = [admin EXCEPT ![a] = [Idle EXCEPT !.pc = pc]]

\* create: the unique key of the table refuses an entry that has a row.
Create(a) ==
    /\ admin[a].pc = "idle"
    /\ edits < MaxEdits
    /\ edits' = edits + 1
    /\ \E i \in RowIds, e \in Entry, on \in BOOLEAN :
          /\ rows[i] = NoRow
          /\ \/ Taken(e) /\ UNCHANGED <<rows, admin>>
             \/ /\ ~ Taken(e)
                /\ rows' = [rows EXCEPT ![i] = [entry |-> e, active |-> on]]
                /\ To(a, "read")
    /\ UNCHANGED <<registry, compiled, behind>>

\* requireById: an update or a removal looks the row up first.
RequireById(a) ==
    /\ admin[a].pc = "idle"
    /\ edits < MaxEdits
    /\ edits' = edits + 1
    /\ \E i \in RowIds, pc \in {"update", "delete"} :
          /\ rows[i] # NoRow
          /\ admin' = [admin EXCEPT ![a] = [Idle EXCEPT !.pc = pc, !.id = i]]
    /\ UNCHANGED <<rows, registry, compiled, behind>>

\* update: the row is gone, or its new entry is another row's, or it is written.
Update(a) ==
    /\ admin[a].pc = "update"
    /\ LET i == admin[a].id
       IN  \E e \in Entry, on \in BOOLEAN :
              IF rows[i] = NoRow \/ (Taken(e) /\ rows[i].entry # e)
              THEN To(a, "idle") /\ UNCHANGED rows
              ELSE To(a, "read") /\ rows' = [rows EXCEPT ![i] = [entry |-> e, active |-> on]]
    /\ UNCHANGED <<registry, compiled, edits, behind>>

RemoveRow(a) ==
    /\ admin[a].pc = "delete"
    /\ To(a, IF rows[admin[a].id] = NoRow THEN "idle" ELSE "read")
    /\ rows' = [rows EXCEPT ![admin[a].id] = NoRow]
    /\ UNCHANGED <<registry, compiled, edits, behind>>

\* reload: the rows are read in one await and hydrated after it.
ReadActive(a) ==
    /\ admin[a].pc = "read"
    /\ admin' = [admin EXCEPT ![a] = [Idle EXCEPT !.pc = "hydrate", !.read = Active]]
    /\ UNCHANGED <<rows, registry, compiled, edits, behind>>
\* The read throws: the operation fails although its row is written.
ReadActiveFails(a) ==
    /\ admin[a].pc = "read"
    /\ To(a, "idle")
    /\ behind' = TRUE
    /\ UNCHANGED <<rows, registry, compiled, edits>>
HydrateRead(a) ==
    /\ admin[a].pc = "hydrate"
    /\ Hydrate(admin[a].read)
    /\ To(a, "idle")
    /\ behind' = (admin[a].read # Active)
    /\ UNCHANGED <<rows, edits>>

\* onModuleInit of a new process: seed the defaults, then reload.
Startup ==
    /\ \E r \in [RowIds -> Row \cup {NoRow}] :
          /\ Seeds(rows, r)
          /\ rows' = r
          /\ registry' = ActiveIn(r)
    /\ compiled' = [c \in Scopes |-> NotCompiled]
    /\ admin' = [a \in Admins |-> Idle]
    /\ behind' = FALSE
    /\ UNCHANGED edits

RestrictionStep ==
    \E a \in Admins :
        \/ Create(a)
        \/ RequireById(a)
        \/ Update(a)
        \/ RemoveRow(a)
        \/ ReadActive(a)
        \/ ReadActiveFails(a)
        \/ HydrateRead(a)

\* No operation has written a row and not hydrated it yet, and none was overtaken.
Settled == ~ behind /\ \A a \in Admins : admin[a].pc \notin {"read", "hydrate"}

---------------------------------------------------------------------------
(* What an administrator may expect and the code does not keep.            *)

\* A removed word stays removed: a default is seeded again at the next start,
\* since only rows that are there keep it from being seeded.
RemovalsLast ==
    [][\A e \in Entry : e \in Active' /\ ~ Taken(e) =>
          \E a \in Admins : Create(a) \/ Update(a)]_restrictionVars

\* Once every operation is over the registry holds the active rows: of two
\* operations the one that read first may hydrate last.
RegistryCatchesUp ==
    (\A a \in Admins : admin[a].pc = "idle") => registry = Active
=============================================================================
