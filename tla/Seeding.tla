------------------------------- MODULE Seeding -------------------------------
(***************************************************************************)
(* The rows the assistant writes into a Space (spaces/spec/seed-records.ts *)
(* and validate-spec.ts, through the tools create_space, update_space and  *)
(* add_space_records).  A row points at another one by its name, which is  *)
(* replaced by that row's id before anything is stored: a batch is read    *)
(* against the spec and the rows as the call read them, one after the      *)
(* other, and users of the Space add, edit and delete rows meanwhile.      *)
(*                                                                         *)
(* A row's id is its place in `rows`, where a deleted row stays as it was, *)
(* without being there.  Names are model values, compared trimmed and in   *)
(* lower case.                                                             *)
(***************************************************************************)
EXTENDS Naturals, Sequences, SequencesExt

CONSTANTS
    AppSpecs,           \* what the model sends as a spec, well-formed or not
    SeedBatches,        \* what it sends as rows: sequences of [entity, data]
    Typed,              \* what a user of the Space types into a row
    Numerals,           \* the values that Number() accepts
    MAX_SEED_RECORDS,
    MaxStored,          \* bound: rows ever stored
    Blank               \* '', null or absent

ASSUME SeedingAssumption ==
    /\ MAX_SEED_RECORDS \in Nat /\ MaxStored \in Nat
    /\ Blank \notin AppSpecs
    /\ \A spec \in AppSpecs : \A k \in DOMAIN spec.entities :
          spec.entities[k].fields \in Seq(Range(spec.entities[k].fields))
    /\ \A batch \in SeedBatches : batch \in Seq(Range(batch))

VARIABLES
    app,                \* the spec of the Space, or Blank before it is built
    rows,               \* its records, by id
    seeding,            \* the call of add_space_records being served
    editing,            \* bound: one user's edit at a time, read and not yet saved
    seedCalls           \* ghost: calls that have stored rows

seedingVars == <<app, rows, seeding, editing, seedCalls>>

FIELD_TYPES == {"string", "text", "number", "reference"}
Waiting == [phase |-> "waiting", spec |-> Blank, batch |-> <<>>, existing |-> {}]

-----------------------------------------------------------------------------
(* validateAppSpec.                                                        *)

Distinctly(seq) == IsInjective([k \in DOMAIN seq |-> seq[k].name])
NamesIn(seq) == {seq[k].name : k \in DOMAIN seq}

ValidField(f) ==
    /\ f.name # Blank /\ f.type \in FIELD_TYPES
    /\ f.type = "reference" => f.refEntity # Blank

ValidEntity(e) ==
    /\ e.name # Blank
    /\ e.fields # <<>> /\ Distinctly(e.fields)
    /\ \A k \in DOMAIN e.fields : ValidField(e.fields[k])

\* A view is the entity its form, table or widget shows.
ValidView(view, entityNames) == view \in entityNames

validateAppSpec(spec) ==
    /\ spec.entities # <<>> /\ Distinctly(spec.entities)
    /\ \A k \in DOMAIN spec.entities : ValidEntity(spec.entities[k])
    /\ spec.views # <<>>
    /\ \A k \in DOMAIN spec.views : ValidView(spec.views[k], NamesIn(spec.entities))

-----------------------------------------------------------------------------
(* Reading a batch: prepareSeedRecords, validateRecordData,                *)
(* resolveReferences.                                                      *)

HasEntity(spec, name) == name \in NamesIn(spec.entities)
EntityOf(spec, name) == spec.entities[CHOOSE k \in DOMAIN spec.entities : spec.entities[k].name = name]
FieldOf(entity, name) == entity.fields[CHOOSE k \in DOMAIN entity.fields : entity.fields[k].name = name]

\* labelFieldOf: the first string or text field.
TextFields(entity) == {k \in DOMAIN entity.fields : entity.fields[k].type \in {"string", "text"}}
labelFieldOf(entity) ==
    entity.fields[CHOOSE k \in TextFields(entity) : \A l \in TextFields(entity) : k <= l].name

\* The name a row is known by; Blank when it has none.
LabelOf(spec, row) ==
    IF /\ HasEntity(spec, row.entity)
       /\ TextFields(EntityOf(spec, row.entity)) # {}
       /\ labelFieldOf(EntityOf(spec, row.entity)) \in DOMAIN row.data
    THEN row.data[labelFieldOf(EntityOf(spec, row.entity))] ELSE Blank

\* What is kept of the data: known fields that hold something.
Clean(entity, data) ==
    [f \in {g \in DOMAIN data : g \in NamesIn(entity.fields) /\ data[g] # Blank} |-> data[f]]

\* validateRecordData: required fields are there and numbers are numbers.
Acceptable(entity, data) ==
    \A k \in DOMAIN entity.fields :
        LET f == entity.fields[k]
        IN  IF f.name \in DOMAIN Clean(entity, data)
            THEN f.type = "number" => data[f.name] \in Numerals
            ELSE ~f.required

\* A row of the model's is refused for a field that does not exist and for
\* having no values, where a user's is stored without them.
SeedAcceptable(spec, row) ==
    /\ HasEntity(spec, row.entity)
    /\ DOMAIN row.data \subseteq NamesIn(EntityOf(spec, row.entity).fields)
    /\ Acceptable(EntityOf(spec, row.entity), row.data)
    /\ DOMAIN Clean(EntityOf(spec, row.entity), row.data) # {}

IsReference(spec, row, f) ==
    HasEntity(spec, row.entity) /\ FieldOf(EntityOf(spec, row.entity), f).type = "reference"

\* The ids a reference to the entity target by name may become: the first row
\* of the batch with that name, else one in the app, which come in no order.
\* Fault: the rows in the app go in first.
NamedExistingFirst(spec, target, name, batch, first, existing) ==
    LET Fits(row) == row.entity = target /\ LabelOf(spec, row) = name
        old == {e \in existing : Fits(e)}
    IN  IF old # {} THEN {e.id : e \in old} ELSE {first + k : k \in {l \in DOMAIN batch : Fits(batch[l])}}

Named(spec, target, name, batch, first, existing) ==
    LET Fits(row) == row.entity = target /\ LabelOf(spec, row) = name
        new == {k \in DOMAIN batch : Fits(batch[k])}
        old == {e \in existing : Fits(e)}
    IN  IF new # {} THEN {first + CHOOSE k \in new : \A l \in new : k <= l}
        ELSE {e.id : e \in old}

\* The batches that prepareSeedRecords may return, none when anything is
\* wrong with any row.  first is the number of ids given before.
prepareSeedRecords(spec, batch, first, existing) ==
    LET Kept(k) == Clean(EntityOf(spec, batch[k].entity), batch[k].data)
        Candidates(k, f) ==
            IF IsReference(spec, batch[k], f)
            THEN Named(spec, FieldOf(EntityOf(spec, batch[k].entity), f).refEntity, Kept(k)[f],
                       batch, first, existing)
            ELSE {Kept(k)[f]}
        Linked(k) == {d \in [DOMAIN Kept(k) -> UNION {Candidates(k, f) : f \in DOMAIN Kept(k)}] :
                          \A f \in DOMAIN d : d[f] \in Candidates(k, f)}
        Whole == UNION {Linked(k) : k \in DOMAIN batch}
    IN  IF Len(batch) > MAX_SEED_RECORDS \/ \E k \in DOMAIN batch : ~SeedAcceptable(spec, batch[k])
        THEN {}
        ELSE {ds \in [DOMAIN batch -> Whole] : \A k \in DOMAIN batch : ds[k] \in Linked(k)}

-----------------------------------------------------------------------------
SeedingInit ==
    /\ app = Blank
    /\ rows = <<>>
    /\ seeding = Waiting
    /\ editing = Blank
    /\ seedCalls = 0

\* A new row.  said, under, call and had are ghosts: what was written, the spec
\* it was read against, the call it came with, and the data it has had.
NewRow(entity, data, said, spec, call) ==
    [entity |-> entity, data |-> data, there |-> TRUE,
     said |-> said, under |-> spec, call |-> call, had |-> {data}]

Stored(spec, batch, ds) ==
    [k \in DOMAIN batch |-> NewRow(batch[k].entity, ds[k], batch[k].data, spec, seedCalls + 1)]

Store(spec, batch, ds) ==
    /\ Len(rows) + Len(batch) <= MaxStored
    /\ rows' = rows \o Stored(spec, batch, ds)
    /\ seedCalls' = seedCalls + 1

\* createFromSpec: the Space and its starting rows in one transaction.
CreateFromSpec(spec, batch) ==
    /\ app = Blank
    /\ validateAppSpec(spec)
    /\ \E ds \in prepareSeedRecords(spec, batch, 0, {}) : Store(spec, batch, ds)
    /\ app' = spec
    /\ UNCHANGED <<seeding, editing>>

ReplaceSpec(spec) ==
    /\ app # Blank
    /\ validateAppSpec(spec)
    /\ app' = spec
    /\ UNCHANGED <<rows, seeding, editing, seedCalls>>

\* The entities that references of the spec point at.
RefTargets(spec) ==
    UNION {{spec.entities[k].fields[l].refEntity : l \in
                {m \in DOMAIN spec.entities[k].fields : spec.entities[k].fields[m].type = "reference"}} :
           k \in DOMAIN spec.entities}

\* addRecords reads the Space.
AddRecords(batch) ==
    /\ seeding = Waiting
    /\ app # Blank
    /\ seeding' = [phase |-> "reading", spec |-> app, batch |-> batch, existing |-> {}]
    /\ UNCHANGED <<app, rows, editing, seedCalls>>

\* Then the rows that a reference of the spec it read may name.
ReadTargets ==
    /\ seeding.phase = "reading"
    /\ seeding' = [seeding EXCEPT !.phase = "adding", !.existing =
            {[id |-> i, entity |-> rows[i].entity, data |-> rows[i].data] :
                i \in {j \in DOMAIN rows : rows[j].there /\ rows[j].entity \in RefTargets(seeding.spec)}}]
    /\ UNCHANGED <<app, rows, editing, seedCalls>>

InsertSeeds ==
    /\ seeding.phase = "adding"
    /\ seeding.batch # <<>>
    /\ \E ds \in prepareSeedRecords(seeding.spec, seeding.batch, Len(rows), seeding.existing) :
          Store(seeding.spec, seeding.batch, ds)
    /\ seeding' = Waiting
    /\ UNCHANGED <<app, editing>>

\* The call ends in an error that lists what is wrong, and stores nothing.
RefuseSeeds ==
    /\ seeding.phase = "adding"
    /\ \/ seeding.batch = <<>>
       \/ prepareSeedRecords(seeding.spec, seeding.batch, Len(rows), seeding.existing) = {}
    /\ seeding' = Waiting
    /\ UNCHANGED <<app, rows, editing, seedCalls>>

\* A user's data: its references are ids already, which nothing looks up.
Enterable(row) ==
    /\ app # Blank
    /\ HasEntity(app, row.entity) /\ Acceptable(EntityOf(app, row.entity), row.data)
Entered(row) == Clean(EntityOf(app, row.entity), row.data)

TypeRecord(row) ==
    /\ Enterable(row)
    /\ Len(rows) < MaxStored
    /\ rows' = Append(rows, NewRow(row.entity, Entered(row), row.data, app, 0))
    /\ UNCHANGED <<app, seeding, editing, seedCalls>>

\* updateRecord finds the row and checks what is to replace its data.
EditRow(i, row) ==
    /\ editing = Blank
    /\ Enterable(row)
    /\ rows[i].there /\ rows[i].entity = row.entity
    /\ editing' = [id |-> i, data |-> Entered(row)]
    /\ UNCHANGED <<app, rows, seeding, seedCalls>>

\* The save, which inserts the row again when it was deleted meanwhile.
SaveEdit ==
    /\ editing # Blank
    /\ LET row == rows[editing.id]
       IN  rows' = [rows EXCEPT ![editing.id] =
               [row EXCEPT !.data = editing.data, !.there = TRUE, !.had = row.had \cup {editing.data}]]
    /\ editing' = Blank
    /\ UNCHANGED <<app, seeding, seedCalls>>

RemoveRecord(i) ==
    /\ rows[i].there /\ HasEntity(app, rows[i].entity)
    /\ rows' = [rows EXCEPT ![i].there = FALSE]
    /\ UNCHANGED <<app, seeding, editing, seedCalls>>

SeedingNext ==
    \/ \E spec \in AppSpecs : ReplaceSpec(spec) \/ \E batch \in SeedBatches : CreateFromSpec(spec, batch)
    \/ \E batch \in SeedBatches : AddRecords(batch)
    \/ ReadTargets \/ InsertSeeds \/ RefuseSeeds
    \/ \E row \in Typed : TypeRecord(row) \/ \E i \in DOMAIN rows : EditRow(i, row)
    \/ SaveEdit
    \/ \E i \in DOMAIN rows : RemoveRecord(i)

SeedingSpec == SeedingInit /\ [][SeedingNext]_seedingVars

-----------------------------------------------------------------------------
(* Properties.                                                             *)

SeedingTypeOK ==
    /\ app \in AppSpecs \cup {Blank}
    /\ Len(rows) <= MaxStored
    /\ \A i \in DOMAIN rows :
          /\ rows[i].there \in BOOLEAN /\ rows[i].data \in rows[i].had
          /\ rows[i].call \in 0 .. seedCalls
          /\ rows[i].had = {rows[i].data} =>
                DOMAIN rows[i].data \subseteq NamesIn(EntityOf(rows[i].under, rows[i].entity).fields)
    /\ seeding.phase \in {"waiting", "reading", "adding"}
    /\ \A e \in seeding.existing : e.id \in DOMAIN rows
    /\ editing # Blank => editing.id \in DOMAIN rows
    /\ seedCalls \in 0 .. MaxStored + 1

\* "A reference field is written as the name of the row it points at, either a
\* row in this batch or one already in the app, and is resolved to that row's
\* id" (prepareSeedRecords): what a seeded row points at, as long as nobody has
\* edited the row itself, is a row of the entity it refers to that bore the name
\* the model wrote, whoever renames, replaces or deletes it before or after it is
\* pointed at, and a row of its own call when the call wrote one of that name.
\* (Of the state right after the call this says that the name was borne by then.)
LinkedAsNamed ==
    \A i \in DOMAIN rows :
        LET row == rows[i]
            Fits(j, f, data) ==
                /\ rows[j].entity = FieldOf(EntityOf(row.under, row.entity), f).refEntity
                /\ LabelOf(row.under, [entity |-> rows[j].entity, data |-> data]) = row.said[f]
        IN  row.call > 0 /\ row.had = {row.data} =>
            \A f \in DOMAIN row.data : IsReference(row.under, row, f) =>
                /\ row.data[f] \in DOMAIN rows
                /\ \E data \in rows[row.data[f]].had : Fits(row.data[f], f, data)
                /\ rows[row.data[f]].call = row.call
                      \/ \A j \in DOMAIN rows : rows[j].call = row.call => ~Fits(j, f, rows[j].said)

=============================================================================
