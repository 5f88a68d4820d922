------------------------------- MODULE Memory -------------------------------
(***************************************************************************)
(* The durable facts of a workspace (memory/workspace-memory.service.ts):  *)
(* runs of the assistant remember and forget them under a key, several     *)
(* runs at a time, and every run starts with the newest ones that fit its  *)
(* prompt.  A statement is what a fact says and who said it.               *)
(***************************************************************************)
EXTENDS Naturals, FiniteSets, Functions

CONSTANTS
    FactKeys,
    Statements,
    Length,             \* of a statement's line, in the unit of the budget
    PROMPT_BUDGET,
    Rememberers,        \* runs served concurrently
    MaxWrites,          \* bound: writes to the table
    NoFact

ASSUME MemoryAssumption ==
    /\ IsFiniteSet(FactKeys) /\ Length \in [Statements -> Nat]
    /\ PROMPT_BUDGET \in Nat /\ MaxWrites \in Nat

VARIABLES
    facts,              \* the workspace_memory table
    writes,             \* the database's clock: the last time it gave a row
    remembering,        \* what each run has in memory
    told,               \* ghost: what the tools last answered about each key
    slipped              \* ghost: keys updated over a row other than the one
                        \*        the save had just read

memoryVars == <<facts, writes, remembering, told, slipped>>

Greatest(S) == CHOOSE t \in S : \A u \in S : u <= t

\* A row's id is the time of its first insertion.
Fact == [id : 1 .. MaxWrites, value : Statements, updatedAt : 1 .. MaxWrites]

ASSUME NoFactAssumption == NoFact \notin FactKeys \cup Statements \cup Fact

NotRemembering == [pc |-> "idle", key |-> NoFact, value |-> NoFact, existing |-> NoFact, loaded |-> NoFact]

MemoryTypeOK ==
    /\ facts \in [FactKeys -> Fact \cup {NoFact}]
    /\ writes \in 0 .. MaxWrites
    /\ remembering \in [Rememberers -> [pc : {"idle", "found", "loaded"}, key : FactKeys \cup {NoFact},
                                        value : Statements \cup {NoFact},
                                        existing : Fact \cup {NoFact}, loaded : Fact \cup {NoFact}]]
    /\ told \in [FactKeys -> Statements \cup {NoFact}]
    /\ slipped \subseteq FactKeys

MemoryInit ==
    /\ facts = [k \in FactKeys |-> NoFact]
    /\ writes = 0
    /\ remembering = [q \in Rememberers |-> NotRemembering]
    /\ told = [k \in FactKeys |-> NoFact]
    /\ slipped = {}

-----------------------------------------------------------------------------
(* remember, forget (runMemoryTool).                                       *)

Remember(q, k, v) ==
    /\ remembering[q].pc = "idle"
    /\ remembering' = [remembering EXCEPT ![q] = [pc |-> "found", key |-> k, value |-> v,
                                                  existing |-> facts[k], loaded |-> NoFact]]
    /\ UNCHANGED <<facts, writes, told, slipped>>

IsRow(row, id) == row # NoFact /\ row.id = id

\* The save of a row that was found reads it again, by its id.
LoadFact(q) ==
    LET w == remembering[q]
    IN  /\ w.pc = "found" /\ w.existing # NoFact
        /\ remembering' = [remembering EXCEPT ![q].pc = "loaded",
               ![q].loaded = IF IsRow(facts[w.key], w.existing.id) THEN facts[w.key] ELSE NoFact]
        /\ UNCHANGED <<facts, writes, told, slipped>>

Remembered(q, k, v) ==
    /\ remembering' = [remembering EXCEPT ![q] = NotRemembering]
    /\ told' = [told EXCEPT ![k] = v]

\* A new row, or the one that was found, inserted again as it was because it is
\* gone.  A key that has got a row since refuses a second one (unique workspace
\* and key): the tool answers with an error.
InsertFact(q) ==
    LET w == remembering[q]
        row == IF w.existing = NoFact THEN [id |-> writes + 1, value |-> w.value, updatedAt |-> writes + 1]
               ELSE [w.existing EXCEPT !.value = w.value]
    IN  /\ \/ w.pc = "found" /\ w.existing = NoFact
           \/ w.pc = "loaded" /\ w.loaded = NoFact
        /\ writes < MaxWrites
        /\ facts[w.key] = NoFact
        /\ facts' = [facts EXCEPT ![w.key] = row]
        /\ writes' = Greatest({writes, row.updatedAt})
        /\ Remembered(q, w.key, w.value)
        /\ UNCHANGED slipped

\* The columns in which what is saved differs from what was read; the time is one
\* of them when another save came between the two readings, else the database
\* gives a new one to a row that changes.
Columns(w, row) ==
    [id        |-> row.id,
     value     |-> IF w.value # w.loaded.value THEN w.value ELSE row.value,
     updatedAt |-> CASE w.existing.updatedAt # w.loaded.updatedAt -> w.existing.updatedAt
                     [] /\ w.existing.updatedAt = w.loaded.updatedAt
                        /\ w.value # w.loaded.value -> writes + 1
                     [] OTHER -> row.updatedAt]

\* By its id again: when the row is gone nothing is written, and the tool answers
\* as if it had been.
UpdateFact(q) ==
    LET w == remembering[q]
    IN  /\ w.pc = "loaded" /\ w.loaded # NoFact
        /\ writes < MaxWrites
        /\ facts' = [facts EXCEPT ![w.key] = IF IsRow(@, w.existing.id) THEN Columns(w, @) ELSE @]
        /\ writes' = IF facts'[w.key] = NoFact THEN writes ELSE Greatest({writes, facts'[w.key].updatedAt})
        /\ slipped' = IF facts[w.key] = w.loaded THEN slipped ELSE slipped \cup {w.key}
        /\ Remembered(q, w.key, w.value)

Forget(k) ==
    /\ facts' = [facts EXCEPT ![k] = NoFact]
    /\ told' = [told EXCEPT ![k] = NoFact]
    /\ UNCHANGED <<writes, remembering, slipped>>

\* The insert is refused, the database fails, or the process dies.
RememberFails(q) ==
    /\ remembering[q].pc # "idle"
    /\ remembering' = [remembering EXCEPT ![q] = NotRemembering]
    /\ UNCHANGED <<facts, writes, told, slipped>>

MemoryNext ==
    \/ \E q \in Rememberers :
        \/ \E k \in FactKeys, v \in Statements : Remember(q, k, v)
        \/ LoadFact(q) \/ InsertFact(q) \/ UpdateFact(q) \/ RememberFails(q)
    \/ \E k \in FactKeys : Forget(k)

MemorySpec == MemoryInit /\ [][MemoryNext]_memoryVars

-----------------------------------------------------------------------------
(* list, buildPromptBlock.                                                 *)

Facts == {k \in FactKeys : facts[k] # NoFact}

\* Fault: the oldest facts come first.
OldestFirst(k) == {l \in Facts : facts[l].updatedAt <= facts[k].updatedAt}

\* The facts listed up to and with k.
NewerThan(k) == {l \in Facts : facts[l].updatedAt >= facts[k].updatedAt}

Lines(keys) == SumFunction([k \in keys |-> Length[facts[k].value]])

\* The loop stops at the first line that does not fit, so a fact is in the
\* block when it fits together with all that come before it.
PromptBlock ==
    {k \in Facts : Lines(NewerThan(k)) <= PROMPT_BUDGET}

-----------------------------------------------------------------------------
(* Properties.                                                             *)

\* "When the user states a lasting fact ... save it", "update a fact by
\* re-saving its key; delete a retracted one" (the assistant's instructions):
\* the table says of each key what the tools last answered, through any number
\* of runs that remember and forget it at once, unless a save met a row other
\* than the one it had just read.
FactsAreKept ==
    \A k \in FactKeys \ slipped :
        IF told[k] = NoFact THEN facts[k] = NoFact
        ELSE facts[k] # NoFact /\ facts[k].value = told[k]

\* "Facts are included newest-first until the budget runs out"
\* (buildPromptBlock): the fact with the latest time is in the next prompt when
\* it fits at all, and the block never exceeds the budget.
NewestIsPrompted ==
    /\ Lines(PromptBlock) <= PROMPT_BUDGET
    /\ \A k \in Facts : facts[k].updatedAt = writes /\ Length[facts[k].value] <= PROMPT_BUDGET => k \in PromptBlock

=============================================================================
