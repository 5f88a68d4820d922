----------------------------- MODULE Assistant -----------------------------
(***************************************************************************)
(* One run of the assistant, from the credit gate to the answer            *)
(* (AiService.run of src/ai/ai.service.ts): the loop over the provider's   *)
(* answers, the tools it asks for, what a change to an ad account needs    *)
(* before it is made, the metering of the run and the low-balance nudge.   *)
(*                                                                         *)
(* The model of the provider is as free as the provider is: any answer may *)
(* come back from any call, an error too.  Runs of one conversation go on  *)
(* side by side and meet in Redis, at the key that throttles the nudge.    *)
(***************************************************************************)
EXTENDS Naturals, Sequences, FiniteSets

CONSTANTS
    AiRuns,       \* messages and tasks the assistant is asked to answer
    ConfirmVia,   \* per run, how its surface confirms changes
    ToolCalls,    \* calls the provider may ask for
    Changing,     \* those that change an ad account
    Confirmed,    \* those that carry confirmed=true
    Batches,      \* lists of calls one answer may hold
    MaxTurns,     \* provider calls the loop makes at most (6)
    MAX_TRUNCATED_RETRIES,
    MaxWindows,   \* bound: times the nudge's key expires
    NoCall

ASSUME ConfirmAssumption == ConfirmVia \in [AiRuns -> {"buttons", "inline"}]
ASSUME CallsAssumption ==
    Changing \subseteq ToolCalls /\ Confirmed \subseteq ToolCalls /\ NoCall \notin ToolCalls
ASSUME BatchesAssumption == Batches \subseteq Seq(ToolCalls) \ {<<>>}
ASSUME TurnsAssumption ==
    MaxTurns \in Nat \ {0} /\ MAX_TRUNCATED_RETRIES \in Nat /\ MaxWindows \in Nat

VARIABLES
    asked,      \* per run, its local variables
    changed,    \* per run, the changes its tools made to an ad account
    recorded,   \* per run, the tokens of the event saved for it
    claimed,    \* Redis: the nudge was shown in this conversation lately
    nudged,     \* runs whose answer carries the nudge
    billed,     \* ghost: per run, the answers the provider was paid for
    proposed,   \* ghost: per run, the first change handed to a tool
    missed,     \* ghost: runs whose metering failed, or that never got to it
    windows     \* ghost: times the key expired or could not be used

assistantVars == <<asked, changed, recorded, claimed, nudged, billed, proposed, missed, windows>>

Resting == [pc |-> "idle", turn |-> 0, cut |-> 0, todo |-> <<>>, connectors |-> FALSE,
            tokens |-> 0, pending |-> NoCall, said |-> FALSE, low |-> FALSE]

AssistantInit ==
    /\ asked = [r \in AiRuns |-> Resting]
    /\ changed = [r \in AiRuns |-> {}]
    /\ recorded = [r \in AiRuns |-> 0]
    /\ claimed = FALSE /\ nudged = {} /\ windows = 0
    /\ billed = [r \in AiRuns |-> 0]
    /\ proposed = [r \in AiRuns |-> NoCall]
    /\ missed = {}

RunIs(r, pc) == asked[r].pc = pc
NothingShared == UNCHANGED <<changed, recorded, claimed, nudged, proposed, missed, windows>>

----------------------------------------------------------------------------
(* The credit gate passed, the model resolves, the connected apps become
   servers or are none. *)
Start(r) ==
    /\ RunIs(r, "idle")
    /\ \E connectors, low \in BOOLEAN :
         asked' = [asked EXCEPT ![r] = [Resting EXCEPT !.pc = "asking", !.low = low,
                                                       !.connectors = connectors]]
    /\ NothingShared /\ UNCHANGED billed

(* Out of credits, or a model that cannot be used: an answer without a run. *)
Declines(r) ==
    /\ RunIs(r, "idle")
    /\ asked' = [asked EXCEPT ![r].pc = "over"]
    /\ NothingShared /\ UNCHANGED billed

(* The loop goes round, or has gone round often enough. *)
Continues(work) ==
    [work EXCEPT !.turn = @ + 1, !.todo = <<>>,
                !.pc = IF work.turn + 1 = MaxTurns THEN "answered" ELSE "asking"]

(* The accumulators.  Fault: they hold the last answer's tokens only. *)
TallyLast(work) == [work EXCEPT !.tokens = 1]
Tally(work) == [work EXCEPT !.tokens = @ + 1]

(* What run() does with an answer that ends the way `stop` says. *)
After(work, stop, calls) ==
    CASE stop = "tool_use" ->
            [work EXCEPT !.pc = "working", !.todo = calls]
      [] stop = "truncated" /\ work.cut + 1 > MAX_TRUNCATED_RETRIES ->
            [work EXCEPT !.pc = "answered", !.cut = @ + 1, !.said = TRUE]
      [] stop = "truncated" /\ work.cut + 1 <= MAX_TRUNCATED_RETRIES ->
            Continues([work EXCEPT !.cut = @ + 1])
      [] stop = "pause" -> Continues(work)
      [] OTHER -> [work EXCEPT !.pc = "answered"]

(* provider.create answers. *)
Respond(r) ==
    /\ RunIs(r, "asking")
    /\ \E stop \in {"tool_use", "truncated", "pause", "end"}, calls \in Batches, text \in BOOLEAN :
         asked' = [asked EXCEPT ![r] =
             After([Tally(asked[r]) EXCEPT !.said = @ \/ text], stop, calls)]
    /\ billed' = [billed EXCEPT ![r] = @ + 1]
    /\ NothingShared

(* A connector cannot be reached: the connectors are dropped and the request
   is sent again, once. *)
DropConnectors(r) ==
    /\ RunIs(r, "asking")
    /\ asked[r].connectors
    /\ asked' = [asked EXCEPT ![r].connectors = FALSE]
    /\ NothingShared /\ UNCHANGED billed

(* Any other error leaves run(), and so does the death of the process: what
   the run has spent so far is not metered. *)
Throw(r) ==
    /\ asked[r].pc \notin {"idle", "over", "lost"}
    /\ asked' = [asked EXCEPT ![r] = [Resting EXCEPT !.pc = "lost"]]
    /\ proposed' = [proposed EXCEPT ![r] = NoCall]
    /\ missed' = IF recorded[r] = 0 THEN missed \cup {r} ELSE missed
    /\ UNCHANGED <<changed, recorded, claimed, nudged, billed, windows>>

----------------------------------------------------------------------------
(* The tools, one call after the other. *)

(* What a call may do to an ad account.  In button mode a change is put
   before the user; inline it needs the model's word that the user agreed.
   Fault: the flag is not looked at. *)
MayChangeUnconfirmed(r, call) == ConfirmVia[r] = "inline" /\ call \in Changing
MayChange(r, call) == ConfirmVia[r] = "inline" /\ call \in Changing /\ call \in Confirmed

(* The change the buttons will be about.  Fault: the last one proposed. *)
CapturedLast(r, call) ==
    IF ConfirmVia[r] = "buttons" /\ call \in Changing THEN call ELSE asked[r].pending
Captured(r, call) ==
    IF ConfirmVia[r] = "buttons" /\ call \in Changing /\ asked[r].pending = NoCall
    THEN call ELSE asked[r].pending

\* Once the last call is answered the results go back to the provider.
Answered(work) ==
    IF Len(work.todo) = 1 THEN Continues(work) ELSE [work EXCEPT !.todo = Tail(@)]

(* runTool: every failure is a result too, so a call always gets one. *)
RunTool(r) ==
    /\ RunIs(r, "working")
    /\ LET call == Head(asked[r].todo)
       IN  /\ asked' = [asked EXCEPT ![r] = Answered([asked[r] EXCEPT !.pending = Captured(r, call)])]
           /\ \/ MayChange(r, call) /\ changed' = [changed EXCEPT ![r] = @ \cup {call}]
              \/ UNCHANGED changed
           /\ proposed' = IF call \in Changing /\ proposed[r] = NoCall
                          THEN [proposed EXCEPT ![r] = call] ELSE proposed
    /\ UNCHANGED <<recorded, claimed, nudged, billed, missed, windows>>

----------------------------------------------------------------------------
(* recordUsage: nothing without tokens, and a failure is only logged. *)
RecordUsage(r) ==
    /\ RunIs(r, "answered")
    /\ asked' = [asked EXCEPT ![r].pc = IF asked[r].low /\ asked[r].said THEN "nudging" ELSE "over"]
    /\ \/ recorded' = [recorded EXCEPT ![r] = asked[r].tokens] /\ UNCHANGED missed
       \/ UNCHANGED recorded /\ missed' = missed \cup {r}
    /\ UNCHANGED <<changed, claimed, nudged, billed, proposed, windows>>

(* SET ... NX answers OK.  Fault: without NX it always does. *)
ClaimsAlways == TRUE
Claims == ~claimed

Nudge(r) ==
    /\ RunIs(r, "nudging")
    /\ asked' = [asked EXCEPT ![r].pc = "over"]
    /\ claimed' = TRUE
    /\ nudged' = IF Claims THEN nudged \cup {r} ELSE nudged
    /\ UNCHANGED <<changed, recorded, billed, proposed, missed, windows>>

(* Redis cannot be reached: the nudge shows. *)
NudgeUnthrottled(r) ==
    /\ RunIs(r, "nudging")
    /\ windows < MaxWindows
    /\ asked' = [asked EXCEPT ![r].pc = "over"]
    /\ nudged' = nudged \cup {r}
    /\ windows' = windows + 1
    /\ UNCHANGED <<changed, recorded, claimed, billed, proposed, missed>>

(* LOW_BALANCE_NUDGE_TTL_SECONDS have passed. *)
NudgeExpires ==
    /\ claimed /\ windows < MaxWindows
    /\ claimed' = FALSE
    /\ windows' = windows + 1
    /\ UNCHANGED <<asked, changed, recorded, nudged, billed, proposed, missed>>

AssistantNext ==
    \/ \E r \in AiRuns :
        \/ Start(r) \/ Declines(r) \/ Respond(r) \/ DropConnectors(r) \/ Throw(r)
        \/ RunTool(r) \/ RecordUsage(r) \/ Nudge(r) \/ NudgeUnthrottled(r)
    \/ NudgeExpires

AssistantSpec == AssistantInit /\ [][AssistantNext]_assistantVars

----------------------------------------------------------------------------
RunPCs == {"idle", "asking", "working", "answered", "nudging", "over", "lost"}

AssistantTypeOK ==
    /\ \A r \in AiRuns :
        /\ asked[r].pc \in RunPCs
        /\ asked[r].turn \in 0..MaxTurns /\ asked[r].cut \in 0..(MAX_TRUNCATED_RETRIES + 1)
        /\ asked[r].pending \in Changing \cup {NoCall}
        /\ (asked[r].pc = "working") <=> (asked[r].todo # <<>>)
        /\ changed[r] \subseteq Changing
    /\ recorded \in [AiRuns -> 0..MaxTurns]
    /\ claimed \in BOOLEAN /\ nudged \subseteq AiRuns
    /\ missed \subseteq AiRuns /\ windows \in 0..MaxWindows

(* Where buttons ask the user, a run changes nothing itself, however many
   changes it proposes over its turns, and the one change its buttons are
   about is the first; elsewhere nothing is changed without confirmed=true
   and there are no buttons. *)
ChangesAreConsented ==
    \A r \in AiRuns :
        IF ConfirmVia[r] = "buttons"
        THEN changed[r] = {} /\ asked[r].pending = proposed[r]
        ELSE changed[r] \subseteq Confirmed /\ asked[r].pending = NoCall

(* A run that got to its answer is metered for every answer the provider
   gave it, over pauses, retries without connectors and truncated replies,
   unless the record could not be saved; no run is metered for more, and a
   run that was thrown out of the loop not at all. *)
RunsAreMetered ==
    \A r \in AiRuns :
        /\ recorded[r] \in {0, billed[r]}
        /\ asked[r].pc \in {"nudging", "over"} /\ r \notin missed => recorded[r] = billed[r]

(* A conversation hears of its low balance once per window, however many of
   its runs end together; a window is over when the key expires, and Redis
   being away counts as one. *)
NudgedOnce == Cardinality(nudged) <= 1 + windows

=============================================================================
