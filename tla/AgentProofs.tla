---------------------------- MODULE AgentProofs ----------------------------
(***************************************************************************)
(* What holds of what the agent does for a workspace, for any number of    *)
(* runs, tools, turns, facts, requests, grants, events and apps, and       *)
(* whatever the provider and its routers answer.                           *)
(*                                                                         *)
(* The assistant. That a run is metered for what the provider was paid is  *)
(* not inductive: it needs what the accumulators hold before the record is *)
(* made, and that nothing is recorded until then (Metering); that the      *)
(* nudge shows once a window, that the key counts as a nudge not shown yet *)
(* while it is free (NudgeBudget).                                         *)
(*                                                                         *)
(* Memory and limits. That facts are kept needs which row a save has read  *)
(* and when (RememberingInv); that the latest is in the prompt, that no    *)
(* two rows are of one time (TimesAreOwned); that a window admits LIMIT    *)
(* requests, that its counter counts those it served (WindowAddsUp).       *)
(*                                                                         *)
(* Figures. The planner's loop keeps what its iterations so far have taken *)
(* (LoopInv), so it ends where the ledger's step begins; the migration     *)
(* knows the balances it started from (MigrationInv); a report the instant *)
(* each of its answers is of (AnswersAreCurrent).                          *)
(*                                                                         *)
(* Apps and tools. A conversation's record is a list without repetitions   *)
(* for each app, so the union a turn writes back holds all it read         *)
(* (AttachedInv). Tools are dealt in rounds, so what any cap leaves of     *)
(* them is even (RoundsOK, EvenOK), and a free name is always found        *)
(* (ExposedIsFree).                                                        *)
(*                                                                         *)
(* The sum of MCAgent. A behaviour follows one part and the rest does not  *)
(* move, so it is a behaviour of each (PartsOfTheAgent).                   *)
(***************************************************************************)
EXTENDS MCAgent, CreditLedgerProofs, ApprovalsProofs, FiniteSetTheorems, SequenceTheorems, TLAPS

Work == [pc : RunPCs, turn : Nat, cut : Nat, todo : Seq(ToolCalls), connectors : BOOLEAN,
         tokens : Nat, pending : Changing \cup {NoCall}, said : BOOLEAN, low : BOOLEAN]

(* The local variables of a run.  The provider is called again only while
   there are turns left, and every call leaves its tokens behind. *)
IsWork(w) ==
    /\ w \in Work
    /\ w.turn <= MaxTurns /\ w.cut <= MAX_TRUNCATED_RETRIES + 1 /\ w.tokens <= MaxTurns
    /\ (w.pc = "working") <=> (w.todo # <<>>)
    /\ w.pc \in {"asking", "working"} => w.turn < MaxTurns /\ w.cut <= MAX_TRUNCATED_RETRIES
    /\ w.pc = "asking" => w.tokens = w.turn
    /\ w.pc = "working" => w.tokens = w.turn + 1

(* What a run was paid for, remembers and recorded. *)
Metering(w, paid, saved, unmetered) ==
    /\ w.pc = "idle" => paid = 0
    /\ w.pc \in {"idle", "asking", "working", "answered"} => w.tokens = paid /\ saved = 0
    /\ w.pc \in {"nudging", "over"} /\ ~unmetered => saved = paid
    /\ saved \in {0, paid}

(* Where the buttons' change comes from, and what was changed without them. *)
Consent(via, w, did, first) ==
    /\ did \subseteq Changing
    /\ via = "buttons" => did = {} /\ w.pending = first
    /\ via # "buttons" => did \subseteq Confirmed /\ w.pending = NoCall
    /\ w.pc = "idle" => first = NoCall /\ w.pending = NoCall

(* The key is a nudge not shown yet while it is free. *)
NudgeBudget ==
    /\ IsFiniteSet(nudged)
    /\ Cardinality(nudged) + (IF claimed THEN 0 ELSE 1) <= 1 + windows

SoundRun(r) ==
    /\ IsWork(asked[r]) /\ billed[r] \in Nat /\ recorded[r] \in 0..MaxTurns
    /\ Metering(asked[r], billed[r], recorded[r], r \in missed)
    /\ Consent(ConfirmVia[r], asked[r], changed[r], proposed[r])

PerRun ==
    /\ DOMAIN asked = AiRuns /\ DOMAIN changed = AiRuns /\ DOMAIN proposed = AiRuns
    /\ billed \in [AiRuns -> Nat] /\ recorded \in [AiRuns -> 0..MaxTurns]
    /\ missed \subseteq AiRuns

Shared ==
    /\ (claimed = TRUE \/ claimed = FALSE) /\ nudged \subseteq AiRuns
    /\ windows \in 0..MaxWindows

AssistantInv ==
    /\ PerRun
    /\ Shared
    /\ \A r \in AiRuns : SoundRun(r)
    /\ NudgeBudget

----------------------------------------------------------------------------
LEMMA RestingIsWork ==
    /\ IsWork(Resting)
    /\ Resting.pc = "idle" /\ Resting.tokens = 0 /\ Resting.pending = NoCall
    /\ Resting.turn = 0 /\ Resting.cut = 0 /\ Resting.todo = <<>>
BY TurnsAssumption DEF IsWork, Work, Resting, RunPCs

LEMMA InitAssistantInv == AssistantInit => AssistantInv
<1> SUFFICES ASSUME AssistantInit PROVE AssistantInv
    OBVIOUS
<1>1. ASSUME NEW r \in AiRuns PROVE SoundRun(r)
  <2>1. asked[r] = Resting /\ changed[r] = {} /\ recorded[r] = 0 /\ billed[r] = 0 /\ proposed[r] = NoCall
    BY DEF AssistantInit
  <2> QED  BY <2>1, RestingIsWork, TurnsAssumption DEF SoundRun, Metering, Consent
<1>2. PerRun /\ Shared
  BY TurnsAssumption DEF AssistantInit, PerRun, Shared
<1>3. NudgeBudget
  BY FS_EmptySet DEF NudgeBudget, AssistantInit
<1> QED  BY <1>1, <1>2, <1>3 DEF AssistantInv

(* A run between the answer it was given and what it does with it. *)
IsAnswered(w) ==
    /\ w \in Work
    /\ w.turn < MaxTurns /\ w.tokens = w.turn + 1 /\ w.cut <= MAX_TRUNCATED_RETRIES

(* What the loop goes round with, or ends with. *)
LEMMA ContinuesIsWork ==
    ASSUME NEW w, IsAnswered(w)
    PROVE  /\ IsWork(Continues(w)) /\ Continues(w).pc \in {"asking", "answered"}
           /\ Continues(w).tokens = w.tokens /\ Continues(w).pending = w.pending
<1> DEFINE c == Continues(w)
<1>1. /\ c \in Work /\ c.turn = w.turn + 1 /\ c.cut = w.cut /\ c.todo = <<>>
      /\ c.tokens = w.tokens /\ c.pending = w.pending
      /\ c.pc = IF w.turn + 1 = MaxTurns THEN "answered" ELSE "asking"
  <2> DEFINE next == IF w.turn + 1 = MaxTurns THEN "answered" ELSE "asking"
             none == <<>>
  <2>1. next \in RunPCs /\ none \in Seq(ToolCalls)
    BY DEF RunPCs
  <2>2. c = [w EXCEPT !.turn = @ + 1, !.todo = none, !.pc = next]
    BY DEF Continues
  <2> HIDE DEF c, next, none
  <2>3. /\ c \in Work /\ c.turn = w.turn + 1 /\ c.cut = w.cut /\ c.todo = none
        /\ c.tokens = w.tokens /\ c.pending = w.pending /\ c.pc = next
    BY <2>1, <2>2 DEF IsAnswered, Work
  <2> QED  BY <2>3 DEF next, none
<1> HIDE DEF c
<1>2. w.turn \in Nat /\ w.cut \in Nat
  BY DEF IsAnswered, Work
<1>3. IsWork(c) /\ c.pc \in {"asking", "answered"}
  BY <1>1, <1>2, TurnsAssumption DEF IsWork, IsAnswered
<1> QED  BY <1>1, <1>3 DEF c

(* What an answer leaves to be done. *)
LEMMA AfterIsWork ==
    ASSUME NEW w, IsAnswered(w), w.todo = <<>>,
           NEW stop \in {"tool_use", "truncated", "pause", "end"}, NEW calls \in Batches
    PROVE  /\ IsWork(After(w, stop, calls))
           /\ After(w, stop, calls).pc \in {"asking", "working", "answered"}
           /\ After(w, stop, calls).tokens = w.tokens /\ After(w, stop, calls).pending = w.pending
<1> DEFINE a == After(w, stop, calls)
<1>1. calls \in Seq(ToolCalls) /\ calls # <<>>
  BY BatchesAssumption
<1>2. w \in Work /\ w.turn \in Nat /\ w.cut \in Nat
  BY DEF IsAnswered, Work
<1>3. CASE stop = "tool_use"
  <2>1. /\ a \in Work /\ a.pc = "working" /\ a.todo = calls /\ a.turn = w.turn
        /\ a.cut = w.cut /\ a.tokens = w.tokens /\ a.pending = w.pending
    <3>1. a = [w EXCEPT !.pc = "working", !.todo = calls]
      BY <1>3 DEF After
    <3> HIDE DEF a
    <3> QED  BY <1>1, <1>2, <3>1 DEF Work, RunPCs
  <2> HIDE DEF a
  <2>2. IsWork(a)
    BY <1>1, <1>2, <2>1, TurnsAssumption DEF IsWork, IsAnswered
  <2> QED  BY <2>1, <2>2 DEF a
<1>4. CASE stop = "truncated" /\ w.cut + 1 > MAX_TRUNCATED_RETRIES
  <2>1. /\ a \in Work /\ a.pc = "answered" /\ a.todo = <<>> /\ a.turn = w.turn
        /\ a.cut = w.cut + 1 /\ a.tokens = w.tokens /\ a.pending = w.pending
    <3>1. a = [w EXCEPT !.pc = "answered", !.cut = @ + 1, !.said = TRUE]
      BY <1>2, <1>4, TurnsAssumption DEF After
    <3> HIDE DEF a
    <3> DEFINE more == w.cut + 1
               yes == TRUE
    <3>2. more \in Nat /\ yes \in BOOLEAN
      BY <1>2
    <3>3. a = [w EXCEPT !.pc = "answered", !.cut = more, !.said = yes]
      BY <3>1
    <3> HIDE DEF more, yes
    <3>4. /\ a \in Work /\ a.pc = "answered" /\ a.todo = w.todo /\ a.turn = w.turn
          /\ a.cut = more /\ a.tokens = w.tokens /\ a.pending = w.pending
      BY <1>2, <3>2, <3>3 DEF Work, RunPCs
    <3> QED  BY <3>4 DEF more
  <2> HIDE DEF a
  <2>2. IsWork(a)
    BY <1>2, <2>1, TurnsAssumption DEF IsWork, IsAnswered
  <2> QED  BY <2>1, <2>2 DEF a
<1>5. CASE stop = "truncated" /\ w.cut + 1 <= MAX_TRUNCATED_RETRIES
  <2> DEFINE again == [w EXCEPT !.cut = @ + 1]
  <2>1. a = Continues(again)
    BY <1>2, <1>5, TurnsAssumption DEF After
  <2>2. /\ again \in Work /\ again.turn = w.turn /\ again.cut = w.cut + 1
        /\ again.tokens = w.tokens /\ again.pending = w.pending
    BY <1>2 DEF Work
  <2> HIDE DEF again, a
  <2>3. IsAnswered(again)
    BY <1>2, <1>5, <2>2, TurnsAssumption DEF IsAnswered
  <2>4. IsWork(a) /\ a.pc \in {"asking", "answered"} /\ a.tokens = w.tokens
        /\ a.pending = w.pending
    BY <2>1, <2>2, <2>3, ContinuesIsWork
  <2> QED  BY <2>4 DEF a
<1>6. CASE stop = "pause"
  BY <1>6, ContinuesIsWork DEF After
<1>7. CASE stop = "end"
  <2>1. /\ a \in Work /\ a.pc = "answered" /\ a.todo = <<>> /\ a.turn = w.turn
        /\ a.cut = w.cut /\ a.tokens = w.tokens /\ a.pending = w.pending
    BY <1>2, <1>7 DEF After, Work, RunPCs
  <2> HIDE DEF a
  <2>2. IsWork(a)
    BY <1>2, <2>1, TurnsAssumption DEF IsWork, IsAnswered
  <2> QED  BY <2>1, <2>2 DEF a
<1> QED  BY <1>2, <1>3, <1>4, <1>5, <1>6, <1>7, TurnsAssumption

----------------------------------------------------------------------------
(* What a step of one run leaves alone. *)
OnlyRun(r) ==
    /\ PerRun'
    /\ \A q \in AiRuns : q # r =>
        /\ asked'[q] = asked[q] /\ changed'[q] = changed[q] /\ recorded'[q] = recorded[q]
        /\ billed'[q] = billed[q] /\ proposed'[q] = proposed[q]
        /\ (q \in missed') <=> (q \in missed)

LEMMA OneRunStep ==
    ASSUME AssistantInv, NEW r \in AiRuns, OnlyRun(r), SoundRun(r)', Shared', NudgeBudget'
    PROVE  AssistantInv'
<1>1. ASSUME NEW q \in AiRuns PROVE SoundRun(q)'
  <2>1. CASE q = r
    BY <2>1
  <2>2. CASE q # r
    BY <2>2 DEF AssistantInv, OnlyRun, SoundRun
  <2> QED  BY <2>1, <2>2
<1> QED  BY <1>1 DEF AssistantInv, OnlyRun

(* A run whose step changes nothing but its own variables and the bill. *)
LEMMA LocalStep ==
    ASSUME AssistantInv, NEW r \in AiRuns, NEW new, asked' = [asked EXCEPT ![r] = new],
           NothingShared, NEW paid \in Nat, billed' = [billed EXCEPT ![r] = paid],
           IsWork(new), new.pc # "idle", recorded[r] = 0, new.pending = proposed[r] \/ ConfirmVia[r] # "buttons",
           ConfirmVia[r] # "buttons" => new.pending = NoCall,
           Metering(new, paid, 0, r \in missed)
    PROVE  AssistantInv'
<1>1. /\ asked'[r] = new /\ billed'[r] = paid /\ recorded'[r] = 0
      /\ changed'[r] = changed[r] /\ proposed'[r] = proposed[r]
  BY DEF AssistantInv, PerRun, NothingShared
<1>2. SoundRun(r) /\ PerRun /\ Shared /\ NudgeBudget
  BY DEF AssistantInv
<1>3. SoundRun(r)'
  BY <1>1, <1>2, TurnsAssumption DEF SoundRun, Consent, Metering, NothingShared
<1>4. OnlyRun(r)
  BY <1>2 DEF OnlyRun, PerRun, NothingShared
<1>5. Shared' /\ NudgeBudget'
  BY <1>2 DEF Shared, NudgeBudget, NothingShared
<1> QED  BY <1>3, <1>4, <1>5, OneRunStep

LEMMA StartInv ==
    ASSUME AssistantInv, NEW r \in AiRuns, Start(r) \/ Declines(r)
    PROVE  AssistantInv'
<1>1. SoundRun(r) /\ billed \in [AiRuns -> Nat]
  BY DEF AssistantInv, PerRun
<1>2. asked[r].pc = "idle" /\ NothingShared /\ UNCHANGED billed
  BY DEF Start, Declines, RunIs
<1>3. /\ billed[r] = 0 /\ recorded[r] = 0 /\ asked[r].tokens = 0
      /\ proposed[r] = NoCall /\ asked[r].pending = NoCall
  BY <1>1, <1>2 DEF SoundRun, Metering, Consent
<1>4. billed' = [billed EXCEPT ![r] = 0]
  BY <1>1, <1>2, <1>3
<1>5. CASE Start(r)
  <2>1. PICK connectors \in BOOLEAN, low \in BOOLEAN :
          asked' = [asked EXCEPT ![r] = [Resting EXCEPT !.pc = "asking", !.low = low,
                                                       !.connectors = connectors]]
    BY <1>5 DEF Start
  <2> DEFINE new == [Resting EXCEPT !.pc = "asking", !.low = low, !.connectors = connectors]
  <2>2. /\ new \in Work /\ new.pc = "asking" /\ new.turn = 0 /\ new.cut = 0
        /\ new.todo = <<>> /\ new.tokens = 0 /\ new.pending = NoCall
    <3>1. Resting \in Work
      BY RestingIsWork DEF IsWork
    <3>2. /\ new \in Work /\ new.pc = "asking" /\ new.turn = Resting.turn
          /\ new.cut = Resting.cut /\ new.todo = Resting.todo
          /\ new.tokens = Resting.tokens /\ new.pending = Resting.pending
      BY <3>1 DEF Work, RunPCs
    <3> QED  BY <3>2, RestingIsWork
  <2>3. asked' = [asked EXCEPT ![r] = new]
    BY <2>1
  <2> HIDE DEF new
  <2>4. IsWork(new) /\ Metering(new, 0, 0, r \in missed)
    BY <2>2, TurnsAssumption DEF IsWork, Metering
  <2> QED  BY <1>2, <1>3, <1>4, <2>2, <2>3, <2>4, LocalStep, ZenonT(60)
<1>6. CASE Declines(r)
  <2> DEFINE new == [asked[r] EXCEPT !.pc = "over"]
  <2>1. /\ new \in Work /\ new.pc = "over" /\ new.turn = asked[r].turn /\ new.cut = asked[r].cut
        /\ new.todo = asked[r].todo /\ new.tokens = 0 /\ new.pending = NoCall
    BY <1>1, <1>3 DEF SoundRun, IsWork, Work, RunPCs
  <2>2. asked' = [asked EXCEPT ![r] = new]
    BY <1>6 DEF Declines
  <2> HIDE DEF new
  <2>3. IsWork(new) /\ Metering(new, 0, 0, r \in missed)
    BY <1>1, <1>2, <2>1, TurnsAssumption DEF IsWork, Metering, SoundRun
  <2> QED  BY <1>2, <1>3, <1>4, <2>1, <2>2, <2>3, LocalStep, ZenonT(60)
<1> QED  BY <1>5, <1>6

LEMMA RespondInv ==
    ASSUME AssistantInv, NEW r \in AiRuns, Respond(r)
    PROVE  AssistantInv'
<1>1. SoundRun(r) /\ asked[r].pc = "asking" /\ NothingShared
  BY DEF AssistantInv, Respond, RunIs
<1>2. PICK stop \in {"tool_use", "truncated", "pause", "end"}, calls \in Batches, text \in BOOLEAN :
        asked' = [asked EXCEPT ![r] =
            After([Tally(asked[r]) EXCEPT !.said = @ \/ text], stop, calls)]
  BY DEF Respond
<1> DEFINE said == asked[r].said \/ text
           heard == [Tally(asked[r]) EXCEPT !.said = said]
           new == After(heard, stop, calls)
           paid == billed[r] + 1
<1>3. /\ asked[r] \in Work /\ asked[r].todo = <<>> /\ asked[r].turn < MaxTurns
      /\ asked[r].cut <= MAX_TRUNCATED_RETRIES /\ asked[r].tokens = asked[r].turn
      /\ asked[r].tokens = billed[r] /\ recorded[r] = 0 /\ billed[r] \in Nat
  BY <1>1 DEF SoundRun, IsWork, Metering
<1>4. asked' = [asked EXCEPT ![r] = new] /\ billed' = [billed EXCEPT ![r] = paid]
  BY <1>2, ZenonT(60) DEF Respond, Tally
<1>5. /\ heard \in Work /\ heard.todo = <<>> /\ heard.turn = asked[r].turn
      /\ heard.cut = asked[r].cut /\ heard.tokens = asked[r].tokens + 1
      /\ heard.pending = asked[r].pending
  <2> DEFINE more == asked[r].tokens + 1
  <2>1. said \in BOOLEAN /\ more \in Nat
    BY <1>3
  <2>2. heard = [[asked[r] EXCEPT !.tokens = more] EXCEPT !.said = said]
    BY DEF Tally
  <2> HIDE DEF said, more, heard
  <2>3. /\ heard \in Work /\ heard.todo = asked[r].todo /\ heard.turn = asked[r].turn
        /\ heard.cut = asked[r].cut /\ heard.tokens = more
        /\ heard.pending = asked[r].pending
    BY <1>3, <2>1, <2>2 DEF Work
  <2> QED  BY <1>3, <2>3 DEF more
<1> HIDE DEF said, heard
<1>6. IsAnswered(heard)
  BY <1>3, <1>5 DEF IsAnswered
<1>7. /\ IsWork(new) /\ new.pc \in {"asking", "working", "answered"}
      /\ new.tokens = heard.tokens /\ new.pending = heard.pending
  BY <1>5, <1>6, AfterIsWork
<1>8. new.tokens = paid /\ new.pending = asked[r].pending /\ paid \in Nat
  BY <1>3, <1>5, <1>7
<1> HIDE DEF new, paid
<1>9. Metering(new, paid, 0, r \in missed)
  BY <1>7, <1>8 DEF Metering
<1>10. /\ new.pending = proposed[r] \/ ConfirmVia[r] # "buttons"
       /\ ConfirmVia[r] # "buttons" => new.pending = NoCall
  BY <1>1, <1>8 DEF SoundRun, Consent
<1> QED  BY <1>1, <1>3, <1>4, <1>7, <1>8, <1>9, <1>10, LocalStep

LEMMA DropConnectorsInv ==
    ASSUME AssistantInv, NEW r \in AiRuns, DropConnectors(r)
    PROVE  AssistantInv'
<1> DEFINE no == FALSE
           new == [asked[r] EXCEPT !.connectors = no]
<1>1. SoundRun(r) /\ asked[r].pc = "asking" /\ billed \in [AiRuns -> Nat]
  BY DEF AssistantInv, PerRun, DropConnectors, RunIs
<1>2. /\ asked' = [asked EXCEPT ![r] = new] /\ NothingShared
      /\ billed' = [billed EXCEPT ![r] = billed[r]]
  BY <1>1 DEF DropConnectors
<1>3. no \in BOOLEAN
  OBVIOUS
<1> HIDE DEF no
<1>4. /\ new \in Work /\ new.pc = "asking" /\ new.turn = asked[r].turn /\ new.cut = asked[r].cut
      /\ new.todo = asked[r].todo /\ new.tokens = asked[r].tokens
      /\ new.pending = asked[r].pending
  BY <1>1, <1>3 DEF SoundRun, IsWork, Work
<1> HIDE DEF new
<1>5. IsWork(new) /\ recorded[r] = 0 /\ billed[r] \in Nat
      /\ Metering(new, billed[r], 0, r \in missed)
  BY <1>1, <1>4 DEF SoundRun, IsWork, Metering
<1>6. /\ new.pending = proposed[r] \/ ConfirmVia[r] # "buttons"
      /\ ConfirmVia[r] # "buttons" => new.pending = NoCall
  BY <1>1, <1>4 DEF SoundRun, Consent
<1> QED  BY <1>2, <1>4, <1>5, <1>6, LocalStep

(* A run that is thrown out of the loop keeps what it saved, if anything. *)
LEMMA ThrowInv ==
    ASSUME AssistantInv, NEW r \in AiRuns, Throw(r)
    PROVE  AssistantInv'
<1> DEFINE new == [Resting EXCEPT !.pc = "lost"]
<1>1. SoundRun(r) /\ PerRun /\ Shared /\ NudgeBudget
  BY DEF AssistantInv
<1>2. /\ asked' = [asked EXCEPT ![r] = new] /\ proposed' = [proposed EXCEPT ![r] = NoCall]
      /\ missed' = IF recorded[r] = 0 THEN missed \cup {r} ELSE missed
      /\ UNCHANGED <<changed, recorded, claimed, nudged, billed, windows>>
  BY DEF Throw
<1>3. /\ IsWork(new) /\ new.pc = "lost" /\ new.pending = NoCall
  <2>1. Resting \in Work
    BY RestingIsWork DEF IsWork
  <2>2. /\ new \in Work /\ new.pc = "lost" /\ new.turn = Resting.turn
        /\ new.cut = Resting.cut /\ new.todo = Resting.todo
        /\ new.tokens = Resting.tokens /\ new.pending = Resting.pending
    BY <2>1 DEF Work, RunPCs
  <2> HIDE DEF new
  <2> QED  BY <2>2, RestingIsWork, TurnsAssumption DEF IsWork
<1> HIDE DEF new
<1>4. asked'[r] = new /\ proposed'[r] = NoCall
  BY <1>1, <1>2 DEF PerRun
<1>5. SoundRun(r)'
  BY <1>1, <1>2, <1>3, <1>4 DEF SoundRun, Consent, Metering
<1>6. OnlyRun(r)
  BY <1>1, <1>2 DEF OnlyRun, PerRun
<1>7. Shared' /\ NudgeBudget'
  BY <1>1, <1>2 DEF Shared, NudgeBudget
<1> QED  BY <1>5, <1>6, <1>7, OneRunStep

(* What is left to do once a call is answered. *)
LEMMA AnsweredIsWork ==
    ASSUME NEW w, IsWork(w), w.pc = "working"
    PROVE  /\ IsWork(Answered(w)) /\ Answered(w).pc \in {"asking", "working", "answered"}
           /\ Answered(w).tokens = w.tokens /\ Answered(w).pending = w.pending
<1>1. /\ w \in Work /\ w.todo \in Seq(ToolCalls) /\ w.todo # <<>> /\ IsAnswered(w)
  BY DEF IsWork, IsAnswered, Work
<1>2. CASE Len(w.todo) = 1
  <2>1. Answered(w) = Continues(w)
    BY <1>2 DEF Answered
  <2> QED  BY <1>1, <2>1, ContinuesIsWork
<1>3. CASE Len(w.todo) # 1
  <2> DEFINE rest == Tail(w.todo)
             new == [w EXCEPT !.todo = rest]
  <2>1. rest \in Seq(ToolCalls) /\ rest # <<>>
    <3> HIDE DEF rest
    <3>1. rest \in Seq(ToolCalls) /\ Len(rest) = Len(w.todo) - 1 /\ Len(w.todo) \in Nat
      BY <1>1 DEF rest
    <3>2. Len(w.todo) # 0
      BY <1>1
    <3>3. Len(rest) # 0
      BY <1>3, <3>1, <3>2
    <3>4. Len(<<>>) = 0
      OBVIOUS
    <3>5. rest # <<>>
      <4> SUFFICES ASSUME rest = <<>> PROVE FALSE
        OBVIOUS
      <4> QED  BY <3>3, <3>4
    <3> QED  BY <3>1, <3>5
  <2>2. Answered(w) = new
    BY <1>3 DEF Answered
  <2> HIDE DEF rest
  <2>3. /\ new \in Work /\ new.pc = w.pc /\ new.turn = w.turn /\ new.cut = w.cut
        /\ new.todo = rest /\ new.tokens = w.tokens /\ new.pending = w.pending
    BY <1>1, <2>1 DEF Work
  <2> HIDE DEF new
  <2>4. IsWork(new)
    BY <2>1, <2>3 DEF IsWork
  <2> QED  BY <2>2, <2>3, <2>4
<1> QED  BY <1>2, <1>3

LEMMA RunToolInv ==
    ASSUME AssistantInv, NEW r \in AiRuns, RunTool(r)
    PROVE  AssistantInv'
<1> DEFINE call == Head(asked[r].todo)
           kept == Captured(r, call)
           held == [asked[r] EXCEPT !.pending = kept]
           new == Answered(held)
<1>1. SoundRun(r) /\ PerRun /\ Shared /\ NudgeBudget /\ asked[r].pc = "working"
  BY DEF AssistantInv, RunTool, RunIs
<1>2. /\ asked[r] \in Work /\ asked[r].todo \in Seq(ToolCalls) /\ asked[r].todo # <<>>
      /\ asked[r].tokens = billed[r] /\ recorded[r] = 0 /\ billed[r] \in Nat
      /\ asked[r].pending \in Changing \cup {NoCall}
  BY <1>1 DEF SoundRun, IsWork, Metering, Work
<1>3. call \in ToolCalls /\ call # NoCall /\ ConfirmVia[r] \in {"buttons", "inline"}
  <2>1. call \in ToolCalls
    BY <1>2
  <2> QED  BY <2>1, CallsAssumption, ConfirmAssumption
<1>4. /\ asked' = [asked EXCEPT ![r] = new]
      /\ \/ MayChange(r, call) /\ changed' = [changed EXCEPT ![r] = @ \cup {call}]
         \/ UNCHANGED changed
      /\ proposed' = IF call \in Changing /\ proposed[r] = NoCall
                     THEN [proposed EXCEPT ![r] = call] ELSE proposed
      /\ UNCHANGED <<recorded, claimed, nudged, billed, missed, windows>>
  BY DEF RunTool
<1>5. kept = IF ConfirmVia[r] = "buttons" /\ call \in Changing /\ asked[r].pending = NoCall
             THEN call ELSE asked[r].pending
  BY DEF Captured
<1> HIDE DEF call, kept
<1>6. kept \in Changing \cup {NoCall}
  BY <1>2, <1>5
<1>7. /\ held \in Work /\ held.pc = asked[r].pc /\ held.turn = asked[r].turn
      /\ held.cut = asked[r].cut /\ held.todo = asked[r].todo
      /\ held.tokens = asked[r].tokens /\ held.pending = kept
  BY <1>2, <1>6 DEF Work
<1> HIDE DEF held
<1>8. IsWork(held) /\ held.pc = "working"
  BY <1>1, <1>7 DEF SoundRun, IsWork
<1>9. /\ IsWork(new) /\ new.pc \in {"asking", "working", "answered"}
      /\ new.tokens = billed[r] /\ new.pending = kept
  BY <1>2, <1>7, <1>8, AnsweredIsWork
<1> HIDE DEF new
<1>10. /\ asked'[r] = new
       /\ changed'[r] = changed[r] \/ (MayChange(r, call) /\ changed'[r] = changed[r] \cup {call})
       /\ proposed'[r] = IF call \in Changing /\ proposed[r] = NoCall THEN call ELSE proposed[r]
  BY <1>1, <1>4 DEF PerRun
<1>11. Consent(ConfirmVia[r], new, changed'[r], proposed'[r])
  BY <1>1, <1>3, <1>5, <1>9, <1>10 DEF SoundRun, Consent, MayChange
<1>12. Metering(new, billed[r], 0, r \in missed)
  BY <1>9 DEF Metering
<1>13. SoundRun(r)'
  BY <1>2, <1>4, <1>9, <1>10, <1>11, <1>12, TurnsAssumption DEF SoundRun
<1>14. OnlyRun(r)
  BY <1>1, <1>4 DEF OnlyRun, PerRun
<1>15. Shared' /\ NudgeBudget'
  BY <1>1, <1>4 DEF Shared, NudgeBudget
<1> QED  BY <1>13, <1>14, <1>15, OneRunStep

LEMMA RecordUsageInv ==
    ASSUME AssistantInv, NEW r \in AiRuns, RecordUsage(r)
    PROVE  AssistantInv'
<1> DEFINE pc == IF asked[r].low /\ asked[r].said THEN "nudging" ELSE "over"
           new == [asked[r] EXCEPT !.pc = pc]
<1>1. SoundRun(r) /\ PerRun /\ Shared /\ NudgeBudget /\ asked[r].pc = "answered"
  BY DEF AssistantInv, RecordUsage, RunIs
<1>2. /\ asked' = [asked EXCEPT ![r] = new]
      /\ \/ recorded' = [recorded EXCEPT ![r] = asked[r].tokens] /\ UNCHANGED missed
         \/ UNCHANGED recorded /\ missed' = missed \cup {r}
      /\ UNCHANGED <<changed, claimed, nudged, billed, proposed, windows>>
  BY DEF RecordUsage
<1>3. pc \in {"nudging", "over"}
  OBVIOUS
<1> HIDE DEF pc
<1>4. /\ new \in Work /\ new.pc = pc /\ new.turn = asked[r].turn /\ new.cut = asked[r].cut
      /\ new.todo = asked[r].todo /\ new.tokens = asked[r].tokens
      /\ new.pending = asked[r].pending
  BY <1>1, <1>3 DEF SoundRun, IsWork, Work, RunPCs
<1> HIDE DEF new
<1>5. IsWork(new)
  BY <1>1, <1>3, <1>4 DEF SoundRun, IsWork
<1>6. asked[r].tokens \in 0..MaxTurns /\ asked[r].tokens = billed[r] /\ recorded[r] = 0
  BY <1>1, TurnsAssumption DEF SoundRun, IsWork, Metering, Work
<1>7. \/ recorded'[r] = billed[r] /\ recorded' \in [AiRuns -> 0..MaxTurns] /\ missed' = missed
      \/ recorded' = recorded /\ missed' = missed \cup {r}
  BY <1>1, <1>2, <1>6 DEF PerRun
<1>8. asked'[r] = new /\ changed'[r] = changed[r] /\ proposed'[r] = proposed[r] /\ billed' = billed
  BY <1>1, <1>2 DEF PerRun
<1>9. Metering(new, billed[r], recorded'[r], r \in missed')
  BY <1>3, <1>4, <1>6, <1>7 DEF Metering
<1>10. Consent(ConfirmVia[r], new, changed[r], proposed[r])
  BY <1>1, <1>3, <1>4 DEF SoundRun, Consent
<1>11. SoundRun(r)'
  BY <1>1, <1>5, <1>6, <1>7, <1>8, <1>9, <1>10, TurnsAssumption DEF SoundRun
<1>12. OnlyRun(r)
  BY <1>1, <1>2, <1>7 DEF OnlyRun, PerRun
<1>13. Shared' /\ NudgeBudget'
  BY <1>1, <1>2 DEF Shared, NudgeBudget
<1> QED  BY <1>11, <1>12, <1>13, OneRunStep

(* The nudge, shown by the run that got the key or by one that could not ask. *)
LEMMA NudgeInv ==
    ASSUME AssistantInv, NEW r \in AiRuns, Nudge(r) \/ NudgeUnthrottled(r)
    PROVE  AssistantInv'
<1> DEFINE new == [asked[r] EXCEPT !.pc = "over"]
<1>1. /\ SoundRun(r) /\ PerRun /\ Shared /\ NudgeBudget /\ asked[r].pc = "nudging"
  BY DEF AssistantInv, Nudge, NudgeUnthrottled, RunIs
<1>2. /\ asked' = [asked EXCEPT ![r] = new]
      /\ UNCHANGED <<changed, recorded, billed, proposed, missed>>
  BY DEF Nudge, NudgeUnthrottled
<1>3. /\ new \in Work /\ new.pc = "over" /\ new.turn = asked[r].turn /\ new.cut = asked[r].cut
      /\ new.todo = asked[r].todo /\ new.tokens = asked[r].tokens
      /\ new.pending = asked[r].pending
  BY <1>1 DEF SoundRun, IsWork, Work, RunPCs
<1> HIDE DEF new
<1>4. IsWork(new)
  BY <1>1, <1>3 DEF SoundRun, IsWork
<1>5. /\ asked'[r] = new /\ changed' = changed /\ recorded' = recorded /\ billed' = billed
      /\ proposed' = proposed /\ missed' = missed
  BY <1>1, <1>2 DEF PerRun
<1>6. SoundRun(r)'
  BY <1>1, <1>3, <1>4, <1>5 DEF SoundRun, Metering, Consent
<1>7. OnlyRun(r)
  BY <1>1, <1>2 DEF OnlyRun, PerRun
<1>8. /\ IsFiniteSet(nudged \cup {r})
      /\ Cardinality(nudged) \in Nat /\ Cardinality(nudged \cup {r}) \in Nat
      /\ Cardinality(nudged \cup {r}) <= Cardinality(nudged) + 1
  <2>1. IsFiniteSet(nudged)
    BY <1>1 DEF NudgeBudget
  <2>2. /\ IsFiniteSet(nudged \cup {r})
        /\ Cardinality(nudged \cup {r}) = IF r \in nudged THEN Cardinality(nudged)
                                          ELSE Cardinality(nudged) + 1
    BY <2>1, FS_AddElement
  <2>3. Cardinality(nudged) \in Nat /\ Cardinality(nudged \cup {r}) \in Nat
    BY <2>1, <2>2, FS_CardinalityType
  <2> QED  BY <2>2, <2>3
<1>9. windows \in Nat /\ MaxWindows \in Nat
  BY <1>1, TurnsAssumption DEF Shared
<1>10. Shared' /\ NudgeBudget'
  <2>1. CASE Nudge(r)
    BY <1>1, <1>8, <1>9, <2>1 DEF Nudge, Claims, Shared, NudgeBudget
  <2>2. CASE NudgeUnthrottled(r)
    BY <1>1, <1>8, <1>9, <2>2 DEF NudgeUnthrottled, Shared, NudgeBudget
  <2> QED  BY <2>1, <2>2
<1> QED  BY <1>6, <1>7, <1>10, OneRunStep

LEMMA NudgeExpiresInv ==
    ASSUME AssistantInv, NudgeExpires
    PROVE  AssistantInv'
<1>1. PerRun /\ Shared /\ NudgeBudget /\ \A r \in AiRuns : SoundRun(r)
  BY DEF AssistantInv
<1>2. PerRun' /\ \A r \in AiRuns : SoundRun(r)'
  BY <1>1 DEF NudgeExpires, PerRun, SoundRun
<1>3. windows \in Nat /\ MaxWindows \in Nat /\ Cardinality(nudged) \in Nat
  BY <1>1, TurnsAssumption, FS_CardinalityType DEF Shared, NudgeBudget
<1>4. Shared' /\ NudgeBudget'
  BY <1>1, <1>3 DEF NudgeExpires, Shared, NudgeBudget
<1> QED  BY <1>2, <1>4 DEF AssistantInv

LEMMA NextAssistantInv == AssistantInv /\ [AssistantNext]_assistantVars => AssistantInv'
<1> SUFFICES ASSUME AssistantInv, [AssistantNext]_assistantVars PROVE AssistantInv'
    OBVIOUS
<1>1. CASE UNCHANGED assistantVars
  BY <1>1 DEF assistantVars, AssistantInv, PerRun, Shared, SoundRun, NudgeBudget
<1>2. CASE NudgeExpires
  BY <1>2, NudgeExpiresInv
<1>3. ASSUME NEW r \in AiRuns,
             \/ Start(r) \/ Declines(r) \/ Respond(r) \/ DropConnectors(r) \/ Throw(r)
             \/ RunTool(r) \/ RecordUsage(r) \/ Nudge(r) \/ NudgeUnthrottled(r)
      PROVE  AssistantInv'
  BY <1>3, StartInv, RespondInv, DropConnectorsInv, ThrowInv, RunToolInv, RecordUsageInv, NudgeInv
<1> QED  BY <1>1, <1>2, <1>3 DEF AssistantNext

(* The inductive invariant of a run of the assistant. *)
THEOREM AssistantInvariant == AssistantSpec => []AssistantInv
<1>1. AssistantInit => AssistantInv
  BY InitAssistantInv
<1>2. AssistantInv /\ [AssistantNext]_assistantVars => AssistantInv'
  BY NextAssistantInv
<1> QED  BY <1>1, <1>2, PTL DEF AssistantSpec

(* Every run is at a known step, within its turns and retries, with calls left
   exactly while it works through them. *)
THEOREM AssistantTypes == AssistantSpec => []AssistantTypeOK
<1>1. AssistantInv => AssistantTypeOK
  <2> SUFFICES ASSUME AssistantInv PROVE AssistantTypeOK
      OBVIOUS
  <2>1. PerRun /\ Shared /\ \A r \in AiRuns : SoundRun(r)
    BY DEF AssistantInv
  <2>2. ASSUME NEW r \in AiRuns
        PROVE  /\ asked[r].pc \in RunPCs
               /\ asked[r].turn \in 0..MaxTurns
               /\ asked[r].cut \in 0..(MAX_TRUNCATED_RETRIES + 1)
               /\ asked[r].pending \in Changing \cup {NoCall}
               /\ (asked[r].pc = "working") <=> (asked[r].todo # <<>>)
               /\ changed[r] \subseteq Changing
    BY <2>1, TurnsAssumption DEF SoundRun, IsWork, Work, Consent
  <2>3. claimed \in BOOLEAN
    BY <2>1 DEF Shared
  <2> QED  BY <2>1, <2>2, <2>3 DEF AssistantTypeOK, PerRun, Shared
<1> QED  BY <1>1, AssistantInvariant, PTL

(* For any answers of the provider: where buttons ask the user a run changes
   nothing itself and the buttons are about the first change it proposed;
   inline nothing is changed without confirmed=true (run, runTool, the write
   tools of Meta ads). *)
THEOREM ConsentComesFirst == AssistantSpec => []ChangesAreConsented
<1>1. AssistantInv => ChangesAreConsented
  BY ConfirmAssumption DEF AssistantInv, SoundRun, Consent, ChangesAreConsented
<1> QED  BY <1>1, AssistantInvariant, PTL

(* For any pauses, retries and truncated answers: a run that got to its answer is
   metered for all it was billed, unless the save failed, and never for more
   (run, recordUsage). *)
THEOREM MeteredForAll == AssistantSpec => []RunsAreMetered
<1>1. AssistantInv => RunsAreMetered
  BY DEF AssistantInv, SoundRun, Metering, RunsAreMetered
<1> QED  BY <1>1, AssistantInvariant, PTL

(* For any number of runs that end together: one nudge a window (SET NX). *)
THEOREM OneNudgeAWindow == AssistantSpec => []NudgedOnce
<1>1. AssistantInv => NudgedOnce
  <2> SUFFICES ASSUME AssistantInv PROVE NudgedOnce
      OBVIOUS
  <2>1. windows \in Nat /\ Cardinality(nudged) \in Nat
    BY FS_CardinalityType DEF AssistantInv, Shared, NudgeBudget
  <2> QED  BY <2>1 DEF AssistantInv, NudgeBudget, NudgedOnce
<1> QED  BY <1>1, AssistantInvariant, PTL

-----------------------------------------------------------------------------
(* The memory of a workspace.  A save leaves the value it was given in the    *)
(* row whatever was there when it was found: an insert writes it, and so does *)
(* an update, unless it is what the save has just read.  So the table says    *)
(* what was answered, if the row was still what the save had read.            *)

RememberingInv ==
    \A q \in Rememberers :
        LET w == remembering[q]
        IN  /\ w.pc # "idle" => w.key \in FactKeys /\ w.value \in Statements
            /\ w.pc = "loaded" => w.existing \in Fact
            /\ w.pc = "loaded" /\ w.loaded # NoFact => w.loaded.id = w.existing.id

MemoryInv == MemoryTypeOK /\ RememberingInv /\ FactsAreKept

LEMMA GreatestOfTwo ==
    ASSUME NEW a \in Nat, NEW b \in Nat
    PROVE  Greatest({a, b}) \in {a, b}
<1>1. \E t \in {a, b} : \A u \in {a, b} : u <= t
  OBVIOUS
<1> QED  BY <1>1 DEF Greatest

LEMMA MemoryStep == MemoryInv /\ [MemoryNext]_memoryVars => MemoryInv'
<1> SUFFICES ASSUME MemoryInv, [MemoryNext]_memoryVars  PROVE MemoryInv'
  OBVIOUS
<1> USE NoFactAssumption
<1> DEFINE InMemory == [pc : {"idle", "found", "loaded"}, key : FactKeys \cup {NoFact},
                       value : Statements \cup {NoFact},
                       existing : Fact \cup {NoFact}, loaded : Fact \cup {NoFact}]
<1>0. /\ remembering \in [Rememberers -> InMemory] /\ facts \in [FactKeys -> Fact \cup {NoFact}]
      /\ told \in [FactKeys -> Statements \cup {NoFact}] /\ slipped \subseteq FactKeys
      /\ writes \in 0 .. MaxWrites /\ MaxWrites \in Nat
      /\ NotRemembering \in InMemory /\ NotRemembering.pc = "idle"
  BY MemoryAssumption DEF MemoryInv, MemoryTypeOK, NotRemembering
<1>1. CASE UNCHANGED memoryVars
  BY <1>1 DEF memoryVars, MemoryInv, MemoryTypeOK, RememberingInv, FactsAreKept
<1>2. ASSUME NEW q \in Rememberers, NEW k \in FactKeys, NEW v \in Statements, Remember(q, k, v)
      PROVE  MemoryInv'
  <2> DEFINE next == [pc |-> "found", key |-> k, value |-> v, existing |-> facts[k], loaded |-> NoFact]
  <2>1. remembering' = [remembering EXCEPT ![q] = next] /\ UNCHANGED <<facts, writes, told, slipped>>
    BY <1>2 DEF Remember
  <2>2. next \in InMemory /\ next.pc = "found" /\ next.key = k /\ next.value = v
    BY <1>0
  <2> HIDE DEF next
  <2> QED  BY <1>0, <2>1, <2>2 DEF MemoryInv, MemoryTypeOK, RememberingInv, FactsAreKept
<1>3. ASSUME NEW q \in Rememberers, LoadFact(q)  PROVE MemoryInv'
  <2> DEFINE w == remembering[q]
             row == IF IsRow(facts[w.key], w.existing.id) THEN facts[w.key] ELSE NoFact
             next == [w EXCEPT !.pc = "loaded", !.loaded = row]
  <2>1. /\ w.pc = "found" /\ w.existing # NoFact /\ UNCHANGED <<facts, writes, told, slipped>>
        /\ remembering' = [remembering EXCEPT ![q] = next] /\ w \in InMemory
    BY <1>0, <1>3 DEF LoadFact
  <2>2. w.key \in FactKeys /\ w.value \in Statements /\ w.existing \in Fact
    BY <2>1 DEF MemoryInv, RememberingInv
  <2>3. row \in Fact \cup {NoFact} /\ (row # NoFact => row.id = w.existing.id)
    BY <1>0, <2>2 DEF IsRow
  <2> HIDE DEF row
  <2>4. /\ next \in InMemory /\ next.pc = "loaded" /\ next.key = w.key /\ next.value = w.value
        /\ next.existing = w.existing /\ next.loaded = row
    BY <2>1, <2>3
  <2> HIDE DEF next, w
  <2> QED  BY <1>0, <2>1, <2>2, <2>3, <2>4 DEF MemoryInv, MemoryTypeOK, RememberingInv, FactsAreKept
<1>4. ASSUME NEW q \in Rememberers, RememberFails(q)  PROVE MemoryInv'
  BY <1>0, <1>4 DEF RememberFails, MemoryInv, MemoryTypeOK, RememberingInv, FactsAreKept
<1>5. ASSUME NEW k \in FactKeys, Forget(k)  PROVE MemoryInv'
  BY <1>0, <1>5 DEF Forget, MemoryInv, MemoryTypeOK, RememberingInv, FactsAreKept
<1>6. ASSUME NEW q \in Rememberers, NEW k \in FactKeys, NEW v \in Statements, NEW row \in Fact \cup {NoFact},
             facts' = [facts EXCEPT ![k] = row], Remembered(q, k, v), writes' \in 0 .. MaxWrites,
             slipped \subseteq slipped', slipped' \subseteq FactKeys,
             k \in slipped' \/ (row # NoFact /\ row.value = v)
      PROVE  MemoryInv'
  BY <1>0, <1>6 DEF Remembered, MemoryInv, MemoryTypeOK, RememberingInv, FactsAreKept
<1>7. ASSUME NEW q \in Rememberers, InsertFact(q)  PROVE MemoryInv'
  <2> DEFINE w == remembering[q]
             row == IF w.existing = NoFact
                    THEN [id |-> writes + 1, value |-> w.value, updatedAt |-> writes + 1]
                    ELSE [w.existing EXCEPT !.value = w.value]
  <2>1. /\ w.pc \in {"found", "loaded"} /\ writes < MaxWrites /\ UNCHANGED slipped
        /\ facts' = [facts EXCEPT ![w.key] = row] /\ writes' = Greatest({writes, row.updatedAt})
        /\ Remembered(q, w.key, w.value) /\ w.existing \in Fact \cup {NoFact}
    BY <1>0, <1>7 DEF InsertFact
  <2>2. w.key \in FactKeys /\ w.value \in Statements
    BY <2>1 DEF MemoryInv, RememberingInv
  <2>3. writes + 1 \in 1 .. MaxWrites
    BY <1>0, <2>1
  <2>4. row \in Fact /\ row.value = w.value
    BY <2>1, <2>2, <2>3 DEF Fact
  <2> HIDE DEF row, w
  <2>5. writes' \in 0 .. MaxWrites
    <3>1. row.updatedAt \in 1 .. MaxWrites
      BY <2>4 DEF Fact
    <3> QED  BY <1>0, <2>1, <3>1, GreatestOfTwo
  <2> QED  BY <1>0, <1>6, <2>1, <2>2, <2>4, <2>5
<1>8. ASSUME NEW q \in Rememberers, UpdateFact(q)  PROVE MemoryInv'
  <2> DEFINE w == remembering[q]
             found == facts[w.key]
             row == IF IsRow(found, w.existing.id) THEN Columns(w, found) ELSE found
  <2>1. /\ w.pc = "loaded" /\ w.loaded # NoFact /\ writes < MaxWrites /\ Remembered(q, w.key, w.value)
        /\ facts' = [facts EXCEPT ![w.key] = row]
        /\ slipped' = IF found = w.loaded THEN slipped ELSE slipped \cup {w.key}
        /\ writes' = IF facts'[w.key] = NoFact THEN writes ELSE Greatest({writes, facts'[w.key].updatedAt})
    BY <1>8 DEF UpdateFact
  <2>2. /\ w.key \in FactKeys /\ w.value \in Statements /\ w.existing \in Fact /\ w.loaded \in Fact
        /\ w.loaded.id = w.existing.id /\ found \in Fact \cup {NoFact}
    BY <1>0, <2>1 DEF MemoryInv, RememberingInv
  <2>3. writes + 1 \in 1 .. MaxWrites
    BY <1>0, <2>1
  <2>4. found \in Fact => Columns(w, found) \in Fact
    BY <2>2, <2>3 DEF Columns, Fact
  <2>5. found = w.loaded => row = Columns(w, found) /\ Columns(w, found).value = w.value
    BY <2>2 DEF IsRow, Columns
  <2>6. row \in Fact \cup {NoFact}
    BY <2>2, <2>4 DEF IsRow
  <2>7. facts'[w.key] = row
    BY <1>0, <2>1, <2>2
  <2> HIDE DEF row, found, w
  <2>8. writes' \in 0 .. MaxWrites
    <3>1. row # NoFact => row.updatedAt \in 1 .. MaxWrites
      BY <2>6 DEF Fact
    <3> QED  BY <1>0, <2>1, <2>7, <3>1, GreatestOfTwo
  <2>9. /\ slipped \subseteq slipped' /\ slipped' \subseteq FactKeys
        /\ w.key \in slipped' \/ (row # NoFact /\ row.value = w.value)
    BY <1>0, <2>1, <2>2, <2>4, <2>5
  <2> QED  BY <1>6, <2>1, <2>2, <2>6, <2>8, <2>9
<1> QED  BY <1>1, <1>2, <1>3, <1>4, <1>5, <1>7, <1>8 DEF MemoryNext

THEOREM MemoryInvariant == MemorySpec => []MemoryInv
<1>1. MemoryInit => MemoryInv
  BY MemoryAssumption DEF MemoryInit, MemoryInv, MemoryTypeOK, RememberingInv, FactsAreKept, NotRemembering
<1> QED  BY <1>1, MemoryStep, PTL DEF MemorySpec

(* What the tools last answered about a key is what the table says of it,     *)
(* through any number of runs that remember and forget it at once, unless a   *)
(* save met a row other than the one it had just read (runMemoryTool).        *)
THEOREM FactsStay == MemorySpec => []FactsAreKept
<1>1. MemoryInv => FactsAreKept
  BY DEF MemoryInv
<1> QED  BY <1>1, MemoryInvariant, PTL

(* Every time the database gave belongs to the row of one key, wherever a copy *)
(* of that row is.                                                             *)
Rows(k) ==
    ({facts[k]} \cup UNION {{remembering[q].existing, remembering[q].loaded} :
                              q \in {p \in Rememberers : remembering[p].key = k}}) \ {NoFact}

TimesAreOwned ==
    \A k \in FactKeys : \A row \in Rows(k) :
        /\ row \in Fact /\ row.updatedAt <= writes
        /\ \A l \in FactKeys \ {k} : \A other \in Rows(l) : row.updatedAt # other.updatedAt

(* A step leaves to each key rows it had, or one written now. *)
LEMMA TimesStep ==
    ASSUME TimesAreOwned, NEW key \in FactKeys, writes \in Nat, writes' \in Nat, writes <= writes',
           \A k \in FactKeys : \A row \in Rows(k)' :
               \/ \E old \in Rows(k) : row \in Fact /\ row.updatedAt = old.updatedAt
               \/ k = key /\ row \in Fact /\ row.updatedAt = writes + 1 /\ writes' = writes + 1
    PROVE  TimesAreOwned'
<1> SUFFICES ASSUME NEW k \in FactKeys, NEW row \in Rows(k)'
             PROVE  /\ row \in Fact /\ row.updatedAt <= writes'
                    /\ \A l \in FactKeys \ {k} : \A other \in Rows(l)' : row.updatedAt # other.updatedAt
    BY DEF TimesAreOwned
<1>1. ASSUME NEW l \in FactKeys, NEW r \in Rows(l)'
      PROVE  /\ r \in Fact /\ r.updatedAt <= writes'
             /\ \/ \E old \in Rows(l) : r.updatedAt = old.updatedAt
                \/ l = key /\ r.updatedAt = writes + 1
  <2>1. r \in Fact => r.updatedAt \in Nat
    BY DEF Fact
  <2> QED  BY <1>1, <2>1 DEF TimesAreOwned
<1>2. ASSUME NEW l \in FactKeys, l # k, NEW other \in Rows(l)' PROVE row.updatedAt # other.updatedAt
  <2>1. /\ \/ \E old \in Rows(k) : row.updatedAt = old.updatedAt
           \/ k = key /\ row.updatedAt = writes + 1
        /\ \/ \E old \in Rows(l) : other.updatedAt = old.updatedAt
           \/ l = key /\ other.updatedAt = writes + 1
    BY <1>1, <1>2
  <2>2. \A j \in FactKeys : \A old \in Rows(j) : old.updatedAt <= writes /\ old.updatedAt \in Nat
    BY DEF TimesAreOwned, Fact
  <2>3. \A a \in Rows(k), b \in Rows(l) : a.updatedAt # b.updatedAt
    BY <1>2 DEF TimesAreOwned
  <2> QED  BY <1>2, <2>1, <2>2, <2>3
<1> QED  BY <1>1, <1>2

LEMMA RowsOf ==
    ASSUME MemoryInv
    PROVE  /\ remembering \in [Rememberers -> [pc : {"idle", "found", "loaded"}, key : FactKeys \cup {NoFact},
                                        value : Statements \cup {NoFact},
                                        existing : Fact \cup {NoFact}, loaded : Fact \cup {NoFact}]]
           /\ facts \in [FactKeys -> Fact \cup {NoFact}]
           /\ \A k \in FactKeys : /\ facts[k] # NoFact => facts[k] \in Rows(k)
                                  /\ Rows(k) \subseteq Fact
           /\ \A q \in Rememberers : remembering[q].pc # "idle" =>
                 LET w == remembering[q]
                 IN  /\ w.existing # NoFact => w.existing \in Rows(w.key)
                     /\ w.loaded # NoFact => w.loaded \in Rows(w.key)
<1>1. /\ remembering \in [Rememberers -> [pc : {"idle", "found", "loaded"}, key : FactKeys \cup {NoFact},
                                        value : Statements \cup {NoFact},
                                        existing : Fact \cup {NoFact}, loaded : Fact \cup {NoFact}]]
      /\ facts \in [FactKeys -> Fact \cup {NoFact}]
  BY DEF MemoryInv, MemoryTypeOK
<1> QED  BY <1>1 DEF Rows, MemoryInv, RememberingInv

(* What the hands and the table hold after a step, row by row. *)
LEMMA RowsAfter ==
    ASSUME MemoryInv, NEW q \in Rememberers, \A p \in Rememberers \ {q} : remembering'[p] = remembering[p],
           NEW k \in FactKeys, NEW row \in Rows(k)'
    PROVE  \/ row \in Rows(k)
           \/ row = facts'[k] /\ row # NoFact /\ facts'[k] # facts[k]
           \/ remembering'[q].key = k /\ row # NoFact
              /\ row \in {remembering'[q].existing, remembering'[q].loaded}
BY DEF Rows

LEMMA TimesNext == MemoryInv /\ MemoryInv' /\ TimesAreOwned /\ [MemoryNext]_memoryVars => TimesAreOwned'
<1> SUFFICES ASSUME MemoryInv, MemoryInv', TimesAreOwned, [MemoryNext]_memoryVars  PROVE TimesAreOwned'
  OBVIOUS
<1> USE NoFactAssumption
<1>0. /\ writes \in Nat /\ writes' \in Nat /\ MaxWrites \in Nat
      /\ NotRemembering.key = NoFact /\ NotRemembering.pc = "idle"
      /\ \A k \in FactKeys : k # NoFact
  BY MemoryAssumption DEF MemoryInv, MemoryTypeOK, NotRemembering
<1>1. CASE UNCHANGED memoryVars
  BY <1>1 DEF memoryVars, TimesAreOwned, Rows
<1>2. ASSUME NEW q \in Rememberers, NEW k \in FactKeys, NEW v \in Statements, Remember(q, k, v)
      PROVE  TimesAreOwned'
  <2>1. /\ UNCHANGED <<facts, writes>>
        /\ remembering'[q] = [pc |-> "found", key |-> k, value |-> v, existing |-> facts[k], loaded |-> NoFact]
        /\ \A p \in Rememberers \ {q} : remembering'[p] = remembering[p]
    BY <1>2, RowsOf DEF Remember
  <2>2. \A l \in FactKeys : \A row \in Rows(l)' : row \in Rows(l)
    BY <2>1, RowsAfter, RowsOf
  <2> QED  BY <1>0, <2>1, <2>2, RowsOf, TimesStep
<1>3. ASSUME NEW q \in Rememberers, LoadFact(q)  PROVE TimesAreOwned'
  <2> DEFINE w == remembering[q]
             row == IF IsRow(facts[w.key], w.existing.id) THEN facts[w.key] ELSE NoFact
  <2>1. /\ UNCHANGED <<facts, writes>> /\ w.pc = "found" /\ w.existing # NoFact
        /\ remembering' = [remembering EXCEPT ![q].pc = "loaded", ![q].loaded = row]
    BY <1>3 DEF LoadFact
  <2>2. w.key \in FactKeys
    BY <2>1 DEF MemoryInv, RememberingInv
  <2>3. row # NoFact => row \in Rows(w.key)
    BY <2>2, RowsOf
  <2> HIDE DEF row
  <2>4. /\ remembering'[q].key = w.key /\ remembering'[q].existing = w.existing
        /\ remembering'[q].loaded = row
        /\ \A p \in Rememberers \ {q} : remembering'[p] = remembering[p]
    BY <2>1, RowsOf
  <2>5. \A l \in FactKeys : \A r \in Rows(l)' : r \in Rows(l)
    <3> SUFFICES ASSUME NEW l \in FactKeys, NEW r \in Rows(l)' PROVE r \in Rows(l)
        OBVIOUS
    <3>1. w.existing \in Rows(w.key)
      BY <2>1, RowsOf
    <3>2. \/ r \in Rows(l)
          \/ r = facts'[l] /\ r # NoFact /\ facts'[l] # facts[l]
          \/ remembering'[q].key = l /\ r # NoFact
             /\ r \in {remembering'[q].existing, remembering'[q].loaded}
      BY <2>4, RowsAfter
    <3> HIDE DEF w
    <3> QED  BY <2>1, <2>3, <2>4, <3>1, <3>2
  <2> QED  BY <1>0, <2>1, <2>2, <2>5, RowsOf, TimesStep
<1>4. ASSUME NEW q \in Rememberers, RememberFails(q)  PROVE TimesAreOwned'
  <2>1. /\ UNCHANGED <<facts, writes>> /\ remembering'[q] = NotRemembering /\ remembering[q].pc # "idle"
        /\ \A p \in Rememberers \ {q} : remembering'[p] = remembering[p]
    BY <1>4, RowsOf DEF RememberFails
  <2>2. \A l \in FactKeys : \A r \in Rows(l)' : r \in Rows(l)
    BY <1>0, <2>1, RowsAfter
  <2>3. remembering[q].key \in FactKeys
    BY <2>1 DEF MemoryInv, RememberingInv
  <2> QED  BY <1>0, <2>1, <2>2, <2>3, RowsOf, TimesStep
<1>5. ASSUME NEW k \in FactKeys, Forget(k)  PROVE TimesAreOwned'
  <2>1. UNCHANGED <<writes, remembering>> /\ \A l \in FactKeys : facts'[l] \in {facts[l], NoFact}
    BY <1>5, RowsOf DEF Forget
  <2>2. \A l \in FactKeys : \A r \in Rows(l)' : r \in Rows(l)
    BY <2>1 DEF Rows
  <2> QED  BY <1>0, <2>1, <2>2, RowsOf, TimesStep
<1>6. ASSUME NEW q \in Rememberers, NEW k \in FactKeys, NEW row \in Fact \cup {NoFact},
             facts' = [facts EXCEPT ![k] = row], remembering' = [remembering EXCEPT ![q] = NotRemembering],
             writes' = IF row = NoFact THEN writes ELSE Greatest({writes, row.updatedAt}),
             row # NoFact => row.updatedAt = writes + 1 \/ \E old \in Rows(k) : row.updatedAt = old.updatedAt
      PROVE  TimesAreOwned'
  <2>1. /\ facts'[k] = row /\ \A l \in FactKeys \ {k} : facts'[l] = facts[l]
        /\ remembering'[q] = NotRemembering
        /\ \A p \in Rememberers \ {q} : remembering'[p] = remembering[p]
    BY <1>6, RowsOf
  <2>2. writes <= writes' /\ (row # NoFact /\ row.updatedAt = writes + 1 => writes' = writes + 1)
    <3>1. CASE row = NoFact
      BY <1>0, <1>6, <3>1
    <3>2. CASE row # NoFact
      <4>1. row.updatedAt \in Nat
        BY <3>2 DEF Fact
      <4>2. /\ Greatest({writes, row.updatedAt}) \in {writes, row.updatedAt}
            /\ \A u \in {writes, row.updatedAt} : u <= Greatest({writes, row.updatedAt})
        <5>1. \E t \in {writes, row.updatedAt} : \A u \in {writes, row.updatedAt} : u <= t
          BY <1>0, <4>1
        <5> QED  BY <5>1 DEF Greatest
      <4> QED  BY <1>0, <1>6, <3>2, <4>1, <4>2
    <3> QED  BY <3>1, <3>2
  <2>3. ASSUME NEW l \in FactKeys, NEW r \in Rows(l)'
        PROVE  \/ \E old \in Rows(l) : r \in Fact /\ r.updatedAt = old.updatedAt
               \/ l = k /\ r \in Fact /\ r.updatedAt = writes + 1 /\ writes' = writes + 1
    <3>1. r \in Rows(l) \/ (l = k /\ r = row /\ row # NoFact)
      BY <1>0, <2>1, <2>3, RowsAfter
    <3> QED  BY <1>6, <2>2, <3>1, RowsOf
  <2> QED  BY <1>0, <2>2, <2>3, TimesStep
<1>7. ASSUME NEW q \in Rememberers, InsertFact(q)  PROVE TimesAreOwned'
  <2> DEFINE w == remembering[q]
             row == IF w.existing = NoFact
                    THEN [id |-> writes + 1, value |-> w.value, updatedAt |-> writes + 1]
                    ELSE [w.existing EXCEPT !.value = w.value]
  <2>1. /\ w.pc # "idle" /\ facts' = [facts EXCEPT ![w.key] = row]
        /\ writes' = Greatest({writes, row.updatedAt}) /\ writes < MaxWrites
        /\ remembering' = [remembering EXCEPT ![q] = NotRemembering]
    BY <1>7 DEF InsertFact, Remembered
  <2>2. w.key \in FactKeys /\ w.value \in Statements /\ w.existing \in Fact \cup {NoFact}
    BY <2>1, RowsOf DEF MemoryInv, RememberingInv
  <2>3. row \in Fact /\ (row.updatedAt = writes + 1 \/ \E old \in Rows(w.key) : row.updatedAt = old.updatedAt)
    <3>1. CASE w.existing = NoFact
      <4>1. writes + 1 \in 1 .. MaxWrites
        BY <1>0, <2>1
      <4> QED  BY <2>2, <3>1, <4>1 DEF Fact
    <3>2. CASE w.existing # NoFact
      <4>1. w.existing \in Rows(w.key) /\ w.existing \in Fact
        BY <2>1, <2>2, <3>2, RowsOf
      <4>2. row = [w.existing EXCEPT !.value = w.value]
        BY <3>2
      <4>3. row \in Fact /\ row.updatedAt = w.existing.updatedAt
        BY <2>2, <4>1, <4>2 DEF Fact
      <4> QED  BY <4>1, <4>3
    <3> QED  BY <3>1, <3>2
  <2> HIDE DEF row, w
  <2> QED  BY <1>6, <2>1, <2>2, <2>3
<1>8. ASSUME NEW q \in Rememberers, UpdateFact(q)  PROVE TimesAreOwned'
  <2> DEFINE w == remembering[q]
             found == facts[w.key]
             row == IF IsRow(found, w.existing.id) THEN Columns(w, found) ELSE found
  <2>1. /\ w.pc = "loaded" /\ w.loaded # NoFact /\ writes < MaxWrites
        /\ facts' = [facts EXCEPT ![w.key] = row]
        /\ remembering' = [remembering EXCEPT ![q] = NotRemembering]
        /\ writes' = IF facts'[w.key] = NoFact THEN writes ELSE Greatest({writes, facts'[w.key].updatedAt})
    BY <1>8 DEF UpdateFact, Remembered
  <2>2. /\ w.key \in FactKeys /\ w.value \in Statements /\ w.existing \in Fact /\ w.loaded \in Fact
        /\ found \in Fact \cup {NoFact}
    BY <2>1, RowsOf DEF MemoryInv, RememberingInv
  <2>3. writes + 1 \in 1 .. MaxWrites
    BY <1>0, <2>1
  <2>4. w.existing \in Rows(w.key) /\ (found # NoFact => found \in Rows(w.key))
    BY <2>1, <2>2, RowsOf
  <2>5. ASSUME found # NoFact
        PROVE  /\ Columns(w, found) \in Fact
               /\ Columns(w, found).updatedAt \in {w.existing.updatedAt, writes + 1, found.updatedAt}
    BY <2>2, <2>3, <2>5 DEF Columns, Fact
  <2>6. /\ row \in Fact \cup {NoFact}
        /\ row # NoFact => row.updatedAt = writes + 1 \/ \E old \in Rows(w.key) : row.updatedAt = old.updatedAt
    BY <2>2, <2>4, <2>5 DEF IsRow
  <2>7. facts'[w.key] = row
    BY <2>1, <2>2, RowsOf
  <2> HIDE DEF row, w
  <2>8. writes' = IF row = NoFact THEN writes ELSE Greatest({writes, row.updatedAt})
    BY <2>1, <2>7
  <2> QED  BY <1>6, <2>1, <2>2, <2>6, <2>8
<1> QED  BY <1>1, <1>2, <1>3, <1>4, <1>5, <1>7, <1>8 DEF MemoryNext

LEMMA MemoryPrompts == MemoryInv /\ TimesAreOwned => NewestIsPrompted
<1> SUFFICES ASSUME MemoryInv, TimesAreOwned PROVE NewestIsPrompted
    OBVIOUS
<1> DEFINE L == [k \in Facts |-> Length[facts[k].value]]
           Moment(k) == facts[k].updatedAt
<1>1. /\ Facts \subseteq FactKeys /\ IsFiniteSet(Facts) /\ writes \in Nat
      /\ \A k \in Facts : facts[k] \in Fact /\ facts[k] \in Rows(k) /\ Moment(k) \in Nat /\ L[k] \in Nat
  <2>1. Facts \subseteq FactKeys /\ IsFiniteSet(Facts)
    BY MemoryAssumption, FS_Subset DEF Facts
  <2>2. \A k \in Facts : facts[k] \in Fact /\ facts[k] \in Rows(k)
    BY RowsOf DEF Facts
  <2> QED  BY <2>1, <2>2, MemoryAssumption DEF Fact, MemoryInv, MemoryTypeOK
<1>2. ASSUME NEW keys \in SUBSET Facts
      PROVE  Lines(keys) = SumFunctionOnSet(L, keys) /\ Lines(keys) \in Nat
  <2> DEFINE M == [k \in keys |-> Length[facts[k].value]]
  <2>1. IsFiniteSet(keys) /\ \A k \in keys : M[k] = L[k]
    BY <1>1, FS_Subset
  <2>2. DOMAIN M = keys
    OBVIOUS
  <2>3. \A k \in keys : L[k] \in Nat
    BY <1>1
  <2> HIDE DEF L, M
  <2>4. SumFunctionOnSet(M, keys) = SumFunctionOnSet(L, keys)
    BY <2>1, SumAgrees
  <2>5. SumFunctionOnSet(L, keys) \in Nat
    BY <2>1, <2>3, SumIsNat
  <2> QED  BY <2>2, <2>4, <2>5 DEF Lines, SumFunction, M
<1>3. Lines(PromptBlock) <= PROMPT_BUDGET
  <2>1. PromptBlock \subseteq Facts
    BY DEF PromptBlock
  <2>2. CASE PromptBlock = {}
    <3>1. Lines(PromptBlock) = 0
      BY <1>2, <2>1, <2>2, SumOfNone
    <3> QED  BY <3>1, MemoryAssumption
  <2>3. CASE PromptBlock # {}
    <3>1. PICK k \in PromptBlock : \A l \in PromptBlock : Moment(k) <= Moment(l)
      <4> DEFINE T == {Moment(l) : l \in PromptBlock}
      <4>1. T \subseteq Nat /\ T # {}
        BY <1>1, <2>1, <2>3
      <4>2. PICK t \in T : \A u \in T : ~(<<u, t>> \in OpToRel(<, Nat))
        BY <4>1, NatLessThanWellFounded, WFMin
      <4>3. \A u \in T : t <= u
        <5> SUFFICES ASSUME NEW u \in T PROVE t <= u
            OBVIOUS
        <5>1. ~(u < t)
          BY <4>1, <4>2, Zenon DEF OpToRel
        <5> QED  BY <4>1, <5>1
      <4>4. PICK k \in PromptBlock : t = Moment(k)
        OBVIOUS
      <4> QED  BY <4>3, <4>4
    <3>2. PromptBlock \subseteq NewerThan(k) /\ NewerThan(k) \subseteq Facts
      BY <1>1, <2>1, <3>1 DEF NewerThan
    <3>3. Lines(NewerThan(k)) <= PROMPT_BUDGET
      BY DEF PromptBlock
    <3>4. \A x \in NewerThan(k) : L[x] \in Nat
      BY <1>1, <3>2
    <3>5. IsFiniteSet(NewerThan(k))
      BY <1>1, <3>2, FS_Subset
    <3>6. SumFunctionOnSet(L, PromptBlock) <= SumFunctionOnSet(L, NewerThan(k))
      <4> HIDE DEF L
      <4> QED  BY <3>2, <3>4, <3>5, SumOfMore
    <3>7. /\ Lines(PromptBlock) <= Lines(NewerThan(k)) /\ Lines(PromptBlock) \in Nat
          /\ Lines(NewerThan(k)) \in Nat
      BY <1>2, <2>1, <3>2, <3>6
    <3> QED  BY <3>3, <3>7, MemoryAssumption
  <2> QED  BY <2>2, <2>3
<1>4. ASSUME NEW k \in Facts, facts[k].updatedAt = writes, Length[facts[k].value] <= PROMPT_BUDGET
      PROVE  k \in PromptBlock
  <2>1. NewerThan(k) = {k}
    <3>1. ASSUME NEW l \in NewerThan(k), l # k PROVE FALSE
      <4>1. l \in Facts /\ Moment(l) >= writes
        BY <1>4, <3>1 DEF NewerThan
      <4>2. Moment(l) <= writes /\ Moment(l) # Moment(k)
        BY <1>1, <3>1, <4>1 DEF TimesAreOwned
      <4> QED  BY <1>1, <1>4, <4>1, <4>2
    <3>2. k \in NewerThan(k)
      BY <1>1 DEF NewerThan
    <3> QED  BY <3>1, <3>2
  <2>2. Lines({k}) = L[k]
    <3>1. {k} = {} \cup {k} /\ IsFiniteSet({}) /\ k \notin {} /\ L[k] \in Int
      BY <1>1, FS_EmptySet
    <3>2. \A x \in {} : L[x] \in Int
      OBVIOUS
    <3>3. SumFunctionOnSet(L, {}) = 0
      BY SumOfNone
    <3>4. SumFunctionOnSet(L, {} \cup {k}) = L[k] + SumFunctionOnSet(L, {})
      <4> HIDE DEF L
      <4> QED  BY <3>1, <3>2, SumWith
    <3>5. {k} \in SUBSET Facts
      OBVIOUS
    <3> QED  BY <1>1, <1>2, <3>1, <3>3, <3>4, <3>5
  <2> QED  BY <1>4, <2>1, <2>2 DEF PromptBlock
<1> QED  BY <1>3, <1>4 DEF NewestIsPrompted

LEMMA InitTimes == MemoryInit => TimesAreOwned
BY NoFactAssumption DEF MemoryInit, TimesAreOwned, Rows, NotRemembering

(* "Facts are included newest-first until the budget runs out" (buildPromptBlock):
   for any number of keys and of runs, the next prompt tells the newest fact, if it
   fits, and never more than the budget. *)
THEOREM NewestPrompted == MemorySpec => []NewestIsPrompted
<1>1. MemoryInit => TimesAreOwned
  BY InitTimes
<1>2. MemoryInv /\ MemoryInv' /\ TimesAreOwned /\ [MemoryNext]_memoryVars => TimesAreOwned'
  BY TimesNext
<1> QED  BY <1>1, <1>2, MemoryInvariant, MemoryPrompts, PTL DEF MemorySpec

-----------------------------------------------------------------------------
(* Rate limiting.  A window is admitted as many requests as it counts, up to  *)
(* the limit, less the one that has yet to set the expiry: while there is     *)
(* such a request the window cannot end, so there is never a second.          *)

OpeningHits == {h \in Hits : hit[h] = "first"}
Counted == {h \in Hits : hit[h] # "new"}
UpToLimit == IF counter < LIMIT THEN counter ELSE LIMIT

LimitTyped ==
    /\ counter \in Nat /\ counter <= Cardinality(Counted)
    /\ expires \in BOOLEAN /\ unlimited \in BOOLEAN
    /\ hit \in [Hits -> HitPhases]
    /\ admittedHere \subseteq Counted

WindowAddsUp ==
    /\ Cardinality(admittedHere) + Cardinality(OpeningHits) <= UpToLimit
    /\ admittedHere \cap OpeningHits = {}
    /\ Cardinality(OpeningHits) \in {0, 1}
    /\ Cardinality(OpeningHits) = 1 \/ counter = 0 => ~expires
    /\ ~unlimited =>
        /\ Cardinality(admittedHere) + Cardinality(OpeningHits) = UpToLimit
        /\ counter > 0 /\ ~expires => Cardinality(OpeningHits) = 1

LimitInv == LimitTyped /\ WindowAddsUp

LEMMA LimitSets ==
    ASSUME LimitInv
    PROVE  /\ IsFiniteSet(Hits) /\ IsFiniteSet(OpeningHits) /\ IsFiniteSet(Counted) /\ IsFiniteSet(admittedHere)
           /\ Cardinality(OpeningHits) \in Nat /\ Cardinality(Counted) \in Nat
           /\ Cardinality(admittedHere) \in Nat /\ LIMIT \in Nat \ {0}
<1>1. IsFiniteSet(Hits) /\ LIMIT \in Nat \ {0}
  BY RateLimitAssumption
<1>2. OpeningHits \subseteq Hits /\ Counted \subseteq Hits /\ admittedHere \subseteq Hits
  BY DEF OpeningHits, Counted, LimitInv, LimitTyped
<1> QED  BY <1>1, <1>2, FS_Subset, FS_CardinalityType

(* A request leaves "new": it is counted. *)
LEMMA CountsOne ==
    ASSUME LimitInv, NEW h \in Hits, hit[h] = "new", NEW to \in HitPhases \ {"new"},
           hit' = [hit EXCEPT ![h] = to]
    PROVE  /\ hit' \in [Hits -> HitPhases] /\ h \notin admittedHere
           /\ Counted' = Counted \cup {h} /\ h \notin Counted
           /\ Cardinality(Counted') = Cardinality(Counted) + 1
           /\ OpeningHits' = IF to = "first" THEN OpeningHits \cup {h} ELSE OpeningHits
           /\ h \notin OpeningHits
<1>1. /\ hit' \in [Hits -> HitPhases] /\ h \notin Counted /\ Counted' = Counted \cup {h}
      /\ h \notin OpeningHits /\ OpeningHits' = IF to = "first" THEN OpeningHits \cup {h} ELSE OpeningHits
  BY DEF LimitInv, LimitTyped, Counted, OpeningHits
<1> QED  BY <1>1, LimitSets, FS_AddElement DEF LimitInv, LimitTyped

(* The request that opened the window goes on: it was the only one. *)
LEMMA OpenedWindow ==
    ASSUME LimitInv, NEW h \in Hits, hit[h] = "first", NEW to \in HitPhases \ {"new", "first"},
           hit' = [hit EXCEPT ![h] = to]
    PROVE  /\ hit' \in [Hits -> HitPhases] /\ Counted' = Counted /\ h \in Counted
           /\ OpeningHits = {h} /\ OpeningHits' = {} /\ Cardinality(OpeningHits) = 1 /\ Cardinality(OpeningHits') = 0
           /\ h \notin admittedHere /\ counter > 0
<1>1. /\ hit' \in [Hits -> HitPhases] /\ Counted' = Counted /\ h \in Counted
      /\ h \in OpeningHits /\ OpeningHits' = OpeningHits \ {h} /\ h \notin admittedHere
  BY DEF LimitInv, LimitTyped, WindowAddsUp, Counted, OpeningHits
<1>2. Cardinality(OpeningHits) # 0
  BY <1>1, LimitSets, FS_EmptySet
<1>3. Cardinality(OpeningHits) = 1
  BY <1>2 DEF LimitInv, WindowAddsUp
<1>4. Cardinality(OpeningHits') = 0
  <2>1. IsFiniteSet(OpeningHits)
    BY LimitSets
  <2>2. Cardinality(OpeningHits \ {h}) = Cardinality(OpeningHits) - 1
    BY <1>1, <2>1, FS_RemoveElement
  <2> QED  BY <1>1, <1>3, <2>2
<1>5. OpeningHits' = {}
  BY <1>1, <1>4, LimitSets, FS_EmptySet, FS_Subset
<1>6. counter > 0
  BY <1>3, LimitSets DEF LimitInv, LimitTyped, WindowAddsUp, UpToLimit
<1> QED  BY <1>1, <1>3, <1>4, <1>5, <1>6

LEMMA IncrementInv ==
    ASSUME LimitInv, NEW h \in Hits, Increment(h)
    PROVE  LimitInv'
<1> USE LimitSets
<1>1. hit[h] = "new" /\ counter' = counter + 1 /\ UNCHANGED <<expires, unlimited>> /\ counter \in Nat
  BY DEF Increment, LimitInv, LimitTyped
<1>2. CASE counter = 0
  <2>1. hit' = [hit EXCEPT ![h] = "first"] /\ UNCHANGED admittedHere
    BY <1>1, <1>2 DEF Increment
  <2>2. Cardinality(OpeningHits) = 0 /\ Cardinality(admittedHere) = 0
    BY <1>2 DEF LimitInv, WindowAddsUp, UpToLimit
  <2>3. /\ hit' \in [Hits -> HitPhases] /\ Counted' = Counted \cup {h}
        /\ Cardinality(Counted') = Cardinality(Counted) + 1
        /\ OpeningHits' = OpeningHits \cup {h} /\ h \notin OpeningHits /\ h \notin admittedHere
    BY <1>1, <2>1, CountsOne DEF HitPhases
  <2>4. Cardinality(OpeningHits') = 1
    <3>1. IsFiniteSet(OpeningHits)
      BY LimitSets
    <3>2. Cardinality(OpeningHits \cup {h}) = Cardinality(OpeningHits) + 1
      BY <2>3, <3>1, FS_AddElement
    <3> QED  BY <2>2, <2>3, <3>2
  <2>5. LimitTyped'
    BY <1>1, <2>1, <2>3 DEF LimitInv, LimitTyped
  <2>6. UpToLimit' = 1
    BY <1>1, <1>2 DEF UpToLimit
  <2>7. WindowAddsUp'
    BY <1>1, <1>2, <2>1, <2>2, <2>3, <2>4, <2>6 DEF LimitInv, WindowAddsUp
  <2> QED  BY <2>5, <2>7 DEF LimitInv
<1>3. CASE counter > 0 /\ ~Over(counter')
  <2>1. hit' = [hit EXCEPT ![h] = "admitted"] /\ admittedHere' = admittedHere \cup {h}
    BY <1>1, <1>3 DEF Increment, Ends
  <2>2. /\ hit' \in [Hits -> HitPhases] /\ Counted' = Counted \cup {h}
        /\ Cardinality(Counted') = Cardinality(Counted) + 1
        /\ OpeningHits' = OpeningHits /\ h \notin OpeningHits /\ h \notin admittedHere
    BY <1>1, <2>1, CountsOne DEF HitPhases
  <2>3. Cardinality(admittedHere') = Cardinality(admittedHere) + 1
    BY <2>1, <2>2, FS_AddElement
  <2>4. UpToLimit' = UpToLimit + 1
    BY <1>1, <1>3 DEF UpToLimit, Over
  <2>5. LimitTyped'
    BY <1>1, <2>1, <2>2 DEF LimitInv, LimitTyped
  <2>6. WindowAddsUp'
    BY <1>1, <1>3, <2>1, <2>2, <2>3, <2>4 DEF LimitInv, WindowAddsUp, UpToLimit
  <2> QED  BY <2>5, <2>6 DEF LimitInv
<1>4. CASE counter > 0 /\ Over(counter')
  <2>1. hit' = [hit EXCEPT ![h] = "refused"] /\ UNCHANGED admittedHere
    BY <1>1, <1>4 DEF Increment, Ends
  <2>2. /\ hit' \in [Hits -> HitPhases] /\ Counted' = Counted \cup {h}
        /\ Cardinality(Counted') = Cardinality(Counted) + 1 /\ OpeningHits' = OpeningHits
    BY <1>1, <2>1, CountsOne DEF HitPhases
  <2>3. UpToLimit' = UpToLimit
    BY <1>1, <1>4 DEF UpToLimit, Over
  <2>4. LimitTyped'
    BY <1>1, <2>1, <2>2 DEF LimitInv, LimitTyped
  <2>5. WindowAddsUp'
    BY <1>1, <1>4, <2>1, <2>2, <2>3 DEF LimitInv, WindowAddsUp
  <2> QED  BY <2>4, <2>5 DEF LimitInv
<1> QED  BY <1>1, <1>2, <1>3, <1>4

LEMMA OpenerInv ==
    ASSUME LimitInv, NEW h \in Hits, hit[h] = "first", SetExpiry(h) \/ FailOpen(h) \/ HitDies(h)
    PROVE  LimitInv'
<1> USE LimitSets
<1>1. CASE SetExpiry(h)
  <2>1. /\ hit' = [hit EXCEPT ![h] = "admitted"] /\ admittedHere' = admittedHere \cup {h}
        /\ expires' = TRUE /\ UNCHANGED <<counter, unlimited>>
    <3>1. ~Over(1)
      BY LimitSets DEF Over
    <3> QED  BY <1>1, <3>1 DEF SetExpiry, Ends
  <2>2. /\ hit' \in [Hits -> HitPhases] /\ Counted' = Counted /\ h \in Counted
        /\ OpeningHits' = {} /\ Cardinality(OpeningHits) = 1 /\ Cardinality(OpeningHits') = 0
        /\ h \notin admittedHere /\ counter > 0
    BY <2>1, OpenedWindow DEF HitPhases
  <2>3. Cardinality(admittedHere') = Cardinality(admittedHere) + 1
    BY <2>1, <2>2, FS_AddElement
  <2>4. LimitTyped'
    BY <2>1, <2>2 DEF LimitInv, LimitTyped
  <2>5. WindowAddsUp'
    BY <2>1, <2>2, <2>3 DEF LimitInv, WindowAddsUp, UpToLimit
  <2> QED  BY <2>4, <2>5 DEF LimitInv
<1>2. CASE FailOpen(h) \/ HitDies(h)
  <2>1. PICK to \in {"admitted", "died"} : hit' = [hit EXCEPT ![h] = to]
    BY <1>2 DEF FailOpen, HitDies
  <2>2. unlimited' = TRUE /\ UNCHANGED <<counter, expires, admittedHere>>
    BY <1>2 DEF FailOpen, HitDies, LimitInv, LimitTyped
  <2>3. /\ hit' \in [Hits -> HitPhases] /\ Counted' = Counted
        /\ OpeningHits' = {} /\ Cardinality(OpeningHits) = 1 /\ Cardinality(OpeningHits') = 0 /\ counter > 0
    BY <2>1, OpenedWindow DEF HitPhases
  <2>4. LimitTyped'
    BY <2>2, <2>3 DEF LimitInv, LimitTyped
  <2>5. UpToLimit' = UpToLimit /\ UpToLimit \in Nat
    BY <2>2, LimitSets DEF UpToLimit, LimitInv, LimitTyped
  <2>6. WindowAddsUp'
    BY <2>2, <2>3, <2>5, LimitSets DEF LimitInv, WindowAddsUp
  <2> QED  BY <2>4, <2>6 DEF LimitInv
<1> QED  BY <1>1, <1>2

LEMMA LimitStep == LimitInv /\ [RateLimitNext]_limitVars => LimitInv'
<1> SUFFICES ASSUME LimitInv, [RateLimitNext]_limitVars  PROVE LimitInv'
  OBVIOUS
<1>1. CASE UNCHANGED limitVars
  BY <1>1 DEF limitVars, LimitInv, LimitTyped, WindowAddsUp, UpToLimit, OpeningHits, Counted
<1>2. ASSUME NEW h \in Hits, Increment(h)  PROVE LimitInv'
  BY <1>2, IncrementInv
<1>3. ASSUME NEW h \in Hits, SetExpiry(h) \/ HitDies(h)  PROVE LimitInv'
  BY <1>3, OpenerInv DEF SetExpiry, HitDies
<1>4. ASSUME NEW h \in Hits, FailOpen(h)  PROVE LimitInv'
  <2>1. CASE hit[h] = "first"
    BY <1>4, <2>1, OpenerInv
  <2>2. CASE hit[h] = "new"
    <3>1. hit' = [hit EXCEPT ![h] = "admitted"] /\ UNCHANGED <<counter, expires, admittedHere, unlimited>>
      BY <1>4, <2>2 DEF FailOpen, LimitInv, LimitTyped
    <3>2. /\ hit' \in [Hits -> HitPhases] /\ Counted' = Counted \cup {h}
          /\ Cardinality(Counted') = Cardinality(Counted) + 1 /\ OpeningHits' = OpeningHits
      BY <2>2, <3>1, CountsOne DEF HitPhases
    <3>3. LimitTyped'
      BY <3>1, <3>2, LimitSets DEF LimitInv, LimitTyped
    <3>4. WindowAddsUp'
      BY <3>1, <3>2 DEF LimitInv, WindowAddsUp, UpToLimit
    <3> QED  BY <3>3, <3>4 DEF LimitInv
  <2> QED  BY <1>4, <2>1, <2>2 DEF FailOpen
<1>6. ASSUME NEW h \in Hits, AnswerLost(h)  PROVE LimitInv'
  <2>1. /\ hit' = [hit EXCEPT ![h] = "admitted"] /\ unlimited' = TRUE /\ UNCHANGED admittedHere
        /\ hit[h] \in {"new", "first"} /\ counter \in Nat
    BY <1>6 DEF AnswerLost, LimitInv, LimitTyped
  <2>2. CASE hit[h] = "first"
    <3>1. UNCHANGED counter /\ expires' = TRUE
      BY <1>6, <2>2 DEF AnswerLost
    <3>2. /\ hit' \in [Hits -> HitPhases] /\ Counted' = Counted
          /\ OpeningHits' = {} /\ Cardinality(OpeningHits) = 1 /\ Cardinality(OpeningHits') = 0 /\ counter > 0
      BY <2>1, <2>2, OpenedWindow DEF HitPhases
    <3>3. LimitTyped'
      BY <2>1, <3>1, <3>2 DEF LimitInv, LimitTyped
    <3>4. UpToLimit' = UpToLimit /\ UpToLimit \in Nat
      BY <2>1, <3>1, LimitSets DEF UpToLimit
    <3>5. WindowAddsUp'
      BY <2>1, <3>1, <3>2, <3>4, LimitSets DEF LimitInv, WindowAddsUp
    <3> QED  BY <3>3, <3>5 DEF LimitInv
  <2>3. CASE hit[h] = "new"
    <3>1. counter' = counter + 1 /\ expires' = expires
      BY <1>6, <2>3 DEF AnswerLost, LimitInv, LimitTyped
    <3>2. /\ hit' \in [Hits -> HitPhases] /\ Counted' = Counted \cup {h}
          /\ Cardinality(Counted') = Cardinality(Counted) + 1 /\ OpeningHits' = OpeningHits
      BY <2>1, <2>3, CountsOne DEF HitPhases
    <3>3. LimitTyped'
      BY <2>1, <3>1, <3>2, LimitSets DEF LimitInv, LimitTyped
    <3>4. UpToLimit' >= UpToLimit /\ UpToLimit' \in Nat /\ UpToLimit \in Nat
      <4>1. LIMIT \in Nat /\ counter \in Nat /\ counter' = counter + 1
        BY <2>1, <3>1, LimitSets
      <4>2. /\ UpToLimit = IF counter < LIMIT THEN counter ELSE LIMIT
            /\ UpToLimit' = IF counter' < LIMIT THEN counter' ELSE LIMIT
        BY DEF UpToLimit
      <4> QED  BY <4>1, <4>2
    <3>5. WindowAddsUp'
      BY <2>1, <3>1, <3>2, <3>4, LimitSets DEF LimitInv, WindowAddsUp
    <3> QED  BY <3>3, <3>5 DEF LimitInv
  <2> QED  BY <2>1, <2>2, <2>3
<1>5. CASE WindowEnds
  <2>1. /\ counter' = 0 /\ expires' = FALSE /\ admittedHere' = {} /\ UNCHANGED <<hit, unlimited>>
        /\ expires
    BY <1>5 DEF WindowEnds
  <2>2. Counted' = Counted /\ OpeningHits' = OpeningHits /\ Cardinality(OpeningHits) = 0
    BY <2>1 DEF LimitInv, WindowAddsUp, Counted, OpeningHits
  <2>3. Cardinality(admittedHere') = 0
    BY <2>1, FS_EmptySet
  <2>4. LimitTyped'
    <3>1. counter' \in Nat /\ counter' <= Cardinality(Counted') /\ admittedHere' \subseteq Counted'
      BY <2>1, <2>2, LimitSets
    <3> QED  BY <2>1, <3>1 DEF LimitInv, LimitTyped
  <2>5. WindowAddsUp'
    BY <2>1, <2>2, <2>3, LimitSets DEF LimitInv, WindowAddsUp, UpToLimit
  <2> QED  BY <2>4, <2>5 DEF LimitInv
<1> QED  BY <1>1, <1>2, <1>3, <1>4, <1>5, <1>6 DEF RateLimitNext

THEOREM LimitInvariant == RateLimitSpec => []LimitInv
<1>1. RateLimitInit => LimitInv
  <2> SUFFICES ASSUME RateLimitInit  PROVE LimitInv
    OBVIOUS
  <2>1. Counted = {} /\ OpeningHits = {} /\ admittedHere = {}
    BY DEF RateLimitInit, Counted, OpeningHits
  <2>2. Cardinality(Counted) = 0 /\ Cardinality(OpeningHits) = 0 /\ Cardinality(admittedHere) = 0
    BY <2>1, FS_EmptySet
  <2>3. LimitTyped
    <3>1. counter = 0 /\ expires = FALSE /\ unlimited = FALSE /\ hit = [h \in Hits |-> "new"]
      BY DEF RateLimitInit
    <3>2. hit \in [Hits -> HitPhases]
      BY <3>1 DEF HitPhases
    <3>3. counter \in Nat /\ counter <= Cardinality(Counted)
      BY <2>2, <3>1
    <3>4. admittedHere \subseteq Counted
      BY <2>1
    <3> QED  BY <3>1, <3>2, <3>3, <3>4 DEF LimitTyped
  <2>4. UpToLimit = 0
    BY RateLimitAssumption DEF RateLimitInit, UpToLimit
  <2> QED  BY <2>1, <2>2, <2>3, <2>4 DEF RateLimitInit, LimitInv, WindowAddsUp
<1> QED  BY <1>1, LimitStep, PTL DEF RateLimitSpec

THEOREM LimitTypes == RateLimitSpec => []RateLimitTypeOK
<1>1. LimitInv => RateLimitTypeOK
  <2> SUFFICES ASSUME LimitInv  PROVE RateLimitTypeOK
    OBVIOUS
  <2>1. Cardinality(Counted) <= Cardinality(Hits) /\ Cardinality(Hits) \in Nat
    BY RateLimitAssumption, FS_Subset, FS_CardinalityType DEF Counted
  <2> QED  BY <2>1, LimitSets DEF LimitInv, LimitTyped, RateLimitTypeOK, Counted
<1> QED  BY <1>1, LimitInvariant, PTL

(* A window admits the first LIMIT requests it counts and no other, however    *)
(* many arrive at once, and ends unless Redis or the process failed between    *)
(* the two commands of the request that opened it, or an answer of Redis was   *)
(* lost (canActivate).                                                         *)
THEOREM WindowsEnd == RateLimitSpec => []WindowsHold
<1>1. LimitInv => WindowsHold
  <2> SUFFICES ASSUME LimitInv  PROVE WindowsHold
    OBVIOUS
  <2>1. Cardinality({h \in Hits : hit[h] = "first"}) = Cardinality(OpeningHits)
    BY DEF OpeningHits
  <2> QED  BY <2>1, LimitSets DEF LimitInv, LimitTyped, WindowAddsUp, WindowsHold, UpToLimit
<1> QED  BY <1>1, LimitInvariant, PTL

----------------------------------------------------------------------------
(* planAllocations as the loop it is, for every list of grants and every
   charge.  SpendsInOrder and ShortfallOnlyWhenDrained are not inductive:
   both rest on LoopInv, which says how far the loop has got (positions not
   yet reached have paid nothing; while something is outstanding, every
   position already passed is empty). *)

(* Positions the loop has not reached have paid nothing. *)
Unreached == \A k \in DOMAIN offered : k >= i => take[ordered[k]] = 0

(* While something is outstanding, every position passed is empty. *)
PassedIsDrained ==
    outstanding > 0 =>
        \A k \in DOMAIN offered : k < i => take[ordered[k]] = offered[ordered[k]].remaining

(* In loop order, whoever paid has only empty grants before it. *)
PaidAfterDrained ==
    \A a, b \in DOMAIN offered :
        b < a /\ take[ordered[a]] > 0 => take[ordered[b]] = offered[ordered[b]].remaining

LoopInv ==
    /\ TypeOK
    /\ ordered \in StableSorts(offered)
    /\ WithinRemaining
    /\ Unreached
    /\ PassedIsDrained
    /\ PaidAfterDrained

----------------------------------------------------------------------------
(* A list of spendable grants, position by position. *)
LEMMA GrantFields ==
    ASSUME NEW gs \in Seq(SpendableGrant)
    PROVE  /\ DOMAIN gs = 1..Len(gs) /\ Len(gs) \in Nat
           /\ \A g \in DOMAIN gs : gs[g].bucket \in Buckets /\ gs[g].remaining \in Nat
<1>1. DOMAIN gs = 1..Len(gs) /\ Len(gs) \in Nat
  OBVIOUS
<1>2. \A g \in DOMAIN gs : gs[g] \in SpendableGrant
  OBVIOUS
<1> QED  BY <1>1, <1>2 DEF SpendableGrant

(* The drain order is strict: the sort never has to break a tie. *)
LEMMA DrainsBeforeStrict ==
    ASSUME NEW gs \in Seq(SpendableGrant),
           NEW g \in DOMAIN gs, NEW h \in DOMAIN gs,
           DrainsBefore(gs, g, h)
    PROVE  g # h /\ ~DrainsBefore(gs, h, g)
<1>1. gs[g].bucket \in Buckets /\ gs[h].bucket \in Buckets
  BY GrantFields
<1>2. SpendRank(gs[g].bucket) \in Int /\ SpendRank(gs[h].bucket) \in Int
  BY <1>1, SpendRankType
<1>3. g \in Int /\ h \in Int
  OBVIOUS
<1> QED  BY <1>2, <1>3 DEF DrainsBefore

(* The sorted copy lists every grant once. *)
LEMMA SortIsInjective ==
    ASSUME NEW gs \in Seq(SpendableGrant), NEW p \in StableSorts(gs),
           NEW a \in DOMAIN gs, NEW b \in DOMAIN gs, a # b
    PROVE  p[a] # p[b]
<1>1. p[a] \in DOMAIN gs /\ p[b] \in DOMAIN gs
  BY DEF StableSorts
<1>2. a \in Int /\ b \in Int
  OBVIOUS
<1>3. CASE a < b
  BY <1>1, <1>3, DrainsBeforeStrict DEF StableSorts
<1>4. CASE b < a
  BY <1>1, <1>4, DrainsBeforeStrict DEF StableSorts
<1> QED  BY <1>2, <1>3, <1>4

----------------------------------------------------------------------------
LEMMA InitLoopInv == Init => LoopInv
<1> SUFFICES ASSUME Init PROVE LoopInv
    OBVIOUS
<1>1. offered \in Seq(SpendableGrant) /\ credits \in Int
  BY InputsAssumption, ChargesAssumption DEF Init
<1>2. ordered \in StableSorts(offered) /\ ordered \in [DOMAIN offered -> DOMAIN offered]
  BY DEF Init, StableSorts
<1>3. TypeOK
  BY <1>1, <1>2 DEF Init, TypeOK, Opening, Greater
<1>4. \A g \in DOMAIN offered : offered[g].remaining \in Nat
  BY <1>1, GrantFields
<1>5. WithinRemaining
  BY <1>4 DEF Init, WithinRemaining
<1>6. Unreached /\ PaidAfterDrained
  BY <1>2 DEF Init, Unreached, PaidAfterDrained
<1>7. PassedIsDrained
  BY <1>1 DEF Init, PassedIsDrained
<1> QED  BY <1>2, <1>3, <1>5, <1>6, <1>7 DEF LoopInv

LEMMA NextLoopInv == LoopInv /\ [Next]_vars => LoopInv'
<1> SUFFICES ASSUME LoopInv, [Next]_vars PROVE LoopInv'
    OBVIOUS
<1> USE DEF LoopInv
<1>0. /\ offered \in Seq(SpendableGrant) /\ credits \in Int
      /\ ordered \in [DOMAIN offered -> DOMAIN offered]
      /\ i \in 1..(Len(offered) + 1) /\ outstanding \in Nat
      /\ take \in [DOMAIN offered -> Nat]
      /\ DOMAIN offered = 1..Len(offered) /\ Len(offered) \in Nat
      /\ \A g \in DOMAIN offered : offered[g].remaining \in Nat
  BY GrantFields DEF TypeOK
<1>1. CASE UNCHANGED vars
  BY <1>1 DEF vars, TypeOK, WithinRemaining, Unreached, PassedIsDrained, PaidAfterDrained
<1>2. CASE Draw
  <2> DEFINE g0 == ordered[i]
  <2>1. i \in DOMAIN offered /\ g0 \in DOMAIN offered /\ outstanding > 0
    BY <1>0, <1>2 DEF Draw, Iterating
  <2>2. /\ Due \in Nat /\ Due > 0 /\ Due <= offered[g0].remaining /\ Due <= outstanding
        /\ (outstanding - Due > 0 => Due = offered[g0].remaining)
    BY <1>0, <1>2, <2>1 DEF Draw, Due, Current, Take, Lesser
  <2>3. /\ take' = [take EXCEPT ![g0] = Due] /\ outstanding' = outstanding - Due
        /\ i' = i + 1 /\ UNCHANGED <<offered, credits, ordered>>
    BY <1>2 DEF Draw, Current
  <2> HIDE DEF g0
  <2>4. \A k \in DOMAIN offered : k # i => ordered[k] # g0
    BY <1>0, <2>1, SortIsInjective DEF g0
  <2>5. \A k \in DOMAIN offered : k # i => take'[ordered[k]] = take[ordered[k]]
    BY <1>0, <2>1, <2>3, <2>4
  <2>6. take'[g0] = Due
    BY <1>0, <2>1, <2>3
  <2>7. TypeOK'
    BY <1>0, <2>1, <2>2, <2>3 DEF TypeOK
  <2>8. WithinRemaining'
    BY <1>0, <2>1, <2>2, <2>3 DEF WithinRemaining
  <2>9. Unreached'
    <3> SUFFICES ASSUME NEW k \in DOMAIN offered, k >= i + 1 PROVE take'[ordered[k]] = 0
        BY <2>3 DEF Unreached
    <3>1. k # i /\ k >= i
      BY <1>0
    <3> QED  BY <2>5, <3>1 DEF Unreached
  <2>10. PassedIsDrained'
    <3> SUFFICES ASSUME outstanding - Due > 0, NEW k \in DOMAIN offered, k < i + 1
                 PROVE  take'[ordered[k]] = offered[ordered[k]].remaining
        BY <2>3 DEF PassedIsDrained
    <3>1. CASE k = i
      BY <2>2, <2>6, <3>1 DEF g0
    <3>2. CASE k # i
      <4>1. k < i
        BY <1>0, <3>2
      <4> QED  BY <2>1, <2>5, <3>2, <4>1 DEF PassedIsDrained
    <3> QED  BY <3>1, <3>2
  <2>11. PaidAfterDrained'
    <3> SUFFICES ASSUME NEW a \in DOMAIN offered, NEW b \in DOMAIN offered,
                        b < a, take'[ordered[a]] > 0
                 PROVE  take'[ordered[b]] = offered[ordered[b]].remaining
        BY <2>3 DEF PaidAfterDrained
    <3>1. CASE a = i
      <4>1. b # i /\ b < i
        BY <1>0, <3>1
      <4>2. take[ordered[b]] = offered[ordered[b]].remaining
        BY <2>1, <4>1 DEF PassedIsDrained
      <4> QED  BY <2>5, <4>1, <4>2
    <3>2. CASE a < i
      <4>1. b # i /\ b < i
        BY <1>0, <3>2
      <4> QED  BY <2>1, <2>5, <4>1 DEF PassedIsDrained
    <3>3. CASE a > i
      <4>1. a # i /\ a >= i
        BY <1>0, <3>3
      <4>2. take'[ordered[a]] = 0
        BY <2>5, <4>1 DEF Unreached
      <4> QED  BY <4>2
    <3> QED  BY <1>0, <3>1, <3>2, <3>3
  <2> QED  BY <2>3, <2>7, <2>8, <2>9, <2>10, <2>11
<1>3. CASE Skip
  <2>1. i \in DOMAIN offered /\ ordered[i] \in DOMAIN offered /\ outstanding > 0
    BY <1>0, <1>3 DEF Skip, Iterating
  <2>2. offered[ordered[i]].remaining = 0
    BY <1>0, <1>3, <2>1 DEF Skip, Due, Current, Take, Lesser
  <2>3. i' = i + 1 /\ UNCHANGED <<offered, credits, ordered, outstanding, take>>
    BY <1>3 DEF Skip
  <2>4. take[ordered[i]] = 0
    BY <1>0, <2>1 DEF Unreached
  <2>5. TypeOK' /\ WithinRemaining' /\ PaidAfterDrained'
    BY <1>0, <2>1, <2>3 DEF TypeOK, WithinRemaining, PaidAfterDrained
  <2>6. Unreached'
    BY <1>0, <2>3 DEF Unreached
  <2>7. PassedIsDrained'
    <3> SUFFICES ASSUME NEW k \in DOMAIN offered, k < i + 1
                 PROVE  take[ordered[k]] = offered[ordered[k]].remaining
        BY <2>1, <2>3 DEF PassedIsDrained
    <3>1. k = i \/ k < i
      BY <1>0
    <3> QED  BY <2>1, <2>2, <2>4, <3>1 DEF PassedIsDrained
  <2> QED  BY <2>3, <2>5, <2>6, <2>7
<1> QED  BY <1>1, <1>2, <1>3 DEF Next

THEOREM LoopInvariant == Spec => []LoopInv
  BY InitLoopInv, NextLoopInv, PTL DEF Spec

----------------------------------------------------------------------------
LEMMA LoopInvSpendsInOrder == LoopInv => SpendsInOrder
<1> SUFFICES ASSUME LoopInv, NEW g \in DOMAIN offered, NEW h \in DOMAIN offered,
                    take[g] > 0, DrainsBefore(offered, h, g)
             PROVE  take[h] = offered[h].remaining
    BY DEF SpendsInOrder
<1>1. PICK a \in DOMAIN offered : ordered[a] = g
  BY DEF LoopInv, StableSorts
<1>2. PICK b \in DOMAIN offered : ordered[b] = h
  BY DEF LoopInv, StableSorts
<1>3. offered \in Seq(SpendableGrant) /\ a \in Int /\ b \in Int
  BY DEF LoopInv, TypeOK
<1>4. a # b
  BY <1>1, <1>2, <1>3, DrainsBeforeStrict
<1>5. ~(a < b)
  BY <1>1, <1>2, <1>3, DrainsBeforeStrict DEF LoopInv, StableSorts
<1>6. b < a
  BY <1>3, <1>4, <1>5
<1> QED  BY <1>1, <1>2, <1>6 DEF LoopInv, PaidAfterDrained

LEMMA LoopInvShortfall == LoopInv => ShortfallOnlyWhenDrained
<1> SUFFICES ASSUME LoopInv, Returned, outstanding > 0, NEW g \in DOMAIN offered
             PROVE  take[g] = offered[g].remaining
    BY DEF ShortfallOnlyWhenDrained
<1>1. PICK a \in DOMAIN offered : ordered[a] = g
  BY DEF LoopInv, StableSorts
<1>2. a < i
  BY DEF LoopInv, TypeOK, Returned, Iterating
<1> QED  BY <1>1, <1>2 DEF LoopInv, PassedIsDrained

(* Type correctness of the loop; `outstanding` never goes below zero. *)
THEOREM SpendPlanTypeOK == Spec => []TypeOK
<1>1. LoopInv => TypeOK
  BY DEF LoopInv
<1> QED  BY <1>1, LoopInvariant, PTL

(* planAllocations never takes more from a grant than it was told is left. *)
THEOREM SpendPlanWithinRemaining == Spec => []WithinRemaining
<1>1. LoopInv => WithinRemaining
  BY DEF LoopInv
<1> QED  BY <1>1, LoopInvariant, PTL

(* planAllocations drains buckets in SPEND_ORDER, and the oldest grant first
   within a bucket, for every list of grants. *)
THEOREM SpendPlanOrder == Spec => []SpendsInOrder
  BY LoopInvSpendsInOrder, LoopInvariant, PTL

(* planAllocations leaves a charge unpaid only when every grant is empty. *)
THEOREM SpendPlanShortfall == Spec => []ShortfallOnlyWhenDrained
  BY LoopInvShortfall, LoopInvariant, PTL

(* The three promises in one, at every iteration and for every list of
   grants and every charge: what planAllocations' callers rely on. *)
THEOREM SpendPlanPromises == Spec => []PlanKeepsPromises
<1>1. LoopInv => PlanKeepsPromises
  BY LoopInvSpendsInOrder, LoopInvShortfall DEF LoopInv, PlanKeepsPromises
<1> QED  BY <1>1, LoopInvariant, PTL

(* The sums of what the grants hold and were made to pay. *)
LEMMA PlanSums ==
    ASSUME TypeOK
    PROVE  /\ IsFiniteSet(DOMAIN offered) /\ DOMAIN take = DOMAIN offered
           /\ \A g \in DOMAIN offered : take[g] \in Nat /\ offered[g].remaining \in Nat
           /\ SumFunctionOnSet(take, DOMAIN offered) \in Nat
<1>1. IsFiniteSet(DOMAIN offered)
  <2>1. DOMAIN offered = 1..Len(offered) /\ Len(offered) \in Nat
    BY GrantFields DEF TypeOK
  <2> QED  BY <2>1, FS_Interval
<1>2. \A g \in DOMAIN offered : take[g] \in Nat /\ offered[g].remaining \in Nat
  BY GrantFields DEF TypeOK
<1>3. SumFunctionOnSet(take, DOMAIN offered) \in Nat
  BY <1>1, <1>2, SumIsNat
<1> QED  BY <1>1, <1>2, <1>3 DEF TypeOK

(* What is paid and what is outstanding come to the charge. *)
LEMMA InitAccounts == Init => AccountsForCharge
<1> SUFFICES ASSUME Init PROVE AccountsForCharge
    OBVIOUS
<1>1. TypeOK
  BY InitLoopInv DEF LoopInv
<1>2. \A g \in DOMAIN offered : take[g] = 0
  BY DEF Init
<1>3. SumFunctionOnSet(take, DOMAIN offered) = 0
  BY <1>1, <1>2, PlanSums, SumOfZeros
<1>4. outstanding = Greater(0, credits) /\ credits \in Int
  BY <1>1 DEF Init, Opening, TypeOK
<1> QED  BY <1>1, <1>3, <1>4, PlanSums DEF AccountsForCharge, SumFunction, Greater

LEMMA NextAccounts == LoopInv /\ LoopInv' /\ AccountsForCharge /\ [Next]_vars => AccountsForCharge'
<1> SUFFICES ASSUME LoopInv, LoopInv', AccountsForCharge, [Next]_vars PROVE AccountsForCharge'
    OBVIOUS
<1>1. CASE UNCHANGED vars \/ Skip
  BY <1>1 DEF vars, Skip, AccountsForCharge
<1>2. CASE Draw
  <2> DEFINE g0 == ordered[i]
             S == DOMAIN offered
  <2>1. /\ take' = [take EXCEPT ![g0] = Due] /\ outstanding' = outstanding - Due
        /\ UNCHANGED <<offered, credits>>
    BY <1>2 DEF Draw, Current
  <2>2. /\ i \in S /\ g0 \in S /\ take[g0] = 0 /\ outstanding \in Nat
    <3>1. i \in 1..Len(offered)
      BY <1>2 DEF Draw, Iterating, LoopInv, TypeOK
    <3>2. i \in DOMAIN offered /\ i >= i
      BY <3>1 DEF LoopInv, TypeOK
    <3> QED  BY <3>2 DEF LoopInv, TypeOK, Unreached
  <2>3. /\ IsFiniteSet(S) /\ DOMAIN take = S /\ DOMAIN take' = S
        /\ \A g \in S : take[g] \in Int /\ take'[g] \in Int
        /\ SumFunctionOnSet(take, S) \in Int
    <3>1. /\ IsFiniteSet(S) /\ DOMAIN take = S /\ SumFunctionOnSet(take, S) \in Nat
      BY PlanSums DEF LoopInv
    <3>2. take \in [S -> Nat] /\ take' \in [S -> Nat]
      BY <2>1 DEF LoopInv, TypeOK
    <3> QED  BY <3>1, <3>2
  <2>4. take'[g0] = Due /\ \A g \in S \ {g0} : take'[g] = take[g]
    BY <2>1, <2>2, <2>3
  <2> HIDE DEF g0, S
  <2>5. SumFunctionOnSet(take', S) = SumFunctionOnSet(take, S) + (take'[g0] - take[g0])
    BY <2>2, <2>3, <2>4, SumChanged
  <2>6. Due \in Int
    BY <2>2, <2>3, <2>4
  <2> QED  BY <2>1, <2>2, <2>3, <2>4, <2>5, <2>6 DEF AccountsForCharge, SumFunction
<1> QED  BY <1>1, <1>2 DEF Next

(* Grants that pay in order, no more than they hold and all of it if there is
   a shortfall pay what planAllocations has them pay. *)
LEMMA PromisesFixThePlan ==
    ASSUME LoopInv, AccountsForCharge, SpendsInOrder, ShortfallOnlyWhenDrained
    PROVE  LedgerPlanIsLoop
<1> SUFFICES ASSUME Returned
             PROVE  planAllocations(offered, DOMAIN offered,
                                    [g \in DOMAIN offered |-> offered[g].remaining],
                                    Greater(0, credits)) = {take}
    BY DEF LedgerPlanIsLoop
<1> DEFINE S == DOMAIN offered
           rem == [g \in S |-> offered[g].remaining]
           cost == Greater(0, credits)
           R == DrainOrder(offered, S)
           B(g) == Preceding(R, S, g)
           Sum(f, s) == SumFunctionOnSet(f, s)
<1>1. /\ IsFiniteSet(S) /\ S \subseteq Nat /\ DOMAIN take = S /\ rem \in [S -> Nat]
      /\ \A g \in S : take[g] \in Nat /\ rem[g] \in Nat /\ take[g] <= rem[g]
      /\ cost \in Nat /\ Drainable(offered, S) /\ outstanding \in Nat
  <2>1. offered \in Seq(SpendableGrant) /\ credits \in Int /\ outstanding \in Nat
    BY DEF LoopInv, TypeOK
  <2>2. S \subseteq Nat /\ \A g \in S : offered[g].bucket \in Buckets
    BY <2>1, GrantFields
  <2>3. cost \in Nat
    BY <2>1 DEF Greater
  <2> QED  BY <2>1, <2>2, <2>3, PlanSums DEF LoopInv, Drainable, WithinRemaining
<1>2. InOrder(R, S)
  BY <1>1, DrainOrderIsTotal
<1>3. /\ \A g, h \in S : take[g] > 0 /\ <<h, g>> \in R => take[h] = rem[h]
      /\ outstanding > 0 => \A g \in S : take[g] = rem[g]
  BY DEF SpendsInOrder, ShortfallOnlyWhenDrained, DrainOrder
<1>4. Sum(take, S) + outstanding = cost /\ Sum(take, S) \in Nat
  BY PlanSums DEF AccountsForCharge, SumFunction, LoopInv
<1>5. ASSUME NEW g \in S  PROVE DueAt(offered, S, rem, cost, g) = Greater(0, cost - Sum(rem, B(g)))
  BY DEF DueAt
<1> HIDE DEF rem, cost, S, R
<1>6. ASSUME NEW g \in S  PROVE take[g] = Take(Greater(0, cost - Sum(rem, B(g))), rem[g])
  <2> DEFINE A == B(g) \cup {g}
  <2>1. B(g) \subseteq S /\ g \notin B(g) /\ A \subseteq S /\ IsFiniteSet(B(g)) /\ IsFiniteSet(A)
        /\ g \in A /\ A \ {g} = B(g)
    <3>1. B(g) \subseteq S /\ g \notin B(g)
      BY <1>2 DEF Preceding, InOrder
    <3> QED  BY <1>1, <3>1, FS_Subset
  <2>2. \A h \in B(g) : <<h, g>> \in R
    BY DEF Preceding
  <2> DEFINE b == B(g)
  <2> HIDE DEF A, b
  <2>3. /\ Sum(rem, b) \in Nat /\ Sum(take, b) \in Nat /\ Sum(take, b) <= Sum(rem, b)
    <3>1. IsFiniteSet(b) /\ \A h \in b : rem[h] \in Nat /\ take[h] \in Nat /\ take[h] <= rem[h]
      BY <1>1, <2>1 DEF b
    <3>2. Sum(rem, b) \in Nat
      BY <3>1, SumIsNat
    <3>3. Sum(take, b) \in Nat
      BY <3>1, SumIsNat
    <3>4. \A h \in b : take[h] \in Int /\ rem[h] \in Int /\ take[h] <= rem[h]
      BY <3>1
    <3>5. Sum(take, b) <= Sum(rem, b)
      BY <3>1, <3>4, SumGrows
    <3> QED  BY <3>2, <3>3, <3>5
  <2>4. Sum(take, A) = take[g] + Sum(take, b)
    <3>1. IsFiniteSet(A) /\ (\A h \in A : take[h] \in Int) /\ g \in A /\ A \ {g} = b
      BY <1>1, <2>1 DEF b
    <3> QED  BY <3>1, SumWithout
  <2>5. Sum(take, A) <= Sum(take, S)
    BY <1>1, <2>1, SumOfMore
  <2>6. take[g] > 0 => Sum(take, b) = Sum(rem, b)
    <3> SUFFICES ASSUME take[g] > 0  PROVE Sum(take, b) = Sum(rem, b)
      OBVIOUS
    <3>1. IsFiniteSet(b) /\ \A h \in b : take[h] = rem[h]
      BY <1>3, <2>1, <2>2 DEF b
    <3> QED  BY <3>1, SumAgrees
  <2>7. take[g] < rem[g] => outstanding = 0 /\ Sum(take, S) = Sum(take, A)
    <3> SUFFICES ASSUME take[g] < rem[g]  PROVE outstanding = 0 /\ Sum(take, S) = Sum(take, A)
      OBVIOUS
    <3>1. outstanding = 0
      BY <1>1, <1>3
    <3>2. \A h \in S \ A : take[h] = 0
      <4> SUFFICES ASSUME NEW h \in S \ A, take[h] > 0  PROVE FALSE
        BY <1>1
      <4>1. <<g, h>> \in R
        BY <1>2, <2>1 DEF InOrder, A, Preceding
      <4> QED  BY <1>1, <1>3, <4>1
    <3>3. \A h \in S : take[h] \in Int
      BY <1>1
    <3>4. Sum(take, S) = Sum(take, A)
      BY <1>1, <2>1, <3>2, <3>3, SumOfPart
    <3> QED  BY <3>1, <3>4
  <2>8. take[g] \in Nat /\ rem[g] \in Nat /\ take[g] <= rem[g] /\ cost \in Nat
    BY <1>1
  <2>9. take[g] = Take(Greater(0, cost - Sum(rem, b)), rem[g])
    <3> HIDE DEF Sum, B
    <3>1. CASE take[g] < rem[g]
      <4>1. cost = take[g] + Sum(take, b)
        BY <1>4, <2>4, <2>7, <2>3, <2>8, <3>1
      <4> QED  BY <4>1, <2>3, <2>6, <2>8, <3>1 DEF Take, Greater, Lesser
    <3>2. CASE take[g] = rem[g]
      <4>1. cost >= take[g] + Sum(take, b)
        BY <1>1, <1>4, <2>4, <2>5, <2>3, <2>8
      <4> QED  BY <4>1, <2>3, <2>6, <2>8, <3>2 DEF Take, Greater, Lesser
    <3> QED  BY <2>8, <3>1, <3>2
  <2> QED  BY <2>9 DEF b
<1>7. \A g \in S : take[g] = Take(DueAt(offered, S, rem, cost, g), rem[g])
  <2> HIDE DEF B, Sum
  <2> QED  BY <1>5, <1>6
<1>8. take \in [S -> Nat]
  BY DEF LoopInv, TypeOK, S
<1>9. planAllocations(offered, S, rem, cost) = {take}
  <2> HIDE DEF B, Sum
  <2>1. Drainable(offered, S)
    BY <1>1
  <2>2. rem \in [S -> Nat]
    BY <1>1
  <2>3. cost \in Nat
    BY <1>1
  <2> QED  BY <2>1, <2>2, <2>3, <1>7, <1>8, PlanIsUnique
<1> QED  BY <1>9 DEF S, rem, cost

(* The loop, the charge it accounts for and the promises. *)
THEOREM SpendPlanAccounts == Spec => [](LedgerPlanIsLoop /\ AccountsForCharge)
<1>1. Init => LoopInv /\ AccountsForCharge
  BY InitLoopInv, InitAccounts
<1>2. (LoopInv /\ AccountsForCharge) /\ [Next]_vars => (LoopInv /\ AccountsForCharge)'
  BY NextLoopInv, NextAccounts
<1>3. LoopInv /\ AccountsForCharge => LedgerPlanIsLoop
  BY LoopInvSpendsInOrder, LoopInvShortfall, PromisesFixThePlan
<1> QED  BY <1>1, <1>2, <1>3, PTL DEF Spec

----------------------------------------------------------------------------
(* The migration of the ledger.  While it is done the figures are multiples
   of FACTOR, and what was found, in the new unit, is what they come to:
   only then does dividing them again restore it. *)
Redenominates ==
    /\ \A g \in OldGrants : \E c \in Nat : owned[g].credits = c * FACTOR
    /\ \A w \in Tenant : \E u \in Nat : used[w] = u * FACTOR
    /\ \A w \in Tenant : before[w] * FACTOR = OldBalance(w)

MigrationInv ==
    /\ RedenominationTypeOK
    /\ version = "new" => Redenominates
    /\ version # "new" => \A w \in Tenant : before[w] = OldBalance(w)
    /\ BalancesSurvive

(* The grants of a workspace, and what they come to. *)
LEMMA TenantGrants ==
    ASSUME RedenominationTypeOK, NEW w \in Tenant
    PROVE  /\ IsFiniteSet(GrantsOf(w)) /\ GrantsOf(w) \subseteq OldGrants
           /\ \A g \in OldGrants : owned[g].credits \in Nat /\ owned[g].createdAt \in Nat
           /\ GrantedTo(w) \in Int /\ used[w] \in Nat /\ before[w] \in Int
<1>1. IsFiniteSet(GrantsOf(w)) /\ GrantsOf(w) \subseteq OldGrants
  BY RedenominationAssumption, FS_Subset DEF GrantsOf
<1>2. \A g \in OldGrants : owned[g].credits \in Nat /\ owned[g].createdAt \in Nat
  BY DEF RedenominationTypeOK
<1> DEFINE f == [g \in GrantsOf(w) |-> owned[g].credits]
<1>3. DOMAIN f = GrantsOf(w) /\ \A g \in GrantsOf(w) : f[g] \in Int
  BY <1>1, <1>2
<1>4. SumFunction(f) \in Int
  <2> HIDE DEF f
  <2> QED  BY <1>1, <1>3, SumIsInt DEF SumFunction
<1> QED  BY <1>1, <1>2, <1>4 DEF GrantedTo, RedenominationTypeOK

(* Before it starts, a balance is what it was found to be. *)
LEMMA InitMigrationInv == RedenominationInit => MigrationInv
<1> SUFFICES ASSUME RedenominationInit PROVE MigrationInv
    OBVIOUS
<1>1. version = "old" /\ backfilled \in [OldGrants -> Nat]
      /\ owned \in [OldGrants -> [workspaceId : Tenant, credits : Nat, createdAt : Nat]]
      /\ used \in [Tenant -> Nat]
  BY RedenominationAssumption DEF RedenominationInit
<1>2. \A w \in Tenant : before[w] = OldBalance(w)
  BY DEF RedenominationInit
<1>3. before \in [Tenant -> Int]
  <2>1. ASSUME NEW w \in Tenant  PROVE OldBalance(w) \in Int
    <3> DEFINE f == [g \in GrantsOf(w) |-> owned[g].credits]
    <3>1. IsFiniteSet(GrantsOf(w))
      BY RedenominationAssumption, FS_Subset DEF GrantsOf
    <3>2. DOMAIN f = GrantsOf(w) /\ \A g \in GrantsOf(w) : f[g] \in Int
      BY <1>1 DEF GrantsOf
    <3>3. SumFunction(f) \in Int
      <4> HIDE DEF f
      <4> QED  BY <3>1, <3>2, SumIsInt DEF SumFunction
    <3> QED  BY <1>1, <3>3 DEF OldBalance, GrantedTo
  <2> QED  BY <2>1 DEF RedenominationInit
<1> QED  BY <1>1, <1>2, <1>3 DEF MigrationInv, RedenominationTypeOK, BalancesSurvive

(* The order in which a workspace's grants absorb what it had spent. *)
AgeOrder(w) == {p \in GrantsOf(w) \X GrantsOf(w) : OlderThan(p[1], p[2])}

(* The grants of a workspace have an oldest, a second oldest, and so on. *)
LEMMA AgeOrderIsTotal ==
    ASSUME RedenominationTypeOK, NEW w \in Tenant
    PROVE  /\ InOrder(AgeOrder(w), GrantsOf(w))
           /\ \A g \in GrantsOf(w) : {h \in OldGrants : OlderThan(h, g)}
                                       = Preceding(AgeOrder(w), GrantsOf(w), g)
<1>1. \A g \in GrantsOf(w) : g \in Nat /\ owned[g].createdAt \in Nat /\ owned[g].workspaceId = w
  BY RedenominationAssumption, TenantGrants DEF GrantsOf
<1>2. \A g \in GrantsOf(w) : <<g, g>> \notin AgeOrder(w)
  BY <1>1 DEF AgeOrder, OlderThan
<1>3. \A g, h, k \in GrantsOf(w) :
        <<g, h>> \in AgeOrder(w) /\ <<h, k>> \in AgeOrder(w) => <<g, k>> \in AgeOrder(w)
  BY <1>1 DEF AgeOrder, OlderThan
<1>4. \A g, h \in GrantsOf(w) : g = h \/ <<g, h>> \in AgeOrder(w) \/ <<h, g>> \in AgeOrder(w)
  BY <1>1 DEF AgeOrder, OlderThan
<1>5. \A g \in GrantsOf(w) : {h \in OldGrants : OlderThan(h, g)}
                               = Preceding(AgeOrder(w), GrantsOf(w), g)
  BY DEF AgeOrder, OlderThan, Preceding, GrantsOf
<1> QED  BY <1>2, <1>3, <1>4, <1>5 DEF InOrder

(* What is older than a grant, in the new unit. *)
LEMMA PriorSums ==
    ASSUME RedenominationTypeOK, NEW g \in OldGrants
    PROVE  /\ IsFiniteSet({h \in OldGrants : OlderThan(h, g)})
           /\ \A h \in OldGrants : Redenominated[h] \in Nat
           /\ Prior(g) \in Nat
<1>1. IsFiniteSet({h \in OldGrants : OlderThan(h, g)})
  BY RedenominationAssumption, FS_Subset
<1>2. \A h \in OldGrants : Redenominated[h] \in Nat
  BY RedenominationAssumption DEF RedenominationTypeOK, Redenominated
<1>3. \A h \in {k \in OldGrants : OlderThan(k, g)} : Redenominated[h] \in Nat
  BY <1>2
<1> QED  BY <1>1, <1>2, <1>3, SumIsNat DEF Prior

(* Up: a workspace's grants absorb what it had spent in order of age, each
   as much as it holds, so together that or all they hold. *)
LEMMA MigrateUpInv == MigrationInv /\ MigrateUp => MigrationInv'
<1> SUFFICES ASSUME MigrationInv, MigrateUp  PROVE MigrationInv'
    OBVIOUS
<1>0. /\ RedenominationTypeOK /\ FACTOR \in Nat /\ FACTOR > 0
      /\ \A w \in Tenant : before[w] = OldBalance(w)
  BY RedenominationAssumption DEF MigrationInv, MigrateUp
<1>1. /\ version' = "new" /\ before' = before
      /\ used' = [w \in Tenant |-> used[w] * FACTOR]
      /\ backfilled' = [g \in OldGrants |-> Backfill(g)]
      /\ \A g \in OldGrants : /\ owned'[g].credits = Redenominated[g]
                              /\ Redenominated[g] = owned[g].credits * FACTOR
                              /\ owned'[g].workspaceId = owned[g].workspaceId
                              /\ owned'[g].createdAt = owned[g].createdAt
  <2>1. owned' = [g \in OldGrants |-> [owned[g] EXCEPT !.credits = Redenominated[g]]]
    BY DEF MigrateUp
  <2>2. \A g \in OldGrants : owned[g] \in [workspaceId : Tenant, credits : Nat, createdAt : Nat]
    BY <1>0 DEF RedenominationTypeOK
  <2> QED  BY <2>1, <2>2 DEF MigrateUp, Redenominated
<1>2. \A g \in OldGrants : Backfill(g) \in Nat
  <2> SUFFICES ASSUME NEW g \in OldGrants  PROVE Backfill(g) \in Nat
    OBVIOUS
  <2>1. used[owned[g].workspaceId] \in Nat
    BY <1>0 DEF RedenominationTypeOK
  <2>2. used[owned[g].workspaceId] * FACTOR \in Nat
    BY <1>0, <2>1
  <2>3. Prior(g) \in Nat /\ Redenominated[g] \in Nat
    BY <1>0, PriorSums
  <2> QED  BY <2>2, <2>3 DEF Backfill
<1>3. RedenominationTypeOK'
  <2>1. used' \in [Tenant -> Nat]
    BY <1>0, <1>1 DEF RedenominationTypeOK
  <2>2. owned' \in [OldGrants -> [workspaceId : Tenant, credits : Nat, createdAt : Nat]]
    <3>1. \A g \in OldGrants : Redenominated[g] \in Nat
      BY <1>0, PriorSums
    <3>2. owned' = [g \in OldGrants |-> [owned[g] EXCEPT !.credits = Redenominated[g]]]
      BY DEF MigrateUp
    <3>3. \A g \in OldGrants : owned[g] \in [workspaceId : Tenant, credits : Nat, createdAt : Nat]
      BY <1>0 DEF RedenominationTypeOK
    <3> QED  BY <3>1, <3>2, <3>3
  <2> QED  BY <1>0, <1>1, <1>2, <2>1, <2>2 DEF RedenominationTypeOK
<1>4. ASSUME NEW w \in Tenant
      PROVE  /\ GrantsOf(w)' = GrantsOf(w)
             /\ GrantedTo(w)' = SumFunctionOnSet(Redenominated, GrantsOf(w))
             /\ GrantedTo(w)' = GrantedTo(w) * FACTOR
             /\ DrawnFrom(w)' = SumFunctionOnSet(backfilled', GrantsOf(w))
  <2>1. GrantsOf(w)' = GrantsOf(w)
    BY <1>1 DEF GrantsOf
  <2> DEFINE f == [g \in GrantsOf(w) |-> owned[g].credits]
             h == [g \in GrantsOf(w) |-> owned'[g].credits]
  <2>2. /\ IsFiniteSet(GrantsOf(w)) /\ GrantsOf(w) \subseteq OldGrants
        /\ DOMAIN f = GrantsOf(w) /\ DOMAIN h = GrantsOf(w)
        /\ \A g \in GrantsOf(w) : f[g] \in Int /\ h[g] = Redenominated[g] /\ h[g] = f[g] * FACTOR
    BY <1>0, <1>1, TenantGrants
  <2>3. GrantedTo(w) = SumFunctionOnSet(f, GrantsOf(w)) /\ GrantedTo(w)' = SumFunctionOnSet(h, GrantsOf(w))
    BY <2>1, <2>2 DEF GrantedTo, SumFunction
  <2> HIDE DEF f, h
  <2>4. SumFunctionOnSet(h, GrantsOf(w)) = SumFunctionOnSet(f, GrantsOf(w)) * FACTOR
    BY <1>0, <2>2, SumOfMultiples
  <2>5. SumFunctionOnSet(h, GrantsOf(w)) = SumFunctionOnSet(Redenominated, GrantsOf(w))
    BY <2>2, SumAgrees
  <2> QED  BY <2>1, <2>3, <2>4, <2>5 DEF DrawnFrom
<1>5. ASSUME NEW w \in Tenant
      PROVE  /\ before'[w] * FACTOR = OldBalance(w)'
             /\ NewBalance(w)' = IF before'[w] > 0 THEN before'[w] * FACTOR ELSE 0
  <2> DEFINE S == GrantsOf(w)
             wanted == used[w] * FACTOR
             all == SumFunctionOnSet(Redenominated, S)
  <2>1. /\ IsFiniteSet(S) /\ S \subseteq OldGrants /\ InOrder(AgeOrder(w), S)
        /\ used[w] \in Nat /\ wanted \in Nat /\ GrantedTo(w) \in Int /\ before[w] \in Int
    BY <1>0, TenantGrants, AgeOrderIsTotal
  <2>2. \A g \in S : Redenominated[g] \in Nat
    BY <1>0, <2>1, PriorSums
  <2>3. ASSUME NEW g \in S
        PROVE  LET left == wanted - SumFunctionOnSet(Redenominated, Preceding(AgeOrder(w), S, g))
               IN  backfilled'[g] = IF left <= 0 THEN 0
                                    ELSE IF left < Redenominated[g] THEN left ELSE Redenominated[g]
    <3>1. {h \in OldGrants : OlderThan(h, g)} = Preceding(AgeOrder(w), S, g)
      BY <1>0, AgeOrderIsTotal
    <3>2. owned[g].workspaceId = w /\ backfilled'[g] = Backfill(g)
      BY <1>1, <2>1 DEF GrantsOf
    <3> QED  BY <3>1, <3>2 DEF Backfill, Prior
  <2> HIDE DEF S, wanted
  <2>4. SumFunctionOnSet(backfilled', S)
          = IF wanted <= SumFunctionOnSet(Redenominated, S) THEN wanted
            ELSE SumFunctionOnSet(Redenominated, S)
    BY <2>1, <2>2, <2>3, TakenInOrder
  <2>5. all = GrantedTo(w) * FACTOR /\ DrawnFrom(w)' = SumFunctionOnSet(backfilled', S)
        /\ GrantedTo(w)' = all
    BY <1>4 DEF S
  <2>6. before[w] = GrantedTo(w) - used[w] /\ before'[w] = before[w] /\ used'[w] = wanted
    BY <1>0, <1>1 DEF OldBalance, wanted
  <2>7. before[w] * FACTOR = GrantedTo(w) * FACTOR - used[w] * FACTOR
        /\ (before[w] > 0 <=> GrantedTo(w) * FACTOR > used[w] * FACTOR)
    <3>1. \A a, b, c \in Int : (a - b) * c = a * c - b * c
      OBVIOUS
    <3>2. before[w] * FACTOR = GrantedTo(w) * FACTOR - used[w] * FACTOR
      BY <1>0, <2>1, <2>6, <3>1
    <3>3. before[w] > 0 => before[w] * FACTOR > 0
      BY <1>0, <2>1
    <3>4. before[w] <= 0 => before[w] * FACTOR <= 0
      BY <1>0, <2>1
    <3>5. before[w] * FACTOR \in Int /\ GrantedTo(w) * FACTOR \in Int /\ used[w] * FACTOR \in Int
      BY <1>0, <2>1
    <3> QED  BY <2>1, <3>2, <3>3, <3>4, <3>5
  <2>8. before[w] * FACTOR \in Int /\ GrantedTo(w) * FACTOR \in Int
    BY <1>0, <2>1
  <2>9. OldBalance(w)' = all - wanted /\ NewBalance(w)' = all - SumFunctionOnSet(backfilled', S)
    BY <2>5, <2>6 DEF OldBalance, NewBalance
  <2>10. wanted = used[w] * FACTOR
    BY DEF wanted
  <2> HIDE DEF all
  <2> QED  BY <2>1, <2>4, <2>5, <2>6, <2>7, <2>8, <2>9, <2>10 DEF all
<1>6. ASSUME NEW g \in OldGrants, NEW h \in OldGrants, OlderThan(g, h), Backfill(h) > 0
      PROVE  Backfill(g) = Redenominated[g]
  <2> DEFINE Older(k) == {j \in OldGrants : OlderThan(j, k)}
             all == used[owned[g].workspaceId] * FACTOR
  <2>1. owned[g].workspaceId = owned[h].workspaceId
    BY <1>6 DEF OlderThan
  <2>2. g \notin Older(g) /\ Older(g) \cup {g} \subseteq Older(h)
    <3>1. \A k \in OldGrants : k \in Nat /\ owned[k].createdAt \in Nat
      BY <1>0, RedenominationAssumption DEF RedenominationTypeOK
    <3> QED  BY <1>6, <3>1 DEF OlderThan
  <2>3. /\ IsFiniteSet(Older(g)) /\ IsFiniteSet(Older(h))
        /\ \A k \in OldGrants : Redenominated[k] \in Nat
        /\ Prior(g) \in Nat /\ Prior(h) \in Nat
        /\ Prior(g) = SumFunctionOnSet(Redenominated, Older(g))
        /\ Prior(h) = SumFunctionOnSet(Redenominated, Older(h))
    BY <1>0, PriorSums DEF Prior
  <2>4. Older(h) \subseteq OldGrants /\ Older(g) \subseteq OldGrants
    OBVIOUS
  <2>5. all \in Nat
    <3>1. used[owned[g].workspaceId] \in Nat
      BY <1>0 DEF RedenominationTypeOK
    <3> QED  BY <1>0, <3>1
  <2>6. Backfill(h) > 0 => all - Prior(h) > 0
    BY <2>1, <2>3, <2>5 DEF Backfill
  <2>7. Backfill(g) = IF all - Prior(g) <= 0 THEN 0
                      ELSE IF all - Prior(g) < Redenominated[g] THEN all - Prior(g)
                      ELSE Redenominated[g]
    BY DEF Backfill
  <2> DEFINE mine == Older(g) \cup {g}
  <2> HIDE DEF Older, all
  <2>8. SumFunctionOnSet(Redenominated, Older(g) \cup {g}) = Redenominated[g] + Prior(g)
    <3>1. \A k \in Older(g) : Redenominated[k] \in Int
      BY <2>3, <2>4
    <3>2. Redenominated[g] \in Int
      BY <2>3
    <3> QED  BY <2>2, <2>3, <3>1, <3>2, SumWith
  <2>9. SumFunctionOnSet(Redenominated, mine) <= SumFunctionOnSet(Redenominated, Older(h))
    <3>1. mine \subseteq Older(h) /\ \A k \in Older(h) : Redenominated[k] \in Nat
      BY <2>2, <2>3, <2>4
    <3> HIDE DEF mine
    <3> QED  BY <2>3, <3>1, SumOfMore
  <2> QED  BY <1>6, <2>3, <2>5, <2>6, <2>7, <2>8, <2>9
<1>7. BalancesSurvive'
  <2>1. \A g, h \in OldGrants : OlderThan(g, h)' => OlderThan(g, h)
    BY <1>1 DEF OlderThan
  <2>2. ASSUME NEW g \in OldGrants, NEW h \in OldGrants, OlderThan(g, h)', backfilled'[h] > 0
        PROVE  backfilled'[g] = owned'[g].credits
    BY <1>1, <1>6, <2>1, <2>2
  <2> QED  BY <1>1, <1>5, <2>2 DEF BalancesSurvive
<1>8. Redenominates'
  <2>1. \A g \in OldGrants : \E c \in Nat : owned'[g].credits = c * FACTOR
    BY <1>0, <1>1 DEF RedenominationTypeOK
  <2>2. \A w \in Tenant : \E u \in Nat : used'[w] = u * FACTOR
    BY <1>0, <1>1 DEF RedenominationTypeOK
  <2> QED  BY <1>5, <2>1, <2>2 DEF Redenominates
<1> QED  BY <1>1, <1>3, <1>7, <1>8 DEF MigrationInv

(* Down: nothing is lost by dividing multiples of FACTOR. *)
LEMMA MigrateDownInv == MigrationInv /\ MigrateDown => MigrationInv'
<1> SUFFICES ASSUME MigrationInv, MigrateDown  PROVE MigrationInv'
    OBVIOUS
<1>0. /\ RedenominationTypeOK /\ FACTOR \in Nat /\ FACTOR > 0 /\ Redenominates
  BY RedenominationAssumption DEF MigrationInv, MigrateDown
<1>1. /\ version' = "reverted" /\ before' = before
      /\ used' = [w \in Tenant |-> used[w] \div FACTOR]
      /\ backfilled' = [g \in OldGrants |-> 0]
      /\ owned' = [g \in OldGrants |-> [owned[g] EXCEPT !.credits = owned[g].credits \div FACTOR]]
  BY DEF MigrateDown
<1>2. \A c \in Nat : (c * FACTOR) \div FACTOR = c
  BY <1>0
<1>3. ASSUME NEW g \in OldGrants
      PROVE  /\ owned'[g].workspaceId = owned[g].workspaceId
             /\ owned'[g] \in [workspaceId : Tenant, credits : Nat, createdAt : Nat]
             /\ owned[g].credits = owned'[g].credits * FACTOR
             /\ owned'[g].credits \in Nat
  <2>1. owned[g] \in [workspaceId : Tenant, credits : Nat, createdAt : Nat]
    BY <1>0 DEF RedenominationTypeOK
  <2>2. PICK c \in Nat : owned[g].credits = c * FACTOR
    BY <1>0 DEF Redenominates
  <2>3. owned[g].credits \div FACTOR = c
    BY <1>2, <2>2
  <2>4. owned'[g] = [owned[g] EXCEPT !.credits = c]
    BY <1>1, <2>3
  <2> QED  BY <2>1, <2>2, <2>4
<1>4. ASSUME NEW w \in Tenant  PROVE used'[w] \in Nat /\ used[w] = used'[w] * FACTOR
  <2>1. PICK u \in Nat : used[w] = u * FACTOR
    BY <1>0 DEF Redenominates
  <2> QED  BY <1>1, <1>2, <2>1
<1>5. RedenominationTypeOK'
  <2>1. used' \in [Tenant -> Nat] /\ backfilled' \in [OldGrants -> Nat]
    BY <1>1, <1>4
  <2>2. owned' \in [OldGrants -> [workspaceId : Tenant, credits : Nat, createdAt : Nat]]
    BY <1>1, <1>3
  <2> QED  BY <1>0, <1>1, <2>1, <2>2 DEF RedenominationTypeOK
<1>6. ASSUME NEW w \in Tenant  PROVE before'[w] = OldBalance(w)'
  <2> DEFINE f == [g \in GrantsOf(w) |-> owned[g].credits]
             h == [g \in GrantsOf(w) |-> owned'[g].credits]
  <2>1. GrantsOf(w)' = GrantsOf(w)
    BY <1>3 DEF GrantsOf
  <2>2. /\ IsFiniteSet(GrantsOf(w)) /\ GrantsOf(w) \subseteq OldGrants
        /\ DOMAIN f = GrantsOf(w) /\ DOMAIN h = GrantsOf(w)
        /\ \A g \in GrantsOf(w) : h[g] \in Int /\ f[g] = h[g] * FACTOR
    BY <1>0, <1>3, TenantGrants
  <2>3. GrantedTo(w) = SumFunctionOnSet(f, GrantsOf(w)) /\ GrantedTo(w)' = SumFunctionOnSet(h, GrantsOf(w))
    BY <2>1, <2>2 DEF GrantedTo, SumFunction
  <2> HIDE DEF f, h
  <2>4. SumFunctionOnSet(f, GrantsOf(w)) = SumFunctionOnSet(h, GrantsOf(w)) * FACTOR
    BY <1>0, <2>2, SumOfMultiples
  <2>5. SumFunctionOnSet(h, GrantsOf(w)) \in Int
    BY <2>2, SumIsInt
  <2> DEFINE a == SumFunctionOnSet(h, GrantsOf(w))
             u == used'[w]
             b == before[w]
  <2>6. a \in Int /\ u \in Int /\ b \in Int /\ GrantedTo(w)' = a
    BY <1>0, <1>4, <2>3, <2>5, TenantGrants
  <2>7. b * FACTOR = a * FACTOR - u * FACTOR
    BY <1>0, <1>4, <2>3, <2>4 DEF Redenominates, OldBalance
  <2> HIDE DEF a, u, b
  <2>8. b = a - u
    <3>1. a * FACTOR - u * FACTOR = (a - u) * FACTOR
      BY <1>0, <2>6
    <3>2. \A x, y \in Int : x * FACTOR = y * FACTOR => x = y
      BY <1>0
    <3> QED  BY <2>6, <2>7, <3>1, <3>2
  <2> QED  BY <1>1, <2>6, <2>8 DEF OldBalance, a, u, b
<1> QED  BY <1>1, <1>5, <1>6 DEF MigrationInv, BalancesSurvive

LEMMA MigrationStep == MigrationInv /\ [RedenominationNext]_migrationVars => MigrationInv'
<1> SUFFICES ASSUME MigrationInv, UNCHANGED migrationVars  PROVE MigrationInv'
  BY MigrateUpInv, MigrateDownInv DEF RedenominationNext
<1>1. /\ RedenominationTypeOK' /\ version' = version /\ before' = before /\ used' = used
      /\ owned' = owned /\ backfilled' = backfilled
  BY DEF MigrationInv, migrationVars, RedenominationTypeOK
<1>2. \A w \in Tenant : OldBalance(w)' = OldBalance(w) /\ NewBalance(w)' = NewBalance(w)
  BY <1>1 DEF OldBalance, NewBalance, GrantedTo, DrawnFrom, GrantsOf
<1>3. \A g, h \in OldGrants : OlderThan(g, h)' <=> OlderThan(g, h)
  BY <1>1 DEF OlderThan
<1>4. version = "new" => Redenominates'
  BY <1>1, <1>2 DEF MigrationInv, Redenominates
<1>5. BalancesSurvive'
  BY <1>1, <1>2, <1>3 DEF MigrationInv, BalancesSurvive
<1> QED  BY <1>1, <1>2, <1>4, <1>5 DEF MigrationInv

(* SubscriptionCreditModel redenominates every balance and loses none, and
   reverting it restores what was there, for any grants and any usage. *)
THEOREM MigrationKeepsBalances == RedenominationSpec => []BalancesSurvive
<1>1. MigrationInv => BalancesSurvive
  BY DEF MigrationInv
<1> QED  BY <1>1, InitMigrationInv, MigrationStep, PTL DEF RedenominationSpec

-----------------------------------------------------------------------------
(* The spending report.  Its queries are answered one by one while events are *)
(* metered and tasks deleted: each answer is one sum over the events of the   *)
(* window, sorted in a way of its own, so on one table they have one total.   *)

(* The later of two instants is not of an earlier day. *)
LEMMA DayOfGrows ==
    ASSUME NEW a \in Nat, NEW b \in Nat, a <= b
    PROVE  DayOf(a) \in Nat /\ DayOf(b) \in Nat /\ DayOf(a) <= DayOf(b)
<1> DEFINE x == DayOf(a)
           y == DayOf(b)
<1>1. x \in Nat /\ y \in Nat /\ DayLength * x <= a /\ b < DayLength * y + DayLength
  BY DivBounds, DayAssumption DEF DayOf
<1> HIDE DEF x, y
<1>2. DayLength * x < DayLength * (y + 1)
  BY <1>1, DayAssumption
<1>3. ASSUME y + 1 <= x  PROVE FALSE
  <2>1. PICK k \in Nat : x = (y + 1) + k
    BY <1>1, <1>3, x - (y + 1) \in Nat, x = (y + 1) + (x - (y + 1))
  <2>2. DayLength * x = DayLength * (y + 1) + DayLength * k /\ DayLength * k \in Nat
    BY <2>1, <1>1, DayAssumption
  <2> QED  BY <1>1, <1>2, <2>2, DayAssumption
<1>4. x <= y
  BY <1>1, <1>3
<1> QED  BY <1>1, <1>4 DEF x, y

(* A row of the table of events. *)
Metered == [at : Moments, kind : EventKinds, user : {e.user : e \in NewSpends},
            job : JobIds \cup {NoJob}, credits : Nat]

EventCredits == [e \in DOMAIN metered |-> metered[e].credits]

(* What an event of the table is. *)
LEMMA TableIsFinite ==
    ASSUME metered \in Seq(Metered)
    PROVE  /\ IsFiniteSet(DOMAIN metered)
           /\ \A e \in DOMAIN metered :
                /\ metered[e] \in Metered
                /\ metered[e].at \in Nat /\ metered[e].kind \in EventKinds
                /\ metered[e].credits \in Nat
                /\ DayOf(metered[e].at) \in Nat
<1>1. DOMAIN metered = 1..Len(metered) /\ Len(metered) \in Nat
  OBVIOUS
<1>2. IsFiniteSet(DOMAIN metered)
  BY <1>1, FS_Interval
<1>3. ASSUME NEW e \in DOMAIN metered
      PROVE  /\ metered[e] \in Metered
             /\ metered[e].at \in Nat /\ metered[e].kind \in EventKinds
             /\ metered[e].credits \in Nat
  <2>1. metered[e] \in Metered
    OBVIOUS
  <2> QED  BY <2>1, TableAssumption DEF Metered, Moments
<1>4. ASSUME NEW e \in DOMAIN metered  PROVE DayOf(metered[e].at) \in Nat
  BY <1>3, DivBounds, DayAssumption DEF DayOf
<1> QED  BY <1>2, <1>3, <1>4

(* What a query adds up. *)
LEMMA SpendIsSum ==
    ASSUME metered \in Seq(Metered), NEW es \in SUBSET DOMAIN metered
    PROVE  /\ IsFiniteSet(es)
           /\ Spend(es) = SumFunctionOnSet(EventCredits, es)
           /\ Spend(es) \in Nat
           /\ \A e \in es : EventCredits[e] \in Nat
<1>1. IsFiniteSet(es)
  BY TableIsFinite, FS_Subset
<1>2. \A e \in es : EventCredits[e] \in Nat
  BY TableIsFinite DEF EventCredits
<1>3. Spend(es) = SumFunctionOnSet(EventCredits, es)
  <2> DEFINE Own == [e \in es |-> metered[e].credits]
  <2>1. \A e \in es : Own[e] = EventCredits[e]
    BY DEF EventCredits
  <2>2. DOMAIN Own = es
    OBVIOUS
  <2>3. Spend(es) = SumFunctionOnSet(Own, es)
    BY <2>2, Zenon DEF Spend, SumFunction
  <2> HIDE DEF Own
  <2> QED  BY <1>1, <2>1, <2>3, SumAgrees
<1>4. SumFunctionOnSet(EventCredits, es) \in Nat
  BY <1>1, <1>2, SumIsNat
<1> QED  BY <1>1, <1>2, <1>3, <1>4

(* The values of a function on a finite set are finitely many. *)
LEMMA ImageIsFinite ==
    ASSUME NEW S, IsFiniteSet(S), NEW f, DOMAIN f = S, f = [x \in S |-> f[x]]
    PROVE  IsFiniteSet({f[x] : x \in S})
<1>1. f \in Surjection(S, {f[x] : x \in S})
  BY DEF Surjection
<1> QED  BY <1>1, FS_Surjection, Zenon

(* creditsByType, dailyUsageSplit and topSpenders add up to what the events of
   the window cost, the last one up to the rows it leaves out. *)
LEMMA TypesAddUp ==
    ASSUME metered \in Seq(Metered), NEW range
    PROVE  SumFunction(CreditsByType(range)) = Spend(Scoped(range))
<1> DEFINE S == Scoped(range)
           part == [e \in S |-> metered[e].kind]
           G == CreditsByType(range)
<1>1. S \in SUBSET DOMAIN metered
  BY DEF Scoped
<1>2. IsFiniteSet(S) /\ \A e \in S : EventCredits[e] \in Int
  <2> HIDE DEF S, part, G
  <2> QED  BY <1>1, SpendIsSum, SMTT(30)
<1>3. \A e \in S : part[e] \in EventKinds
  BY <1>1, TableIsFinite
<1>4. ASSUME NEW k \in EventKinds
      PROVE  G[k] = SumFunctionOnSet(EventCredits, {e \in S : part[e] = k})
  <2>1. {e \in S : part[e] = k} = {e \in Scoped(range) : metered[e].kind = k}
    OBVIOUS
  <2>2. G[k] = Spend({e \in Scoped(range) : metered[e].kind = k})
    BY DEF CreditsByType
  <2>3. {e \in Scoped(range) : metered[e].kind = k} \in SUBSET DOMAIN metered
    BY <1>1
  <2> QED  BY <2>1, <2>2, <2>3, SpendIsSum
<1>5. IsFiniteSet(EventKinds)
  <2>1. EventKinds = {"thread"} \cup {"scheduled_task"}
    BY DEF EventKinds
  <2>2. IsFiniteSet({"thread"})
    BY FS_Singleton
  <2> QED  BY <2>1, <2>2, FS_AddElement
<1>6. DOMAIN G = EventKinds
  BY DEF CreditsByType
<1>7. Spend(S) = SumFunctionOnSet(EventCredits, S)
  BY <1>1, SpendIsSum
<1>8. SumFunction(G) = SumFunctionOnSet(G, EventKinds)
  BY <1>6 DEF SumFunction
<1>9. SumFunctionOnSet(G, EventKinds) = SumFunctionOnSet(EventCredits, S)
  <2> DEFINE of == [k \in EventKinds |-> {e \in S : part[e] = k}]
  <2>1. \A k \in EventKinds : G[k] = SumFunctionOnSet(EventCredits, of[k])
    BY <1>4
  <2>2. \A k \in EventKinds : of[k] = {e \in S : part[e] = k}
    OBVIOUS
  <2> HIDE DEF S, part, G, of
  <2> QED  BY <1>2, <1>3, <1>5, <2>1, <2>2, SumOfSorted
<1> HIDE DEF S, part, G
<1> QED  BY <1>7, <1>8, <1>9 DEF S, G

LEMMA DaysAddUp ==
    ASSUME metered \in Seq(Metered), NEW range, range.from \in Nat, range.to \in Nat
    PROVE  LET daily == DailyUsage(range)
           IN  /\ SumOfDays(daily) = Spend(Scoped(range))
               /\ DOMAIN daily \subseteq SeriesDays(range)
               /\ daily = [d \in DOMAIN daily |-> daily[d]]
               /\ \A d \in DOMAIN daily : daily[d] \in [EventKinds -> Nat]
<1> DEFINE S == Scoped(range)
           part == [e \in S |-> DayOf(metered[e].at)]
           K == {part[e] : e \in S}
           On(d) == {e \in S : DayOf(metered[e].at) = d}
           Of(d, k) == {e \in S : DayOf(metered[e].at) = d /\ metered[e].kind = k}
           daily == DailyUsage(range)
           G == [d \in K |-> BarOf(daily[d])]
<1>1. S \in SUBSET DOMAIN metered
  BY DEF Scoped
<1>2. /\ IsFiniteSet(S) /\ \A e \in S : EventCredits[e] \in Int
      /\ Spend(S) = SumFunctionOnSet(EventCredits, S)
  <2> HIDE DEF S
  <2>1. /\ IsFiniteSet(S) /\ Spend(S) = SumFunctionOnSet(EventCredits, S)
        /\ \A e \in S : EventCredits[e] \in Nat
    BY <1>1, SpendIsSum, Zenon
  <2> QED  BY <2>1
<1>3. K = {DayOf(metered[e].at) : e \in S} /\ DOMAIN daily = K
  BY DEF DailyUsage
<1>4. IsFiniteSet(K)
  <2>1. DOMAIN part = S /\ part = [e \in S |-> part[e]]
    OBVIOUS
  <2> HIDE DEF part, S
  <2> QED  BY <1>2, <2>1, ImageIsFinite
<1>5. \A e \in S : part[e] \in K
  OBVIOUS
<1>6. ASSUME NEW d \in K
      PROVE  /\ daily[d] = [k \in EventKinds |-> Spend(Of(d, k))]
             /\ daily[d] \in [EventKinds -> Nat]
             /\ G[d] = SumFunctionOnSet(EventCredits, {e \in S : part[e] = d})
  <2>1. daily[d] = [k \in EventKinds |-> Spend(Of(d, k))]
    BY <1>3 DEF DailyUsage
  <2>2. ASSUME NEW k \in EventKinds
        PROVE  /\ IsFiniteSet(Of(d, k)) /\ Spend(Of(d, k)) = SumFunctionOnSet(EventCredits, Of(d, k))
               /\ Spend(Of(d, k)) \in Nat
    <3>1. Of(d, k) \in SUBSET DOMAIN metered
      BY <1>1
    <3> HIDE DEF Of
    <3> QED  BY <3>1, SpendIsSum
  <2> DEFINE A == Of(d, "thread")
             B == Of(d, "scheduled_task")
  <2>3. A \cap B = {} /\ \A e \in A \cup B : EventCredits[e] \in Int
    BY <1>2
  <2>4. A \cup B = {e \in S : part[e] = d}
    BY <1>1, TableIsFinite DEF EventKinds
  <2>5. G[d] = Spend(A) + Spend(B)
    BY <2>1 DEF BarOf, EventKinds
  <2>6. Spend(A) = SumFunctionOnSet(EventCredits, A) /\ Spend(B) = SumFunctionOnSet(EventCredits, B)
        /\ IsFiniteSet(A) /\ IsFiniteSet(B)
    BY <2>2 DEF EventKinds
  <2> HIDE DEF A, B
  <2>7. SumFunctionOnSet(EventCredits, A \cup B) = SumFunctionOnSet(EventCredits, A) + SumFunctionOnSet(EventCredits, B)
    BY <2>3, <2>6, SumApart
  <2>8. G[d] = SumFunctionOnSet(EventCredits, {e \in S : part[e] = d})
    BY <2>4, <2>5, <2>6, <2>7
  <2>9. daily[d] \in [EventKinds -> Nat]
    BY <2>1, <2>2
  <2> QED  BY <2>1, <2>8, <2>9
<1>7. SumOfDays(daily) = SumFunctionOnSet(G, K)
  <2>1. DOMAIN G = K /\ G = [d \in DOMAIN daily |-> BarOf(daily[d])]
    BY <1>3
  <2> QED  BY <2>1 DEF SumOfDays, SumFunction
<1>8. SumFunctionOnSet(G, K) = SumFunctionOnSet(EventCredits, S)
  <2> DEFINE of == [d \in K |-> {e \in S : part[e] = d}]
  <2>1. \A d \in K : G[d] = SumFunctionOnSet(EventCredits, of[d])
    BY <1>6
  <2>2. \A d \in K : of[d] = {e \in S : part[e] = d}
    OBVIOUS
  <2> HIDE DEF S, part, K, G, of
  <2> QED  BY <1>2, <1>4, <1>5, <2>1, <2>2, SumOfSorted
<1>9. ASSUME NEW e \in S  PROVE DayOf(metered[e].at) \in SeriesDays(range)
  <2>1. metered[e].at \in Nat /\ range.from <= metered[e].at /\ metered[e].at <= range.to
    BY <1>1, TableIsFinite DEF Scoped
  <2>2. /\ DayOf(range.from) <= DayOf(metered[e].at) /\ DayOf(metered[e].at) <= DayOf(range.to)
        /\ DayOf(range.from) \in Nat /\ DayOf(range.to) \in Nat /\ DayOf(metered[e].at) \in Nat
    BY <2>1, DayOfGrows
  <2> QED  BY <2>2 DEF SeriesDays
<1>10. DOMAIN daily \subseteq SeriesDays(range)
  BY <1>3, <1>9
<1>11. \A d \in DOMAIN daily : daily[d] \in [EventKinds -> Nat]
  BY <1>3, <1>6
<1>12. daily = [d \in DOMAIN daily |-> daily[d]]
  BY DEF DailyUsage
<1> QED  BY <1>2, <1>7, <1>8, <1>10, <1>11, <1>12

LEMMA SpendersAddUp ==
    ASSUME metered \in Seq(Metered), NEW range, NEW rows \in TopSpenders(range)
    PROVE  /\ SumFunction(rows) <= Spend(Scoped(range))
           /\ Cardinality(DOMAIN rows) < TOP => SumFunction(rows) = Spend(Scoped(range))
<1> DEFINE S == Scoped(range)
           part == [e \in S |-> metered[e].user]
           K == {part[e] : e \in S}
           of == [g \in K |-> {e \in S : part[e] = g}]
           G == [g \in K |-> Spend(of[g])]
           size == IF Cardinality(K) < TOP THEN Cardinality(K) ELSE TOP
<1>1. S \in SUBSET DOMAIN metered
  BY DEF Scoped
<1>2. /\ IsFiniteSet(S) /\ \A e \in S : EventCredits[e] \in Int
      /\ Spend(S) = SumFunctionOnSet(EventCredits, S)
  <2> HIDE DEF S
  <2>1. /\ IsFiniteSet(S) /\ Spend(S) = SumFunctionOnSet(EventCredits, S)
        /\ \A e \in S : EventCredits[e] \in Nat
    BY <1>1, SpendIsSum, Zenon
  <2> QED  BY <2>1
<1>3. IsFiniteSet(K)
  <2>1. DOMAIN part = S /\ part = [e \in S |-> part[e]]
    OBVIOUS
  <2> HIDE DEF part, S
  <2> QED  BY <1>2, <2>1, ImageIsFinite
<1>4. \A e \in S : part[e] \in K
  OBVIOUS
<1>5. \A g \in K : of[g] = {e \in S : part[e] = g}
  OBVIOUS
<1>6. \A g \in K : G[g] = SumFunctionOnSet(EventCredits, of[g]) /\ G[g] \in Nat
  <2> SUFFICES ASSUME NEW g \in K
               PROVE  Spend(of[g]) = SumFunctionOnSet(EventCredits, of[g]) /\ Spend(of[g]) \in Nat
    OBVIOUS
  <2>1. of[g] \in SUBSET DOMAIN metered
    BY <1>1, <1>5
  <2> HIDE DEF of
  <2> QED  BY <2>1, SpendIsSum
<1>7. SumFunctionOnSet(G, K) = SumFunctionOnSet(EventCredits, S)
  <2> HIDE DEF S, part, K, of, G
  <2> QED  BY <1>2, <1>3, <1>4, <1>5, <1>6, SumOfSorted
<1>8. PICK top \in SUBSET K : Cardinality(top) = size /\ rows = [g \in top |-> G[g]]
  <2>1. K = {metered[e].user : e \in S}
    OBVIOUS
  <2>2. \A g \in K : {e \in Scoped(range) : metered[e].user = g} = of[g]
    OBVIOUS
  <2>3. PICK top \in SUBSET K :
          /\ Cardinality(top) = size
          /\ rows = [g \in top |-> Spend({e \in Scoped(range) : metered[e].user = g})]
    BY <2>1 DEF TopSpenders, Leaders, kSubset
  <2>4. [g \in top |-> Spend({e \in Scoped(range) : metered[e].user = g})] = [g \in top |-> G[g]]
    BY <2>2, <2>3
  <2> QED  BY <2>3, <2>4
<1>9. DOMAIN rows = top /\ IsFiniteSet(top)
  BY <1>3, <1>8, FS_Subset
<1>10. SumFunction(rows) = SumFunctionOnSet(G, top)
  <2>1. \A g \in top : rows[g] = G[g]
    BY <1>8
  <2> HIDE DEF G
  <2> QED  BY <1>9, <2>1, SumAgrees DEF SumFunction
<1>11. SumFunctionOnSet(G, top) <= SumFunctionOnSet(G, K)
  <2> HIDE DEF G, K
  <2> QED  BY <1>3, <1>6, <1>8, SumOfMore
<1>12. Cardinality(top) < TOP => top = K
  <2>1. Cardinality(K) \in Nat /\ TOP \in Nat
    BY <1>3, FS_CardinalityType, TableAssumption
  <2>2. Cardinality(top) < TOP => Cardinality(K) = Cardinality(top)
    BY <1>8, <2>1
  <2> QED  BY <1>3, <1>8, <2>2, FS_Subset
<1> HIDE DEF S, K, G
<1> QED  BY <1>2, <1>7, <1>9, <1>10, <1>11, <1>12 DEF S

(* A day without a row is a bar of nothing. *)
LEMMA FillingAddsNothing ==
    ASSUME NEW daily, NEW range, range.from \in Nat, range.to \in Nat,
           DOMAIN daily \subseteq SeriesDays(range),
           \A d \in DOMAIN daily : daily[d] \in [EventKinds -> Nat]
    PROVE  /\ DOMAIN ZeroFilled(daily, range) = SeriesDays(range)
           /\ SumOfDays(ZeroFilled(daily, range)) = SumOfDays(daily)
<1> DEFINE S == SeriesDays(range)
           T == DOMAIN daily
           filled == ZeroFilled(daily, range)
           F == [d \in S |-> BarOf(filled[d])]
           G == [d \in T |-> BarOf(daily[d])]
<1>1. IsFiniteSet(S) /\ IsFiniteSet(T)
  <2>1. DayOf(range.from) \in Int /\ DayOf(range.to) \in Int
    BY DivBounds, DayAssumption DEF DayOf
  <2>2. IsFiniteSet(S)
    BY <2>1, FS_Interval DEF SeriesDays
  <2> QED  BY <2>2, FS_Subset
<1>2. DOMAIN filled = S
  BY DEF ZeroFilled
<1>3. ASSUME NEW d \in T  PROVE F[d] = G[d] /\ G[d] \in Int
  <2>1. filled[d] = daily[d]
    BY DEF ZeroFilled
  <2>2. BarOf(daily[d]) \in Int
    BY DEF BarOf, EventKinds
  <2> QED  BY <2>1, <2>2
<1>4. ASSUME NEW d \in S \ T  PROVE F[d] = 0
  BY DEF ZeroFilled, BarOf, EventKinds
<1>5. \A d \in S : F[d] \in Int
  <2> HIDE DEF F, G, S, T
  <2> QED  BY <1>3, <1>4
<1>6. SumOfDays(filled) = SumFunctionOnSet(F, S)
  <2>1. DOMAIN F = S /\ F = [d \in DOMAIN filled |-> BarOf(filled[d])]
    BY <1>2
  <2> QED  BY <2>1 DEF SumOfDays, SumFunction
<1>7. SumOfDays(daily) = SumFunctionOnSet(G, T)
  BY DEF SumOfDays, SumFunction
<1>8. \A d \in T : F[d] = G[d]
  BY <1>3
<1>9. \A d \in S \ T : F[d] = 0
  BY <1>4
<1> HIDE DEF F, G, S, T
<1>10. SumFunctionOnSet(F, S) = SumFunctionOnSet(F, T)
  BY <1>1, <1>5, <1>9, SumOfPart DEF S, T
<1>11. SumFunctionOnSet(F, T) = SumFunctionOnSet(G, T)
  BY <1>1, <1>8, SumAgrees
<1> QED  BY <1>2, <1>6, <1>7, <1>10, <1>11 DEF S

(* A report knows the window it was asked for; the answers it has had are
   those of the table as it is now, unless the table changed in between; and
   a report that is whole adds up. *)
AskedWindow == report.from \in Nat /\ report.to \in Nat

DailyFits ==
    /\ DOMAIN report.daily \subseteq SeriesDays(report)
    /\ \A d \in DOMAIN report.daily : report.daily[d] \in [EventKinds -> Nat]

AnswersAreCurrent ==
    /\ "daily" \notin report.awaited => report.daily = DailyUsage(report)
    /\ "byType" \notin report.awaited => report.byType = CreditsByType(report)
    /\ "spenders" \notin report.awaited => report.spenders \in TopSpenders(report)

FiguresAgree ==
    /\ SumFunction(report.byType) = TotalCredits
    /\ SumFunction(report.spenders) <= TotalCredits
    /\ Cardinality(DOMAIN report.spenders) < TOP => SumFunction(report.spenders) = TotalCredits

ReportsInv ==
    /\ metered \in Seq(Metered) /\ instant \in Moments
    /\ report = [f \in DOMAIN NoReport |-> report[f]]
    /\ report.awaited \subseteq Queries
    /\ report.pc \in {"none", "asked", "answered"}
    /\ report.pc # "none" => AskedWindow
    /\ report.pc = "answered" => report.awaited = {}
    /\ report.pc # "none" /\ "daily" \notin report.awaited => DailyFits
    /\ report.pc = "asked" /\ ~torn => AnswersAreCurrent
    /\ report.pc = "answered" /\ ~torn => FiguresAgree

LEMMA ReportsInvSuffices == ReportsInv => ReportAddsUp
<1> SUFFICES ASSUME ReportsInv, report.pc = "answered"
             PROVE  /\ DOMAIN Series = DayOf(report.from)..DayOf(report.to)
                    /\ SumOfDays(Series) = TotalCredits
                    /\ ~torn => FiguresAgree
  BY DEF ReportAddsUp, FiguresAgree
<1>1. AskedWindow /\ DailyFits /\ (~torn => FiguresAgree)
  BY DEF ReportsInv
<1>2. /\ DOMAIN ZeroFilled(report.daily, report) = SeriesDays(report)
      /\ SumOfDays(ZeroFilled(report.daily, report)) = SumOfDays(report.daily)
  BY <1>1, FillingAddsNothing DEF AskedWindow, DailyFits
<1> QED  BY <1>1, <1>2 DEF Series, TotalCredits, SeriesDays

LEMMA InitReportsInv == ReportsInit => ReportsInv
<1> SUFFICES ASSUME ReportsInit  PROVE ReportsInv
  OBVIOUS
<1>1. metered \in Seq(Metered)
  BY DEF ReportsInit
<1>2. instant \in Moments
  BY TableAssumption DEF ReportsInit, Moments
<1> QED  BY <1>1, <1>2 DEF ReportsInit, ReportsInv, NoReport

(* What does not change the report or the table. *)
LEMMA QuietReport ==
    ASSUME ReportsInv, report' = report, metered' = metered, torn' = torn, instant' \in Moments
    PROVE  ReportsInv'
<1>1. (DailyUsage(report))' = DailyUsage(report)
  BY DEF DailyUsage, Scoped, Spend
<1>2. (CreditsByType(report))' = CreditsByType(report)
  BY DEF CreditsByType, Scoped, Spend
<1>3. (TopSpenders(report))' = TopSpenders(report)
  BY DEF TopSpenders, Leaders, Scoped, Spend
<1>4. DailyFits' = DailyFits /\ FiguresAgree' = FiguresAgree /\ AskedWindow' = AskedWindow
  BY DEF DailyFits, FiguresAgree, AskedWindow, TotalCredits
<1>5. AnswersAreCurrent' = AnswersAreCurrent
  BY <1>1, <1>2, <1>3 DEF AnswersAreCurrent
<1> QED  BY <1>4, <1>5 DEF ReportsInv

(* A write to the table: the report is torn if it has had answers. *)
LEMMA WriteInv ==
    ASSUME ReportsInv, report' = report, instant' = instant, metered' \in Seq(Metered), Tears
    PROVE  ReportsInv'
<1>1. DailyFits' = DailyFits /\ FiguresAgree' = FiguresAgree /\ AskedWindow' = AskedWindow
  BY DEF DailyFits, FiguresAgree, AskedWindow, TotalCredits
<1>2. ~torn' => ~torn /\ (report.pc = "asked" => report.awaited = Queries)
  BY DEF Tears
<1>3. report.awaited = Queries => AnswersAreCurrent'
  BY DEF AnswersAreCurrent, Queries
<1> QED  BY <1>1, <1>2, <1>3 DEF ReportsInv

LEMMA MeterInv == ReportsInv /\ Meter => ReportsInv'
<1> SUFFICES ASSUME ReportsInv, Meter  PROVE ReportsInv'
  OBVIOUS
<1>1. PICK e \in NewSpends :
        /\ e.job \in jobs \cup {NoJob}
        /\ metered' = Append(metered, [at |-> instant, kind |-> e.kind, user |-> e.user,
                                       job |-> e.job, credits |-> e.credits])
  BY DEF Meter
<1>2. e.kind \in EventKinds /\ e.credits \in Nat /\ e.job \in JobIds \cup {NoJob}
  BY SpendsAssumption DEF EventKinds
<1>3. [at |-> instant, kind |-> e.kind, user |-> e.user, job |-> e.job, credits |-> e.credits]
        \in Metered
  BY <1>2 DEF Metered, ReportsInv
<1>4. metered' \in Seq(Metered)
  BY <1>1, <1>3 DEF ReportsInv
<1> QED  BY <1>4, WriteInv DEF Meter

LEMMA DeleteJobInv == ReportsInv /\ DeleteJob => ReportsInv'
<1> SUFFICES ASSUME ReportsInv, DeleteJob  PROVE ReportsInv'
  OBVIOUS
<1>1. PICK j \in jobs :
        metered' = [e \in DOMAIN metered |->
                      IF metered[e].job = j THEN [metered[e] EXCEPT !.job = NoJob] ELSE metered[e]]
  BY DEF DeleteJob
<1>2. metered \in Seq(Metered)
  BY DEF ReportsInv
<1>3. DOMAIN metered = 1..Len(metered) /\ Len(metered) \in Nat
  BY <1>2
<1>4. ASSUME NEW e \in DOMAIN metered
      PROVE  (IF metered[e].job = j THEN [metered[e] EXCEPT !.job = NoJob] ELSE metered[e]) \in Metered
  <2>1. metered[e] \in Metered
    BY <1>2
  <2> QED  BY <2>1 DEF Metered
<1>5. metered' \in [1..Len(metered) -> Metered]
  BY <1>1, <1>3, <1>4
<1>6. metered' \in Seq(Metered)
  BY <1>3, <1>5, SeqDef
<1> QED  BY <1>6, WriteInv DEF DeleteJob

LEMMA AskInv == ReportsInv /\ Ask => ReportsInv'
<1> SUFFICES ASSUME ReportsInv, Ask  PROVE ReportsInv'
  OBVIOUS
<1>1. PICK from \in Moments, to \in Moments :
        report' = [NoReport EXCEPT !.pc = "asked", !.from = from, !.to = to, !.awaited = Queries]
  BY DEF Ask
<1>2. from \in Nat /\ to \in Nat
  BY TableAssumption DEF Moments
<1>3. report' = [pc |-> "asked", from |-> from, to |-> to, awaited |-> Queries, daily |-> Nothing,
                 spenders |-> Nothing, byType |-> Nothing, tasks |-> Nothing, named |-> Nothing]
  BY <1>1 DEF NoReport
<1>4. AskedWindow' /\ AnswersAreCurrent'
  BY <1>2, <1>3 DEF AskedWindow, AnswersAreCurrent, Queries
<1>5. report' = [f \in DOMAIN NoReport |-> report'[f]]
  BY <1>3 DEF NoReport
<1>6. /\ report'.pc = "asked" /\ report'.awaited = Queries /\ "daily" \in Queries
      /\ metered' = metered /\ instant' = instant
  BY <1>3 DEF Queries, Ask
<1> QED  BY <1>4, <1>5, <1>6 DEF ReportsInv

(* The queries do not depend on the answers already had. *)
LEMMA SameWindow ==
    ASSUME metered' = metered, report'.from = report.from, report'.to = report.to
    PROVE  /\ (DailyUsage(report))' = DailyUsage(report)
           /\ (CreditsByType(report))' = CreditsByType(report)
           /\ (TopSpenders(report))' = TopSpenders(report)
           /\ (SeriesDays(report))' = SeriesDays(report)
<1>1. (Scoped(report))' = Scoped(report)
  BY DEF Scoped
<1>2. (DailyUsage(report))' = DailyUsage(report)
  BY <1>1 DEF DailyUsage, Spend
<1>3. (CreditsByType(report))' = CreditsByType(report)
  BY <1>1 DEF CreditsByType, Spend
<1>4. (TopSpenders(report))' = TopSpenders(report)
  BY <1>1 DEF TopSpenders, Leaders, Spend
<1>5. (SeriesDays(report))' = SeriesDays(report)
  BY DEF SeriesDays
<1> QED  BY <1>2, <1>3, <1>4, <1>5

LEMMA QueryInv == ReportsInv /\ Query => ReportsInv'
<1> SUFFICES ASSUME ReportsInv, Query  PROVE ReportsInv'
  OBVIOUS
<1>0. /\ report.pc = "asked" /\ UNCHANGED <<instant, metered, torn>> /\ AskedWindow
      /\ metered \in Seq(Metered)
  BY DEF Query, Answers, ReportsInv
<1>1. \E query \in Queries : \E rows :
        /\ report' = [report EXCEPT !.awaited = @ \ {query}, ![query] = rows]
        /\ query = "daily" => rows = DailyUsage(report)
        /\ query = "byType" => rows = CreditsByType(report)
        /\ query = "spenders" => rows \in TopSpenders(report)
  <2>1. CASE Answers("daily", DailyUsage(report))
    BY <2>1 DEF Answers, Queries
  <2>2. CASE \E rows \in TopSpenders(report) : Answers("spenders", rows)
    BY <2>2 DEF Answers, Queries
  <2>3. CASE Answers("byType", CreditsByType(report))
    BY <2>3 DEF Answers, Queries
  <2>4. CASE \E rows \in TopTasks : Answers("tasks", rows)
    BY <2>4 DEF Answers, Queries
  <2> QED  BY <2>1, <2>2, <2>3, <2>4 DEF Query
<1>2. PICK query \in Queries :
        \E rows :
          /\ report' = [report EXCEPT !.awaited = @ \ {query}, ![query] = rows]
          /\ query = "daily" => rows = DailyUsage(report)
          /\ query = "byType" => rows = CreditsByType(report)
          /\ query = "spenders" => rows \in TopSpenders(report)
  BY <1>1
<1>3. PICK rows :
        /\ report' = [report EXCEPT !.awaited = @ \ {query}, ![query] = rows]
        /\ query = "daily" => rows = DailyUsage(report)
        /\ query = "byType" => rows = CreditsByType(report)
        /\ query = "spenders" => rows \in TopSpenders(report)
  BY <1>2
<1>4. report = [f \in DOMAIN NoReport |-> report[f]]
  BY DEF ReportsInv
<1>5. DOMAIN NoReport = {"pc", "from", "to", "awaited", "daily", "spenders", "byType", "tasks", "named"}
  BY DEF NoReport
<1>6. /\ report'.pc = "asked" /\ report'.from = report.from /\ report'.to = report.to
      /\ report'.awaited = report.awaited \ {query}
      /\ \A q \in Queries : report'[q] = IF q = query THEN rows ELSE report[q]
      /\ report' = [f \in DOMAIN NoReport |-> report'[f]]
  BY <1>0, <1>3, <1>4, <1>5 DEF Queries
<1>7. /\ (DailyUsage(report))' = DailyUsage(report)
      /\ (CreditsByType(report))' = CreditsByType(report)
      /\ (TopSpenders(report))' = TopSpenders(report)
      /\ (SeriesDays(report))' = SeriesDays(report)
  BY <1>0, <1>6, SameWindow
<1>8. AskedWindow'
  BY <1>0, <1>6 DEF AskedWindow
<1>9. "daily" \notin report'.awaited => DailyFits'
  <2>1. CASE query = "daily"
    <3>1. report'.daily = DailyUsage(report)
      BY <1>3, <1>6, <2>1 DEF Queries
    <3>2. /\ DOMAIN DailyUsage(report) \subseteq SeriesDays(report)
          /\ \A d \in DOMAIN DailyUsage(report) : DailyUsage(report)[d] \in [EventKinds -> Nat]
      BY <1>0, DaysAddUp DEF AskedWindow
    <3> QED  BY <1>7, <3>1, <3>2 DEF DailyFits
  <2>2. CASE query # "daily"
    <3>1. report'.daily = report.daily /\ ("daily" \notin report'.awaited => "daily" \notin report.awaited)
      BY <1>6, <2>2 DEF Queries
    <3>2. "daily" \notin report.awaited => DailyFits
      BY <1>0 DEF ReportsInv
    <3> QED  BY <1>7, <3>1, <3>2 DEF DailyFits
  <2> QED  BY <2>1, <2>2
<1>10. ~torn => AnswersAreCurrent'
  <2> SUFFICES ASSUME ~torn  PROVE AnswersAreCurrent'
    OBVIOUS
  <2>1. AnswersAreCurrent
    BY <1>0 DEF ReportsInv
  <2>2. "daily" \notin report'.awaited => report'.daily = DailyUsage(report)
    BY <1>3, <1>6, <2>1 DEF AnswersAreCurrent, Queries
  <2>3. "byType" \notin report'.awaited => report'.byType = CreditsByType(report)
    BY <1>3, <1>6, <2>1 DEF AnswersAreCurrent, Queries
  <2>4. "spenders" \notin report'.awaited => report'.spenders \in TopSpenders(report)
    BY <1>3, <1>6, <2>1 DEF AnswersAreCurrent, Queries
  <2> QED  BY <1>7, <2>2, <2>3, <2>4 DEF AnswersAreCurrent
<1>11. report'.awaited \subseteq Queries
  BY <1>6 DEF ReportsInv
<1> QED  BY <1>0, <1>6, <1>8, <1>9, <1>10, <1>11 DEF ReportsInv

LEMMA ComposeInv == ReportsInv /\ Compose => ReportsInv'
<1> SUFFICES ASSUME ReportsInv, Compose  PROVE ReportsInv'
  OBVIOUS
<1>1. /\ report.pc = "asked" /\ report.awaited = {} /\ UNCHANGED <<instant, metered, torn>>
      /\ metered \in Seq(Metered) /\ AskedWindow /\ DailyFits /\ (~torn => AnswersAreCurrent)
  BY DEF Compose, ReportsInv
<1>2. PICK named : report' = [report EXCEPT !.pc = "answered", !.named = named]
  BY DEF Compose
<1>3. report = [f \in DOMAIN NoReport |-> report[f]]
  BY DEF ReportsInv
<1>4. DOMAIN NoReport = {"pc", "from", "to", "awaited", "daily", "spenders", "byType", "tasks", "named"}
  BY DEF NoReport
<1>5. /\ report'.pc = "answered" /\ report'.from = report.from /\ report'.to = report.to
      /\ report'.awaited = {} /\ report'.daily = report.daily /\ report'.byType = report.byType
      /\ report'.spenders = report.spenders
      /\ report' = [f \in DOMAIN NoReport |-> report'[f]]
  BY <1>1, <1>2, <1>3, <1>4
<1>6. (SeriesDays(report))' = SeriesDays(report)
  BY <1>5 DEF SeriesDays
<1>7. AskedWindow' /\ DailyFits'
  BY <1>1, <1>5, <1>6 DEF AskedWindow, DailyFits
<1>8. ~torn => FiguresAgree
  <2> SUFFICES ASSUME ~torn  PROVE FiguresAgree
    OBVIOUS
  <2>1. /\ report.daily = DailyUsage(report) /\ report.byType = CreditsByType(report)
        /\ report.spenders \in TopSpenders(report)
    BY <1>1 DEF AnswersAreCurrent
  <2>2. TotalCredits = Spend(Scoped(report))
    BY <1>1, <2>1, DaysAddUp DEF AskedWindow, TotalCredits
  <2>3. SumFunction(report.byType) = Spend(Scoped(report))
    BY <1>1, <2>1, TypesAddUp
  <2>4. /\ SumFunction(report.spenders) <= Spend(Scoped(report))
        /\ Cardinality(DOMAIN report.spenders) < TOP
             => SumFunction(report.spenders) = Spend(Scoped(report))
    BY <1>1, <2>1, SpendersAddUp
  <2> QED  BY <2>2, <2>3, <2>4 DEF FiguresAgree
<1>9. FiguresAgree' = FiguresAgree
  BY <1>5 DEF FiguresAgree, TotalCredits
<1> QED  BY <1>1, <1>5, <1>7, <1>8, <1>9 DEF ReportsInv

LEMMA NextReportsInv == ReportsInv /\ [ReportsNext]_reportVars => ReportsInv'
<1> SUFFICES ASSUME ReportsInv, [ReportsNext]_reportVars  PROVE ReportsInv'
  OBVIOUS
<1>0. instant \in Moments
  BY DEF ReportsInv
<1>1. CASE Meter
  BY <1>1, MeterInv
<1>2. CASE DeleteJob
  BY <1>2, DeleteJobInv
<1>3. CASE ClockAdvances
  <2>1. instant' \in Moments
    BY <1>0, <1>3, TableAssumption DEF ClockAdvances, Moments
  <2> QED  BY <1>3, <2>1, QuietReport DEF ClockAdvances
<1>4. CASE Ask
  BY <1>4, AskInv
<1>5. CASE Query
  BY <1>5, QueryInv
<1>6. CASE Compose
  BY <1>6, ComposeInv
<1>7. CASE Close
  BY <1>7 DEF Close, ReportsInv, NoReport
<1>8. CASE UNCHANGED reportVars
  BY <1>0, <1>8, QuietReport DEF reportVars
<1> QED  BY <1>1, <1>2, <1>3, <1>4, <1>5, <1>6, <1>7, <1>8 DEF ReportsNext

(* The parts of a report are of one whole, whatever is metered and deleted
   while its queries are answered. *)
THEOREM ReportsAddUp == ReportsSpec => []ReportAddsUp
<1>1. ReportsInv => ReportAddsUp
  BY ReportsInvSuffices
<1> QED  BY <1>1, InitReportsInv, NextReportsInv, PTL DEF ReportsSpec

LEMMA ReportsTypesNext == ReportsInv /\ ReportsTypeOK /\ [ReportsNext]_reportVars => ReportsTypeOK'
<1> SUFFICES ASSUME ReportsInv, ReportsTypeOK, [ReportsNext]_reportVars  PROVE ReportsTypeOK'
  OBVIOUS
<1>0. /\ metered \in Seq(Metered) /\ Len(metered) \in Nat /\ DOMAIN metered = 1..Len(metered)
      /\ instant \in Nat /\ MaxInstant \in Nat /\ MaxMetered \in Nat /\ Moments = 0..MaxInstant
      /\ \A e \in DOMAIN metered : metered[e] \in Metered /\ metered[e].at \in Nat
  BY TableAssumption, TableIsFinite DEF ReportsInv, Moments
<1>1. CASE Meter
  <2>1. PICK spend \in NewSpends :
          /\ spend.job \in jobs \cup {NoJob}
          /\ metered' = Append(metered, [at |-> instant, kind |-> spend.kind, user |-> spend.user,
                                         job |-> spend.job, credits |-> spend.credits])
    BY <1>1 DEF Meter
  <2> DEFINE new == [at |-> instant, kind |-> spend.kind, user |-> spend.user, job |-> spend.job, credits |-> spend.credits]
  <2>2. new \in Metered
    BY SpendsAssumption DEF EventKinds, Metered, ReportsInv
  <2>3. /\ Len(metered') = Len(metered) + 1 /\ DOMAIN metered' = 1..(Len(metered) + 1)
        /\ \A e \in 1..Len(metered) : metered'[e] = metered[e]
        /\ metered'[Len(metered) + 1] = new
    <3> HIDE DEF new
    <3> QED  BY <1>0, <2>1, <2>2 DEF new
  <2>4. \A e \in DOMAIN metered' : /\ metered'[e].at <= instant
                                   /\ metered'[e].job # NoJob => metered'[e].job \in jobs
    BY <1>0, <2>1, <2>3 DEF ReportsTypeOK
  <2>5. Len(metered') <= MaxMetered
    BY <1>0, <1>1, <2>3 DEF Meter
  <2> QED  BY <1>1, <2>4, <2>5 DEF Meter, Tears, ReportsTypeOK
<1>2. CASE DeleteJob
  <2>1. PICK j \in jobs :
          /\ jobs' = jobs \ {j}
          /\ metered' = [e \in DOMAIN metered |->
                           IF metered[e].job = j THEN [metered[e] EXCEPT !.job = NoJob] ELSE metered[e]]
    BY <1>2 DEF DeleteJob
  <2>2. DOMAIN metered' = 1..Len(metered) /\ Len(metered') = Len(metered)
    BY <1>0, <2>1
  <2>3. ASSUME NEW e \in DOMAIN metered
        PROVE  /\ metered'[e].at <= instant
               /\ metered'[e].job # NoJob => metered'[e].job \in jobs'
    <3>1. metered[e] \in Metered /\ metered[e].at <= instant
          /\ (metered[e].job # NoJob => metered[e].job \in jobs)
      BY <1>0 DEF ReportsTypeOK
    <3>2. metered'[e] = IF metered[e].job = j THEN [metered[e] EXCEPT !.job = NoJob] ELSE metered[e]
      BY <2>1
    <3>3. CASE metered[e].job = j
      BY <3>1, <3>2, <3>3 DEF Metered
    <3>4. CASE metered[e].job # j
      BY <2>1, <3>1, <3>2, <3>4
    <3> QED  BY <3>3, <3>4
  <2> QED  BY <1>0, <1>2, <2>1, <2>2, <2>3 DEF DeleteJob, Tears, ReportsTypeOK
<1>3. CASE ClockAdvances
  BY <1>0, <1>3 DEF ClockAdvances, ReportsTypeOK
<1>4. CASE Ask
  BY <1>4 DEF Ask, NoReport, ReportsTypeOK
<1>5. CASE Query
  <2>1. report'.pc = "asked" /\ report'.awaited \subseteq Queries /\ UNCHANGED <<instant, metered, jobs, torn>>
    <3>1. DOMAIN report = {"pc", "from", "to", "awaited", "daily", "spenders", "byType", "tasks", "named"}
      BY DEF ReportsInv, NoReport
    <3>2. PICK query \in Queries, row \in {report'} :
            /\ report.pc = "asked" /\ UNCHANGED <<instant, metered, jobs, torn>>
            /\ \E rows : row = [report EXCEPT !.awaited = @ \ {query}, ![query] = rows]
      BY <1>5 DEF Query, Answers, Queries
    <3> QED  BY <3>1, <3>2, ZenonT(60) DEF ReportsTypeOK, Queries
  <2> QED  BY <2>1 DEF ReportsTypeOK
<1>6. CASE Compose
  <2>1. report'.pc = "answered" /\ report'.awaited \subseteq Queries /\ UNCHANGED <<instant, metered, jobs, torn>>
    <3>1. DOMAIN report = {"pc", "from", "to", "awaited", "daily", "spenders", "byType", "tasks", "named"}
      BY DEF ReportsInv, NoReport
    <3> QED  BY <1>6, <3>1 DEF Compose, ReportsTypeOK
  <2> QED  BY <2>1 DEF ReportsTypeOK
<1>7. CASE Close
  BY <1>7 DEF Close, NoReport, ReportsTypeOK
<1>8. CASE UNCHANGED reportVars
  BY <1>8 DEF reportVars, ReportsTypeOK
<1> QED  BY <1>1, <1>2, <1>3, <1>4, <1>5, <1>6, <1>7, <1>8 DEF ReportsNext

(* The table and the report stay what they are. *)
THEOREM ReportsTypes == ReportsSpec => []ReportsTypeOK
<1>1. ReportsInit => ReportsTypeOK
  <2> SUFFICES ASSUME ReportsInit  PROVE ReportsTypeOK
    OBVIOUS
  <2>1. metered = <<>> /\ instant = 0 /\ jobs = JobIds /\ report = NoReport /\ torn = FALSE
    BY DEF ReportsInit
  <2>2. DOMAIN metered = {} /\ Len(metered) = 0
    BY <2>1
  <2>3. Len(metered) <= MaxMetered /\ 0 \in Moments
    BY <2>2, TableAssumption DEF Moments
  <2>4. NoReport.pc = "none" /\ NoReport.awaited = {}
    BY DEF NoReport
  <2> QED  BY <2>1, <2>2, <2>3, <2>4 DEF ReportsTypeOK
<1> QED  BY <1>1, InitReportsInv, NextReportsInv, ReportsTypesNext, PTL DEF ReportsSpec

-----------------------------------------------------------------------------
(* What the narrowing of a list keeps (Selection). *)

IsAscending(f, S) ==
    /\ f \in [1 .. Cardinality(S) -> S]
    /\ \A at, j \in DOMAIN f : at < j => f[at] < f[j]

(* A finite set of numbers can be listed in ascending order: the largest goes
   behind a listing of the others. *)
LEMMA AscendingIs ==
    ASSUME NEW S \in SUBSET Nat, IsFiniteSet(S)
    PROVE  IsAscending(Ascending(S), S)
<1> DEFINE P == {s \in SUBSET S : \E f : IsAscending(f, s)}
<1>1. ASSUME NEW s \in SUBSET S, \A x \in s : s \ {x} \in P  PROVE s \in P
  <2> SUFFICES \E f : IsAscending(f, s)
    OBVIOUS
  <2>1. CASE s = {}
    <3>1. IsAscending([k \in 1 .. 0 |-> k], s)
      BY <2>1, FS_EmptySet DEF IsAscending
    <3> QED  BY <3>1
  <2>2. CASE s # {}
    <3>1. IsFiniteSet(s) /\ s \in SUBSET Nat
      BY FS_Subset
    <3>2. PICK m \in s : \A x \in s \ {m} : x < m
      <4>1. InOrder(Smaller, s)
        BY <3>1 DEF InOrder, Smaller
      <4>2. \E m \in s : \A x \in s \ {m} : <<x, m>> \in Smaller
        BY <2>2, <3>1, <4>1, LastOfAll
      <4> QED  BY <4>2 DEF Smaller
    <3>3. PICK f : IsAscending(f, s \ {m})
      BY <1>1
    <3>4. PICK n \in Nat : n = Cardinality(s \ {m}) /\ Cardinality(s) = n + 1
      <4>1. IsFiniteSet(s \ {m}) /\ Cardinality(s \ {m}) = Cardinality(s) - 1
        BY <3>1, FS_RemoveElement
      <4>2. Cardinality(s) \in Nat /\ Cardinality(s \ {m}) \in Nat
        BY <3>1, <4>1, FS_CardinalityType
      <4> QED  BY <4>1, <4>2
    <3> DEFINE g == [k \in 1 .. n + 1 |-> IF k <= n THEN f[k] ELSE m]
    <3>5. /\ \A k \in 1 .. n : f[k] \in s /\ f[k] \in Nat /\ f[k] < m
          /\ \A at, j \in 1 .. n : at < j => f[at] < f[j]
      BY <3>2, <3>3, <3>4 DEF IsAscending, Smaller
    <3>6. g \in [1 .. n + 1 -> s]
      BY <3>5
    <3>7. ASSUME NEW at \in 1 .. n + 1, NEW j \in 1 .. n + 1, at < j  PROVE g[at] < g[j]
      BY <3>5, <3>7
    <3>8. IsAscending(g, s)
      BY <3>4, <3>6, <3>7 DEF IsAscending
    <3> QED  BY <3>8
  <2> QED  BY <2>1, <2>2
<1>2. S \in P
  <2> HIDE DEF P
  <2> QED  BY <1>1, SubsetsUp
<1>3. \E f \in [1 .. Cardinality(S) -> S] : \A at, j \in DOMAIN f : at < j => f[at] < f[j]
  BY <1>2 DEF IsAscending
<1> QED  BY <1>3 DEF Ascending, IsAscending

(* What a filter keeps: members of the list, in their order and so different
   when those of the list are. *)
LEMMA FilteredIs ==
    ASSUME NEW T, NEW list \in Seq(T), NEW kept \in SUBSET DOMAIN list
    PROVE  /\ Filtered(list, kept) \in Seq({list[k] : k \in kept})
           /\ Filtered(list, kept) \in Seq(T)
           /\ IsInjective(list) => IsInjective(Filtered(list, kept))
<1>1. DOMAIN list = 1 .. Len(list) /\ Len(list) \in Nat
  OBVIOUS
<1>2. kept \in SUBSET Nat /\ IsFiniteSet(kept)
  <2>1. IsFiniteSet(1 .. Len(list))
    BY <1>1, FS_Interval
  <2>2. kept \subseteq 1 .. Len(list)
    BY <1>1
  <2> QED  BY <2>1, <2>2, FS_Subset
<1>3. PICK n \in Nat : n = Cardinality(kept)
  BY <1>2, FS_CardinalityType
<1>4. PICK f : f = Ascending(kept) /\ IsAscending(f, kept)
  BY <1>2, AscendingIs
<1>5. /\ \A k \in 1 .. n : f[k] \in kept
      /\ \A at, j \in 1 .. n : at < j => f[at] < f[j]
  BY <1>3, <1>4 DEF IsAscending
<1>6. Filtered(list, kept) = [k \in 1 .. n |-> list[f[k]]]
  BY <1>3, <1>4 DEF Filtered
<1>7. \A at, j \in 1 .. n : f[at] = f[j] => at = j
  BY <1>2, <1>5
<1>8. \A X : (\A k \in 1 .. n : list[f[k]] \in X) => Filtered(list, kept) \in Seq(X)
  BY <1>6
<1>9. \A k \in 1 .. n : list[f[k]] \in {list[l] : l \in kept} /\ list[f[k]] \in T
  BY <1>1, <1>5
<1>10. ASSUME IsInjective(list)  PROVE IsInjective(Filtered(list, kept))
  BY <1>5, <1>6, <1>7, <1>10 DEF IsInjective
<1> QED  BY <1>8, <1>9, <1>10

-----------------------------------------------------------------------------
(* The apps a conversation keeps (Attached). *)

ActionLists == {l \in Seq(AppActions) : IsInjective(l)}
CappedLists == {l \in ActionLists : Len(l) <= MAX_ACTIONS_PER_APP}

(* AttachedApps, before and after the ceiling is applied. *)
Picks == UNION {[D -> ActionLists] : D \in SUBSET Apps}
AttachedApps == UNION {[D -> CappedLists] : D \in SUBSET Apps}

TurnPCs == {"waiting", "routing", "merging", "writing", "branching", "over"}
TurnWork == [pc : TurnPCs, sticky : AttachedApps, picked : Picks, previous : AttachedApps, sent : AttachedApps]

(* What a conversation keeps is within the ceiling; what a turn picked need not
   be, until it is merged.  Only a turn with a branch goes on to it. *)
AttachedInv ==
    /\ attachments \in [ThreadsSpoken -> AttachedApps]
    /\ turn \in [Turns -> TurnWork]
    /\ \A t \in Turns : turn[t].pc = "branching" => BranchOf[t] \in ThreadsSpoken
    /\ losses \in 0 .. MaxLosses /\ forgot \in SUBSET ThreadsSpoken

LEMMA WholeIsCapped == Whole \in CappedLists
<1>1. Whole \in Seq(AppActions) /\ Len(Whole) = 0
  BY EmptySeq DEF Whole
<1>2. IsInjective(Whole)
  BY DEF IsInjective, Whole
<1> QED  BY <1>1, <1>2, ActionsAssumption DEF CappedLists, ActionLists

LEMMA NoAppsIsRecord == NoApps \in AttachedApps
<1>1. NoApps \in [{} -> CappedLists]
  BY DEF NoApps
<1> QED  BY <1>1 DEF AttachedApps

LEMMA RecordsArePicks == AttachedApps \subseteq Picks
<1>1. CappedLists \subseteq ActionLists
  BY DEF CappedLists
<1> QED  BY <1>1 DEF AttachedApps, Picks

(* What is in a record. *)
LEMMA ChoiceFields ==
    /\ \A f \in Picks : f \in [DOMAIN f -> ActionLists] /\ DOMAIN f \in SUBSET Apps
    /\ \A f \in AttachedApps : f \in [DOMAIN f -> CappedLists] /\ DOMAIN f \in SUBSET Apps
BY DEF Picks, AttachedApps

(* The ceiling leaves the last of a list. *)
LEMMA TailIsCapped ==
    ASSUME NEW l \in ActionLists
    PROVE  /\ KeepTail(l) \in CappedLists
           /\ Len(l) <= MAX_ACTIONS_PER_APP => KeepTail(l) = l
           /\ Len(l) > MAX_ACTIONS_PER_APP => Len(KeepTail(l)) = MAX_ACTIONS_PER_APP
<1>1. l \in Seq(AppActions) /\ Len(l) \in Nat /\ DOMAIN l = 1 .. Len(l) /\ MAX_ACTIONS_PER_APP \in Nat \ {0}
      /\ \A at, j \in 1 .. Len(l) : l[at] = l[j] => at = j
  BY ActionsAssumption DEF ActionLists, IsInjective
<1>2. PICK d \in Nat : /\ d = Max({0, Len(l) - MAX_ACTIONS_PER_APP})
                       /\ d = IF Len(l) > MAX_ACTIONS_PER_APP THEN Len(l) - MAX_ACTIONS_PER_APP ELSE 0
  <2> DEFINE e == Len(l) - MAX_ACTIONS_PER_APP
             m == IF Len(l) > MAX_ACTIONS_PER_APP THEN Len(l) - MAX_ACTIONS_PER_APP ELSE 0
  <2>1. e \in Int /\ m \in {0, e} /\ m >= 0 /\ m >= e /\ m \in Nat
    BY <1>1
  <2>2. Max({0, e}) = m
    <3> HIDE DEF e, m
    <3> QED  BY <2>1 DEF Max
  <2> QED  BY <2>1, <2>2
<1>3. /\ KeepTail(l) \in Seq(AppActions)
      /\ Len(KeepTail(l)) = Len(l) - d
      /\ \A at \in 1 .. Len(l) - d : KeepTail(l)[at] = l[d + at]
  <2>1. KeepTail(l) = SubSeq(l, 1 + d, Len(l))
    BY <1>2 DEF KeepTail
  <2>2. \A at \in 1 + d .. Len(l) : l[at] \in AppActions
    BY <1>1, <1>2
  <2>3. 1 + d \in Int /\ Len(l) \in Int /\ d <= Len(l)
    BY <1>1, <1>2
  <2>4. /\ SubSeq(l, 1 + d, Len(l)) \in Seq(AppActions)
        /\ Len(SubSeq(l, 1 + d, Len(l))) = IF 1 + d <= Len(l) THEN Len(l) - (1 + d) + 1 ELSE 0
        /\ \A at \in 1 .. Len(l) - (1 + d) + 1 : SubSeq(l, 1 + d, Len(l))[at] = l[1 + d + at - 1]
    BY <2>2, <2>3, SubSeqProperties
  <2>5. /\ Len(l) - (1 + d) + 1 = Len(l) - d
        /\ (IF 1 + d <= Len(l) THEN Len(l) - (1 + d) + 1 ELSE 0) = Len(l) - d
        /\ \A at \in 1 .. Len(l) - d : 1 + d + at - 1 = d + at
    <3>1. PICK len \in Nat : len = Len(l) /\ d <= len
      BY <1>1, <2>3
    <3>2. /\ len - (1 + d) + 1 = len - d
          /\ 1 + d <= len => (IF 1 + d <= len THEN len - (1 + d) + 1 ELSE 0) = len - d
          /\ ~(1 + d <= len) => (IF 1 + d <= len THEN len - (1 + d) + 1 ELSE 0) = len - d
          /\ \A at \in Int : 1 + d + at - 1 = d + at
      BY <3>1, SMTT(30)
    <3> QED  BY <3>1, <3>2, SMTT(30)
  <2> DEFINE tail == SubSeq(l, 1 + d, Len(l))
  <2>6. /\ tail \in Seq(AppActions) /\ Len(tail) = Len(l) - d
        /\ \A at \in 1 .. Len(l) - d : tail[at] = l[d + at]
    BY <2>4, <2>5
  <2> QED  BY <2>1, <2>6
<1>4. IsInjective(KeepTail(l))
  <2>1. DOMAIN KeepTail(l) = 1 .. Len(l) - d
    BY <1>3
  <2>2. ASSUME NEW at \in 1 .. Len(l) - d, NEW j \in 1 .. Len(l) - d, KeepTail(l)[at] = KeepTail(l)[j]
        PROVE  at = j
    <3>1. l[d + at] = l[d + j]
      BY <1>3, <2>2
    <3>2. d + at \in 1 .. Len(l) /\ d + j \in 1 .. Len(l)
      BY <1>1, <1>2
    <3>3. d + at = d + j
      BY <1>1, <3>1, <3>2
    <3> QED  BY <1>2, <3>3
  <2> QED  BY <2>1, <2>2 DEF IsInjective
<1>5. Len(l) <= MAX_ACTIONS_PER_APP => KeepTail(l) = l
  <2>1. ASSUME Len(l) <= MAX_ACTIONS_PER_APP  PROVE KeepTail(l) = l
    <3>1. d = 0
      BY <1>1, <1>2, <2>1
    <3> QED  BY <1>1, <1>3, <3>1, SeqEqual
  <2> QED  BY <2>1
<1>6. Len(KeepTail(l)) <= MAX_ACTIONS_PER_APP
  BY <1>1, <1>2, <1>3
<1>7. Len(l) > MAX_ACTIONS_PER_APP => Len(KeepTail(l)) = MAX_ACTIONS_PER_APP
  BY <1>1, <1>2, <1>3
<1>8. KeepTail(l) \in CappedLists
  BY <1>3, <1>4, <1>6 DEF CappedLists, ActionLists
<1> QED  BY <1>5, <1>7, <1>8

(* The union has what was there before and differs in every place. *)
LEMMA UnionIsList ==
    ASSUME NEW earlier \in ActionLists, NEW actions \in ActionLists
    PROVE  /\ UnionOf(earlier, actions) \in ActionLists
           /\ ToSet(earlier) \subseteq ToSet(UnionOf(earlier, actions))
<1> DEFINE kept == {k \in DOMAIN actions : actions[k] \notin ToSet(earlier)}
           fresh == Filtered(actions, kept)
<1>1. /\ earlier \in Seq(AppActions) /\ actions \in Seq(AppActions)
      /\ IsInjective(earlier) /\ IsInjective(actions)
  BY DEF ActionLists
<1>2. /\ fresh \in Seq({actions[k] : k \in kept}) /\ fresh \in Seq(AppActions)
      /\ IsInjective(fresh)
  <2>1. kept \in SUBSET DOMAIN actions
    OBVIOUS
  <2> HIDE DEF kept
  <2> QED  BY <1>1, <2>1, FilteredIs
<1>3. \A k \in 1 .. Len(fresh) : fresh[k] \notin ToSet(earlier)
  <2>1. \A a \in {actions[k] : k \in kept} : a \notin ToSet(earlier)
    OBVIOUS
  <2> HIDE DEF kept, fresh
  <2> QED  BY <1>2, <2>1
<1>4. UnionOf(earlier, actions) = earlier \o fresh
  BY DEF UnionOf
<1> HIDE DEF fresh, kept
<1> DEFINE union == earlier \o fresh
<1>5. /\ union \in Seq(AppActions) /\ Len(union) = Len(earlier) + Len(fresh)
      /\ Len(earlier) \in Nat /\ Len(fresh) \in Nat
      /\ DOMAIN union = 1 .. Len(earlier) + Len(fresh)
      /\ \A k \in 1 .. Len(earlier) : union[k] = earlier[k]
      /\ \A k \in Len(earlier) + 1 .. Len(earlier) + Len(fresh) : union[k] = fresh[k - Len(earlier)]
  BY <1>1, <1>2
<1>6. /\ DOMAIN earlier = 1 .. Len(earlier) /\ DOMAIN fresh = 1 .. Len(fresh)
      /\ ToSet(earlier) = {earlier[k] : k \in 1 .. Len(earlier)}
      /\ ToSet(union) = {union[k] : k \in DOMAIN union}
  BY <1>1, <1>2 DEF ToSet
<1> HIDE DEF union
<1>7. ToSet(earlier) \subseteq ToSet(union)
  BY <1>5, <1>6
<1>8. IsInjective(union)
  <2> SUFFICES ASSUME NEW at \in 1 .. Len(earlier) + Len(fresh), NEW j \in 1 .. Len(earlier) + Len(fresh),
                      union[at] = union[j], at < j
               PROVE  FALSE
    <3>1. \A at, j \in DOMAIN union : at = j \/ at < j \/ j < at
      BY <1>5
    <3> QED  BY <1>5, <3>1 DEF IsInjective
  <2>1. CASE j <= Len(earlier)
    BY <1>1, <1>5, <1>6, <2>1 DEF IsInjective
  <2>2. CASE at <= Len(earlier) /\ j > Len(earlier)
    BY <1>3, <1>5, <1>6, <2>2
  <2>3. CASE at > Len(earlier)
    <3>1. at - Len(earlier) \in DOMAIN fresh /\ j - Len(earlier) \in DOMAIN fresh
      BY <1>5, <1>6, <2>3
    <3>2. fresh[at - Len(earlier)] = fresh[j - Len(earlier)]
      BY <1>5, <2>3
    <3> QED  BY <1>2, <1>5, <3>1, <3>2 DEF IsInjective
  <2> QED  BY <1>5, <2>1, <2>2, <2>3
<1> QED  BY <1>4, <1>5, <1>7, <1>8 DEF union, ActionLists

(* Folding a turn's picks into a record gives a record that keeps the first. *)
LEMMA MergedKeeps ==
    ASSUME NEW previous \in AttachedApps, NEW picked \in Picks
    PROVE  /\ Merged(previous, picked) \in AttachedApps
           /\ Keeps(Merged(previous, picked), previous)
<1>1. /\ previous \in [DOMAIN previous -> CappedLists] /\ DOMAIN previous \in SUBSET Apps
      /\ picked \in [DOMAIN picked -> ActionLists] /\ DOMAIN picked \in SUBSET Apps
  BY ChoiceFields
<1>2. CappedLists \subseteq ActionLists
  BY DEF CappedLists
<1> DEFINE D == DOMAIN previous \cup DOMAIN picked
<1>3. ASSUME NEW s \in D  PROVE Folded(previous, picked, s) \in CappedLists
  <2>1. CASE s \notin DOMAIN picked
    BY <1>1, <2>1 DEF Folded
  <2>2. CASE s \in DOMAIN picked /\ s \notin DOMAIN previous
    <3>1. KeepTail(picked[s]) \in CappedLists
      BY <1>1, <2>2, TailIsCapped
    <3> QED  BY <2>2, <3>1 DEF Folded
  <2>3. CASE s \in DOMAIN picked /\ s \in DOMAIN previous
    <3>1. CASE IsWhole(previous[s]) \/ IsWhole(picked[s])
      BY <2>3, <3>1, WholeIsCapped DEF Folded
    <3>2. CASE ~(IsWhole(previous[s]) \/ IsWhole(picked[s]))
      <4>1. previous[s] \in ActionLists /\ picked[s] \in ActionLists
        BY <1>1, <1>2, <2>3
      <4>2. KeepTail(UnionOf(previous[s], picked[s])) \in CappedLists
        BY <4>1, UnionIsList, TailIsCapped
      <4> QED  BY <2>3, <3>2, <4>2 DEF Folded
    <3> QED  BY <3>1, <3>2
  <2> QED  BY <2>1, <2>2, <2>3
<1>4. Merged(previous, picked) = [s \in D |-> Folded(previous, picked, s)]
  BY DEF Merged
<1>5. D \in SUBSET Apps
  BY <1>1
<1>6. Merged(previous, picked) \in AttachedApps
  <2> HIDE DEF D
  <2>1. Merged(previous, picked) \in [D -> CappedLists]
    BY <1>3, <1>4
  <2> QED  BY <1>5, <2>1 DEF AttachedApps
<1>7. ASSUME NEW s \in DOMAIN previous
      PROVE  LET after == Merged(previous, picked) IN
               /\ s \in DOMAIN after
               /\ \/ IsWhole(after[s])
                  \/ /\ ~IsWhole(previous[s])
                     /\ \/ ToSet(previous[s]) \subseteq ToSet(after[s])
                        \/ Len(after[s]) = MAX_ACTIONS_PER_APP
  <2>1. s \in D /\ s \in DOMAIN Merged(previous, picked)
        /\ Merged(previous, picked)[s] = Folded(previous, picked, s)
    BY <1>4
  <2>2. CASE s \notin DOMAIN picked
    <3>1. Folded(previous, picked, s) = previous[s]
      BY <2>2 DEF Folded
    <3> QED  BY <2>1, <3>1
  <2>3. CASE s \in DOMAIN picked /\ (IsWhole(previous[s]) \/ IsWhole(picked[s]))
    <3>1. Folded(previous, picked, s) = Whole
      BY <2>3 DEF Folded
    <3> QED  BY <2>1, <3>1 DEF IsWhole
  <2>4. CASE s \in DOMAIN picked /\ ~(IsWhole(previous[s]) \/ IsWhole(picked[s]))
    <3>1. Folded(previous, picked, s) = KeepTail(UnionOf(previous[s], picked[s]))
      BY <2>4 DEF Folded
    <3>2. previous[s] \in ActionLists /\ picked[s] \in ActionLists
      BY <1>1, <1>2, <2>4
    <3> DEFINE union == UnionOf(previous[s], picked[s])
    <3>3. union \in ActionLists /\ ToSet(previous[s]) \subseteq ToSet(union)
      BY <3>2, UnionIsList
    <3>4. /\ Len(union) <= MAX_ACTIONS_PER_APP => KeepTail(union) = union
          /\ Len(union) > MAX_ACTIONS_PER_APP => Len(KeepTail(union)) = MAX_ACTIONS_PER_APP
      BY <3>3, TailIsCapped
    <3>5. Len(union) \in Nat /\ MAX_ACTIONS_PER_APP \in Nat
      BY <3>3, ActionsAssumption DEF ActionLists
    <3> HIDE DEF union
    <3>6. CASE Len(union) <= MAX_ACTIONS_PER_APP
      <4>1. Merged(previous, picked)[s] = union
        BY <2>1, <3>1, <3>4, <3>6 DEF union
      <4> QED  BY <2>1, <2>4, <3>3, <4>1
    <3>7. CASE Len(union) > MAX_ACTIONS_PER_APP
      <4>1. Len(Merged(previous, picked)[s]) = MAX_ACTIONS_PER_APP
        BY <2>1, <3>1, <3>4, <3>7 DEF union
      <4> QED  BY <2>1, <2>4, <4>1
    <3> QED  BY <3>5, <3>6, <3>7
  <2> QED  BY <2>2, <2>3, <2>4
<1> QED  BY <1>6, <1>7 DEF Keeps

(* A record keeps itself, and anything keeps the empty record. *)
LEMMA KeepsItself ==
    /\ \A f : Keeps(f, f)
    /\ \A f : Keeps(f, NoApps)
BY DEF Keeps, NoApps

(* What the router may name of an app is a list of it. *)
LEMMA RelevantAreLists == RelevantActions \subseteq ActionLists
<1>1. Whole \in ActionLists
  BY WholeIsCapped DEF CappedLists
<1>2. ASSUME NEW chosen \in SUBSET AppActions  PROVE Ascending(chosen) \in ActionLists
  <2>1. chosen \in SUBSET Nat /\ IsFiniteSet(chosen)
    BY ActionsAssumption, FS_Subset
  <2>2. PICK n \in Nat : n = Cardinality(chosen)
    BY <2>1, FS_CardinalityType
  <2> DEFINE f == Ascending(chosen)
  <2>3. /\ f \in [1 .. n -> chosen] /\ \A at \in 1 .. n : f[at] \in Nat
        /\ \A at, j \in 1 .. n : at < j => f[at] < f[j]
    <3>1. IsAscending(f, chosen)
      BY <2>1, AscendingIs
    <3> HIDE DEF f
    <3> QED  BY <2>1, <2>2, <3>1 DEF IsAscending
  <2> HIDE DEF f
  <2>4. f \in Seq(AppActions) /\ DOMAIN f = 1 .. n
    BY <2>3
  <2>5. \A at, j \in 1 .. n : f[at] = f[j] => at = j
    BY <2>3
  <2> QED  BY <2>4, <2>5 DEF f, ActionLists, IsInjective
<1> QED  BY <1>1, <1>2 DEF RelevantActions

LEMMA InitAttachedInv == AttachedInit => AttachedInv
<1> SUFFICES ASSUME AttachedInit PROVE AttachedInv
  OBVIOUS
<1>1. NoApps \in AttachedApps /\ NoApps \in Picks
  BY NoAppsIsRecord, RecordsArePicks
<1>2. WaitingTurn \in TurnWork /\ WaitingTurn.pc = "waiting"
  BY <1>1 DEF WaitingTurn, TurnWork, TurnPCs
<1> QED  BY <1>1, <1>2, ActionsAssumption DEF AttachedInit, AttachedInv

(* A record that is read is one of the conversation, or none. *)
LEMMA ReadIsRecord ==
    ASSUME AttachedInv, NEW t \in Turns, NEW pc \in TurnPCs \ {"branching"},
           NEW field \in {"sticky", "previous"}, ReadInto(t, pc, field)
    PROVE  /\ turn' \in [Turns -> TurnWork]
           /\ \A u \in Turns : turn'[u].pc = "branching" => BranchOf[u] \in ThreadsSpoken
           /\ losses' \in 0 .. MaxLosses
<1>1. /\ attachments \in [ThreadsSpoken -> AttachedApps] /\ turn \in [Turns -> TurnWork]
      /\ \A u \in Turns : turn[u].pc = "branching" => BranchOf[u] \in ThreadsSpoken
      /\ losses \in 0 .. MaxLosses /\ MaxLosses \in Nat
  BY ActionsAssumption DEF AttachedInv
<1>2. attachments[Here(t)] \in AttachedApps
  BY <1>1, ThreadsAssumption DEF Here
<1>3. PICK r \in AttachedApps :
        /\ turn' = [turn EXCEPT ![t] = [@ EXCEPT !.pc = pc, ![field] = r]]
        /\ losses' = losses \/ LosesOne
  BY <1>2, NoAppsIsRecord DEF ReadInto
<1>4. losses' \in 0 .. MaxLosses
  BY <1>1, <1>3 DEF LosesOne
<1>5. PICK w \in TurnWork : w = turn[t]
  BY <1>1
<1>6. PICK v : v = [w EXCEPT !.pc = pc, ![field] = r] /\ turn' = [turn EXCEPT ![t] = v]
  BY <1>3, <1>5
<1>7. v \in TurnWork /\ v.pc = pc
  <2>1. CASE field = "sticky"
    BY <1>5, <1>6, <2>1 DEF TurnWork
  <2>2. CASE field = "previous"
    BY <1>5, <1>6, <2>2 DEF TurnWork
  <2> QED  BY <2>1, <2>2
<1> QED  BY <1>1, <1>4, <1>6, <1>7

(* What a turn sends is a record that keeps what it read. *)
LEMMA SendingIsRecord ==
    ASSUME AttachedInv, NEW t \in Turns
    PROVE  Sending(t) \in AttachedApps /\ Keeps(Sending(t), turn[t].previous)
<1>1. turn[t].previous \in AttachedApps /\ turn[t].picked \in Picks
  BY DEF AttachedInv, TurnWork
<1> QED  BY <1>1, MergedKeeps DEF Sending

LEMMA NextAttachedInv == AttachedInv /\ [AttachedNext]_attachedVars => AttachedInv'
<1> SUFFICES ASSUME AttachedInv, [AttachedNext]_attachedVars PROVE AttachedInv'
  OBVIOUS
<1>1. /\ attachments \in [ThreadsSpoken -> AttachedApps] /\ turn \in [Turns -> TurnWork]
      /\ \A u \in Turns : turn[u].pc = "branching" => BranchOf[u] \in ThreadsSpoken
      /\ losses \in 0 .. MaxLosses /\ forgot \in SUBSET ThreadsSpoken
      /\ MaxLosses \in Nat /\ ThreadOf \in [Turns -> ThreadsSpoken]
      /\ BranchOf \in [Turns -> ThreadsSpoken \cup {NoThread}]
  BY ActionsAssumption, ThreadsAssumption DEF AttachedInv
<1>2. LosesOne => losses' \in 0 .. MaxLosses
  BY <1>1 DEF LosesOne
<1>3. ASSUME NEW t \in Turns, ReadSticky(t)  PROVE AttachedInv'
  <2>1. ReadInto(t, "routing", "sticky") /\ UNCHANGED <<attachments, forgot>>
    BY <1>3 DEF ReadSticky
  <2>2. "routing" \in TurnPCs \ {"branching"}
    BY DEF TurnPCs
  <2> QED  BY <1>1, <2>1, <2>2, ReadIsRecord DEF AttachedInv
<1>4. ASSUME NEW t \in Turns, ReadPrevious(t)  PROVE AttachedInv'
  <2>1. ReadInto(t, "writing", "previous") /\ UNCHANGED <<attachments, forgot>>
    BY <1>4 DEF ReadPrevious
  <2>2. "writing" \in TurnPCs \ {"branching"}
    BY DEF TurnPCs
  <2> QED  BY <1>1, <2>1, <2>2, ReadIsRecord DEF AttachedInv
<1>5. ASSUME NEW t \in Turns, Route(t)  PROVE AttachedInv'
  <2>1. PICK chosen, enabled :
          /\ chosen \in SUBSET Apps /\ enabled \in [chosen -> RelevantActions]
          /\ turn' = [turn EXCEPT
                 ![t].picked = [s \in chosen |-> Attaching(turn[t].sticky, s, enabled[s])],
                 ![t].pc = IF chosen = {} THEN "over" ELSE "merging"]
          /\ UNCHANGED <<attachments, losses, forgot>>
    <3>1. turn[t].sticky \in AttachedApps
      BY <1>1 DEF TurnWork
    <3>2. DOMAIN turn[t].sticky \in SUBSET Apps
      BY <3>1, ChoiceFields
    <3>3. \A u : RelevantServers(u) \subseteq SUBSET u
      BY DEF RelevantServers
    <3>4. PICK relevant \in RelevantServers(Apps \ DOMAIN turn[t].sticky) :
            \E enabled \in [DOMAIN turn[t].sticky \cup relevant -> RelevantActions] :
              turn' = [turn EXCEPT
                 ![t].picked = [s \in DOMAIN turn[t].sticky \cup relevant |->
                                   Attaching(turn[t].sticky, s, enabled[s])],
                 ![t].pc = IF DOMAIN turn[t].sticky \cup relevant = {} THEN "over" ELSE "merging"]
      BY <1>5 DEF Route
    <3>5. DOMAIN turn[t].sticky \cup relevant \in SUBSET Apps
      BY <3>2, <3>3, <3>4
    <3>6. UNCHANGED <<attachments, losses, forgot>>
      BY <1>5 DEF Route
    <3> QED  BY <3>4, <3>5, <3>6
  <2>2. PICK sticky \in AttachedApps : sticky = turn[t].sticky
    BY <1>1 DEF TurnWork
  <2>3. PICK p : p = [s \in chosen |-> Attaching(sticky, s, enabled[s])]
    OBVIOUS
  <2>4. \A s \in chosen : p[s] \in ActionLists
    <3>1. \A s \in DOMAIN sticky : sticky[s] \in ActionLists
      BY <2>2, ChoiceFields DEF CappedLists
    <3>2. \A s \in chosen : enabled[s] \in ActionLists
      BY <2>1, RelevantAreLists
    <3> QED  BY <2>3, <3>1, <3>2 DEF Attaching
  <2>5. p \in Picks
    <3>1. p \in [chosen -> ActionLists]
      BY <2>3, <2>4
    <3> QED  BY <2>1, <3>1 DEF Picks
  <2>6. PICK q \in {"over", "merging"} :
          turn' = [turn EXCEPT ![t].picked = p, ![t].pc = q]
    BY <2>1, <2>2, <2>3
  <2>7. PICK w \in TurnWork : w = turn[t]
    BY <1>1
  <2>8. PICK v : v = [w EXCEPT !.picked = p, !.pc = q] /\ turn' = [turn EXCEPT ![t] = v]
    BY <1>1, <2>6, <2>7
  <2>9. v \in TurnWork /\ v.pc # "branching"
    BY <2>5, <2>6, <2>7, <2>8 DEF TurnWork, TurnPCs
  <2> QED  BY <1>1, <2>1, <2>8, <2>9, ZenonT(60) DEF AttachedInv
<1>6. ASSUME NEW t \in Turns, WriteRecord(t)  PROVE AttachedInv'
  <2>1. PICK r \in AttachedApps : r = Sending(t)
    BY SendingIsRecord
  <2>2. PICK w \in TurnWork : w = turn[t]
    BY <1>1
  <2>3. PICK q \in {"over", "branching"} : q = IF BranchOf[t] = NoThread THEN "over" ELSE "branching"
    OBVIOUS
  <2>4. PICK v : v = [w EXCEPT !.sent = r, !.pc = q] /\ turn' = [turn EXCEPT ![t] = v]
    BY <1>1, <1>6, <2>1, <2>2, <2>3 DEF WriteRecord
  <2>5. v \in TurnWork /\ v.pc = q
    <3>1. r \in AttachedApps
      BY <2>1
    <3> QED  BY <2>2, <2>3, <2>4, <3>1 DEF TurnWork, TurnPCs
  <2>6. q = "branching" => BranchOf[t] \in ThreadsSpoken
    BY <1>1, <2>3
  <2>7. \/ attachments' = [attachments EXCEPT ![Here(t)] = r]
           /\ forgot' \in {forgot, forgot \cup {Here(t)}} /\ losses' = losses
        \/ LosesOne /\ UNCHANGED <<attachments, forgot>>
    BY <1>6, <2>1 DEF WriteRecord
  <2>8. Here(t) \in ThreadsSpoken
    BY <1>1 DEF Here
  <2>9. /\ attachments' \in [ThreadsSpoken -> AttachedApps] /\ forgot' \in SUBSET ThreadsSpoken
        /\ losses' \in 0 .. MaxLosses
    BY <1>1, <1>2, <2>1, <2>7, <2>8
  <2>10. turn' \in [Turns -> TurnWork]
         /\ \A u \in Turns : turn'[u].pc = "branching" => BranchOf[u] \in ThreadsSpoken
    BY <1>1, <2>4, <2>5, <2>6
  <2> QED  BY <2>9, <2>10 DEF AttachedInv
<1>7. ASSUME NEW t \in Turns, SeedBranch(t)  PROVE AttachedInv'
  <2>1. PICK w \in TurnWork : w = turn[t] /\ w.pc = "branching"
    BY <1>1, <1>7 DEF SeedBranch
  <2>2. BranchOf[t] \in ThreadsSpoken /\ w.sent \in AttachedApps
    BY <1>1, <2>1 DEF TurnWork
  <2>3. PICK v : v = [w EXCEPT !.pc = "over"] /\ turn' = [turn EXCEPT ![t] = v]
    BY <1>1, <1>7, <2>1 DEF SeedBranch
  <2>4. v \in TurnWork /\ v.pc = "over"
    BY <2>1, <2>3 DEF TurnWork, TurnPCs
  <2>5. \/ attachments' = [attachments EXCEPT ![BranchOf[t]] = w.sent]
           /\ forgot' \in {forgot, forgot \cup {BranchOf[t]}} /\ losses' = losses
        \/ LosesOne /\ UNCHANGED <<attachments, forgot>>
    BY <1>7, <2>1 DEF SeedBranch
  <2>6. /\ attachments' \in [ThreadsSpoken -> AttachedApps] /\ forgot' \in SUBSET ThreadsSpoken
        /\ losses' \in 0 .. MaxLosses
    BY <1>1, <1>2, <2>2, <2>5
  <2> QED  BY <1>1, <2>3, <2>4, <2>6 DEF AttachedInv
<1>8. ASSUME NEW t \in Turns, TurnDies(t)  PROVE AttachedInv'
  <2>1. PICK w \in TurnWork : w = turn[t]
    BY <1>1
  <2>2. PICK v : v = [w EXCEPT !.pc = "over"] /\ turn' = [turn EXCEPT ![t] = v]
    BY <1>1, <1>8, <2>1 DEF TurnDies
  <2>3. v \in TurnWork /\ v.pc = "over"
    BY <2>1, <2>2 DEF TurnWork, TurnPCs
  <2>4. LosesOne /\ UNCHANGED <<attachments, forgot>>
    BY <1>8 DEF TurnDies
  <2> QED  BY <1>1, <1>2, <2>2, <2>3, <2>4 DEF AttachedInv
<1>9. ASSUME NEW c \in ThreadsSpoken, ForgetThread(c)  PROVE AttachedInv'
  <2>1. /\ LosesOne /\ attachments' = [attachments EXCEPT ![c] = NoApps]
        /\ forgot' = forgot \cup {c} /\ UNCHANGED turn
    BY <1>9 DEF ForgetThread
  <2> QED  BY <1>1, <1>2, <2>1, NoAppsIsRecord DEF AttachedInv
<1>10. ASSUME UNCHANGED attachedVars  PROVE AttachedInv'
  BY <1>10 DEF attachedVars, AttachedInv
<1> QED  BY <1>3, <1>4, <1>5, <1>6, <1>7, <1>8, <1>9, <1>10 DEF AttachedNext

LEMMA AttachedTyped == AttachedInv => AttachedTypeOK
<1> SUFFICES ASSUME AttachedInv PROVE AttachedTypeOK
  OBVIOUS
<1>1. \A l \in ActionLists : ToSet(l) \subseteq AppActions
  BY DEF ActionLists, ToSet
<1>2. \A f \in Picks : IsAttachedApps(f)
  BY <1>1, ChoiceFields DEF IsAttachedApps
<1>3. \A f \in AttachedApps : /\ IsAttachedApps(f)
                              /\ \A s \in DOMAIN f : IsInjective(f[s]) /\ Len(f[s]) <= MAX_ACTIONS_PER_APP
  BY <1>2, ChoiceFields, RecordsArePicks DEF CappedLists, ActionLists
<1>4. \A t \in Turns : /\ turn[t].pc \in TurnPCs /\ turn[t].sticky \in AttachedApps
                       /\ turn[t].picked \in Picks /\ turn[t].previous \in AttachedApps
                       /\ turn[t].sent \in AttachedApps
  BY DEF AttachedInv, TurnWork
<1>5. \A c \in ThreadsSpoken : attachments[c] \in AttachedApps
  BY DEF AttachedInv
<1>6. losses \in 0 .. MaxLosses /\ forgot \subseteq ThreadsSpoken
  BY DEF AttachedInv
<1> QED  BY <1>2, <1>3, <1>4, <1>5, <1>6 DEF AttachedTypeOK, TurnPCs

(* A step takes nothing away from a record it does not forget. *)
LEMMA StepKeeps ==
    ASSUME AttachedInv, [AttachedNext]_attachedVars, NEW c \in ThreadsSpoken \ forgot'
    PROVE  Keeps(attachments'[c], attachments[c])
<1>1. /\ attachments \in [ThreadsSpoken -> AttachedApps]
      /\ ThreadOf \in [Turns -> ThreadsSpoken]
  BY ThreadsAssumption DEF AttachedInv
<1>2. CASE attachments' = attachments
  BY <1>2, KeepsItself
<1>3. ASSUME NEW t \in Turns, WriteRecord(t), attachments' # attachments
      PROVE  Keeps(attachments'[c], attachments[c])
  <2>1. /\ attachments' = [attachments EXCEPT ![Here(t)] = Sending(t)]
        /\ forgot' = IF turn[t].previous = attachments[Here(t)] THEN forgot ELSE forgot \cup {Here(t)}
    BY <1>3 DEF WriteRecord
  <2>2. Keeps(Sending(t), turn[t].previous)
    BY SendingIsRecord
  <2>3. CASE c = Here(t)
    BY <1>1, <2>1, <2>2, <2>3
  <2>4. CASE c # Here(t)
    <3>1. attachments'[c] = attachments[c]
      BY <1>1, <2>1, <2>4
    <3> QED  BY <3>1, KeepsItself
  <2> QED  BY <2>3, <2>4
<1>4. ASSUME NEW t \in Turns, SeedBranch(t), attachments' # attachments
      PROVE  Keeps(attachments'[c], attachments[c])
  <2>1. /\ attachments' = [attachments EXCEPT ![BranchOf[t]] = turn[t].sent]
        /\ forgot' = IF attachments[BranchOf[t]] = NoApps THEN forgot ELSE forgot \cup {BranchOf[t]}
    BY <1>4 DEF SeedBranch
  <2>2. CASE c = BranchOf[t]
    BY <2>1, <2>2, KeepsItself
  <2>3. CASE c # BranchOf[t]
    <3>1. attachments'[c] = attachments[c]
      BY <1>1, <2>1, <2>3
    <3> QED  BY <3>1, KeepsItself
  <2> QED  BY <2>2, <2>3
<1>5. ASSUME NEW d \in ThreadsSpoken, ForgetThread(d)
      PROVE  Keeps(attachments'[c], attachments[c])
  <2>1. c # d /\ attachments' = [attachments EXCEPT ![d] = NoApps]
    BY <1>5 DEF ForgetThread
  <2>2. attachments'[c] = attachments[c]
    BY <1>1, <2>1
  <2> QED  BY <2>2, KeepsItself
<1>6. \/ attachments' = attachments
      \/ \E t \in Turns : WriteRecord(t) \/ SeedBranch(t)
      \/ \E d \in ThreadsSpoken : ForgetThread(d)
  BY DEF AttachedNext, attachedVars, ReadSticky, ReadPrevious, Route, TurnDies
<1> QED  BY <1>2, <1>3, <1>4, <1>5, <1>6

(* Where a turn is and what a conversation remembers is of the right kind, and no
   app is remembered with more than MAX_ACTIONS_PER_APP actions. *)
THEOREM AttachedInvariant == AttachedSpec => []AttachedInv
<1> QED  BY InitAttachedInv, NextAttachedInv, PTL DEF AttachedSpec

THEOREM AttachedTypes == AttachedSpec => []AttachedTypeOK
<1> QED  BY AttachedInvariant, AttachedTyped, PTL

(* "Attachment is append-only within a conversation": the two reads of a turn, the
   union and the write back take nothing away that the ceiling need not, as long as
   no turn overtook another and Redis kept the record. *)
THEOREM AttachedStays == AttachedSpec => AppsStayAttached
<1>1. AttachedInv /\ [AttachedNext]_attachedVars =>
        [\A c \in ThreadsSpoken \ forgot' : Keeps(attachments'[c], attachments[c])]_attachedVars
  BY StepKeeps
<1> QED  BY <1>1, AttachedInvariant, PTL DEF AttachedSpec, AppsStayAttached

-----------------------------------------------------------------------------
(* The tools a run is given (Toolset). *)

TheApps == ToSet(AppsInOrder)
ToolLists == (UNION {Surfaces[s] : s \in TheApps}) \cup {<<>>, Unlisted}

(* How many of the tools in X an app has, and what the first m of a list are. *)
Share(f, X, s) == Cardinality({n \in X : f[n].app = s})
FirstOnes(list, m) == {list[k] : k \in 1 .. m}

(* No app is behind another by two that has tools left. *)
EvenShares(f, X, known) ==
    \A s, t \in TheApps : Share(f, X, s) + 1 < Share(f, X, t) => Share(f, X, s) = Len(known[s])

(* The smaller of a round's number and the tools an app has. *)
DueIn(round, next, at, known) ==
    LET d == IF at < next THEN round + 1 ELSE round
        most == Len(known[AppsInOrder[at]])
    IN  IF d <= most THEN d ELSE most

ToolPCs == {"listing", "dealing", "dealt", "whole", "narrowed"}

ListsInv ==
    /\ surface \in [TheApps -> ToolLists] /\ cached \in [TheApps -> ToolLists]
    /\ listed \in [TheApps -> ToolLists]
    /\ \A s \in TheApps :
         /\ surface[s] \in Surfaces[s] /\ cached[s] \in Surfaces[s] \cup {<<>>}
         /\ listed[s] \in Surfaces[s] \cup {<<>>, Unlisted}
    /\ dealing \in [pc : ToolPCs, next : Nat \ {0}]
    /\ dealing.pc = "listing" => tools = <<>> /\ routes = NoRoutes /\ dealing.next = 1
    /\ dealing.pc # "listing" => \A s \in TheApps : listed[s] # Unlisted

(* Names and tools go together one to one. *)
RoutesOK(list, f, known) ==
    /\ list \in Seq(DOMAIN f) /\ IsInjective(list) /\ DOMAIN f = ToSet(list)
    /\ \A n \in DOMAIN f :
         /\ f[n].app \in TheApps /\ f[n].tool \in ToSet(known[f[n].app])
         /\ Len(n) <= MAX_TOOL_NAME_LENGTH
    /\ \A m, n \in DOMAIN f : f[m].app = f[n].app /\ f[m].tool = f[n].tool => m = n

(* Dealing takes what an app lists from its front, and goes in rounds. *)
FromTheFront(f, known) ==
    \A n \in DOMAIN f : \E j \in 1 .. Share(f, DOMAIN f, f[n].app) : f[n].tool = known[f[n].app][j]
RoundsOK(next, f, known) ==
    /\ Len(AppsInOrder) # 0 => next <= Len(AppsInOrder)
    /\ \E round \in Nat : \A at \in 1 .. Len(AppsInOrder) :
         Share(f, DOMAIN f, AppsInOrder[at]) = DueIn(round, next, at, known)

(* Whatever the cap leaves of the list is even. *)
EvenOK(list, f, known) ==
    \A m \in 0 .. Len(list) : EvenShares(f, FirstOnes(list, m), known)

ToolsetInv ==
    /\ ListsInv /\ RoutesOK(tools, routes, listed)
    /\ dealing.pc = "dealing" => FromTheFront(routes, listed) /\ RoundsOK(dealing.next, routes, listed)
    /\ dealing.pc \in {"dealing", "dealt"} => EvenOK(tools, routes, listed)
    /\ dealing.pc = "whole" => EvenShares(routes, ToSet(tools), listed)

(* What an app lists, it lists once. *)
LEMMA ListsAreTools ==
    ASSUME NEW s \in TheApps, NEW list \in Surfaces[s] \cup {<<>>}
    PROVE  /\ list \in Seq(ToSet(list)) /\ IsInjective(list)
           /\ \A tool \in ToSet(list) : <<s, tool>> \in DOMAIN BaseName
<1>1. CASE list \in Surfaces[s]
  BY <1>1, SurfacesAssumption DEF TheApps
<1>2. CASE list = <<>>
  <2>1. ToSet(list) = {}
    BY <1>2 DEF ToSet
  <2>2. list \in Seq(ToSet(list))
    BY <1>2, EmptySeq
  <2>3. IsInjective(list)
    BY <1>2 DEF IsInjective
  <2> QED  BY <2>1, <2>2, <2>3
<1> QED  BY <1>1, <1>2

LEMMA AppsAreApart ==
    /\ AppsInOrder \in Seq(TheApps) /\ Len(AppsInOrder) \in Nat
    /\ TheApps = {AppsInOrder[at] : at \in 1 .. Len(AppsInOrder)}
    /\ \A at, j \in 1 .. Len(AppsInOrder) : AppsInOrder[at] = AppsInOrder[j] => at = j
<1>1. AppsInOrder \in Seq(TheApps) /\ IsInjective(AppsInOrder)
  BY SurfacesAssumption DEF TheApps
<1>2. DOMAIN AppsInOrder = 1 .. Len(AppsInOrder) /\ Len(AppsInOrder) \in Nat
  BY <1>1
<1> QED  BY <1>1, <1>2 DEF TheApps, ToSet, IsInjective

(* Names that are tried after the first end in different numbers. *)
LEMMA TriedNames ==
    ASSUME NEW X, NEW base \in Seq(X), Len(base) <= MAX_TOOL_NAME_LENGTH
    PROVE  /\ \A k \in Nat \ {0} : Len(Tried(base, k)) <= MAX_TOOL_NAME_LENGTH
           /\ \A j, k \in Nat \ {0, 1} : Tried(base, j) = Tried(base, k) => j = k
<1>1. MAX_TOOL_NAME_LENGTH \in Nat \ {0, 1}
  BY NamesAssumption
<1>2. Tried(base, 1) = base
  BY DEF Tried
<1>3. ASSUME NEW k \in Nat \ {0, 1}
      PROVE  \E cut : /\ cut \in Seq(X \cup Nat) /\ Len(cut) <= MAX_TOOL_NAME_LENGTH - 1
                      /\ Tried(base, k) = Append(cut, k)
  <2> DEFINE tail == [at \in 1 .. (k - 2) |-> at + 1]
             long == base \o tail
             most == Min({Len(long), MAX_TOOL_NAME_LENGTH - 1})
  <2>1. tail \in Seq(X \cup Nat) /\ base \in Seq(X \cup Nat)
    <3>1. k - 2 \in Nat /\ \A at \in 1 .. (k - 2) : at + 1 \in X \cup Nat
      OBVIOUS
    <3>2. tail \in [1 .. (k - 2) -> X \cup Nat]
      BY <3>1
    <3>3. tail \in Seq(X \cup Nat)
      BY <3>1, <3>2
    <3>4. base \in Seq(X \cup Nat)
      <4>1. base \in [1 .. Len(base) -> X] /\ Len(base) \in Nat
        OBVIOUS
      <4>2. base \in [1 .. Len(base) -> X \cup Nat]
        BY <4>1
      <4> QED  BY <4>1, <4>2
    <3> QED  BY <3>3, <3>4
  <2> HIDE DEF tail
  <2>2. long \in Seq(X \cup Nat) /\ Len(long) \in Nat
    BY <2>1
  <2> HIDE DEF long
  <2>3. most \in Nat /\ most <= Len(long) /\ most <= MAX_TOOL_NAME_LENGTH - 1
    <3> DEFINE a == Len(long)
               b == MAX_TOOL_NAME_LENGTH - 1
               m == IF a <= b THEN a ELSE b
    <3>1. a \in Nat /\ b \in Nat /\ m \in {a, b} /\ m <= a /\ m <= b
      BY <1>1, <2>2
    <3>2. Min({a, b}) = m
      <4> HIDE DEF a, b, m
      <4> QED  BY <3>1 DEF Min
    <3> QED  BY <3>1, <3>2
  <2> HIDE DEF most
  <2> DEFINE cut == SubSeq(long, 1, most)
  <2>4. cut \in Seq(X \cup Nat) /\ Len(cut) = IF 1 <= most THEN most - 1 + 1 ELSE 0
    <3>1. \A at \in 1 .. most : long[at] \in X \cup Nat
      BY <2>2, <2>3
    <3> QED  BY <2>3, <3>1, SubSeqProperties
  <2>5. Tried(base, k) = Append(cut, k)
    BY DEF Tried, WithSuffix, most, long, tail
  <2>6. Len(cut) <= MAX_TOOL_NAME_LENGTH - 1
    BY <1>1, <2>3, <2>4
  <2> QED  BY <2>4, <2>5, <2>6
<1>4. ASSUME NEW k \in Nat \ {0}  PROVE Len(Tried(base, k)) <= MAX_TOOL_NAME_LENGTH
  <2>1. CASE k = 1
    BY <1>2, <2>1
  <2>2. CASE k # 1
    <3>1. PICK cut : /\ cut \in Seq(X \cup Nat) /\ Len(cut) <= MAX_TOOL_NAME_LENGTH - 1
                     /\ Tried(base, k) = Append(cut, k)
      BY <1>3, <2>2
    <3>2. Len(Append(cut, k)) = Len(cut) + 1 /\ Len(cut) \in Nat
      BY <3>1
    <3> QED  BY <1>1, <3>1, <3>2
  <2> QED  BY <2>1, <2>2
<1>5. ASSUME NEW j \in Nat \ {0, 1}, NEW k \in Nat \ {0, 1}, Tried(base, j) = Tried(base, k)
      PROVE  j = k
  <2>1. PICK cj : cj \in Seq(X \cup Nat) /\ Tried(base, j) = Append(cj, j)
    BY <1>3
  <2>2. PICK ck : ck \in Seq(X \cup Nat) /\ Tried(base, k) = Append(ck, k)
    BY <1>3
  <2>3. /\ Len(Append(cj, j)) = Len(cj) + 1 /\ Append(cj, j)[Len(cj) + 1] = j
        /\ Len(Append(ck, k)) = Len(ck) + 1 /\ Append(ck, k)[Len(ck) + 1] = k
        /\ Len(cj) \in Nat /\ Len(ck) \in Nat
    BY <2>1, <2>2
  <2> QED  BY <1>5, <2>1, <2>2, <2>3
<1> QED  BY <1>4, <1>5

(* A name that is free is found: one of the numbered ones is, and the first
   that is free is the one that is taken. *)
LEMMA ExposedIsFree ==
    ASSUME NEW X, NEW base \in Seq(X), Len(base) <= MAX_TOOL_NAME_LENGTH,
           NEW taken, IsFiniteSet(taken)
    PROVE  /\ Exposed(base, taken) \notin taken
           /\ Len(Exposed(base, taken)) <= MAX_TOOL_NAME_LENGTH
<1>1. PICK c \in Nat : c = Cardinality(taken)
  BY FS_CardinalityType
<1> DEFINE K == {k \in 1 .. (c + 2) : Tried(base, k) \notin taken}
<1>2. K # {}
  <2> SUFFICES ASSUME \A k \in 1 .. (c + 2) : Tried(base, k) \in taken  PROVE FALSE
    OBVIOUS
  <2> DEFINE S == 2 .. (c + 2)
             f == [k \in S |-> Tried(base, k)]
  <2>1. IsFiniteSet(S) /\ Cardinality(S) = c + 1
    <3>1. IsFiniteSet(S) /\ Cardinality(S) = IF 2 > c + 2 THEN 0 ELSE (c + 2) - 2 + 1
      BY FS_Interval
    <3> QED  BY <3>1
  <2>2. f \in [S -> taken]
    OBVIOUS
  <2>3. PICK x, y \in S : x # y /\ f[x] = f[y]
    <3> HIDE DEF S, f
    <3> QED  BY <1>1, <2>1, <2>2, FS_PigeonHole
  <2>4. Tried(base, x) = Tried(base, y) /\ x \in Nat \ {0, 1} /\ y \in Nat \ {0, 1}
    BY <2>3
  <2> QED  BY <2>3, <2>4, TriedNames
<1>3. PICK least \in K : \A k \in K : least <= k
  <2>1. IsFiniteSet(K)
    <3>1. IsFiniteSet(1 .. (c + 2))
      BY FS_Interval
    <3> QED  BY <3>1, FS_Subset
  <2> DEFINE Larger == {pair \in Nat \X Nat : pair[1] > pair[2]}
  <2>2. K \in SUBSET Nat
    OBVIOUS
  <2> HIDE DEF K
  <2>3. InOrder(Larger, K)
    BY <2>2 DEF InOrder
  <2>4. \E m \in K : \A x \in K \ {m} : <<x, m>> \in Larger
    BY <1>2, <2>1, <2>3, LastOfAll
  <2>5. PICK m \in K : \A x \in K \ {m} : x > m
    BY <2>4
  <2> QED  BY <2>2, <2>5
<1>4. \E k \in 1 .. (c + 2) : /\ Tried(base, k) \notin taken
                             /\ \A j \in 1 .. (k - 1) : Tried(base, j) \in taken
  <2>1. ASSUME NEW j \in 1 .. (least - 1)  PROVE Tried(base, j) \in taken
    <3>1. j \in 1 .. (c + 2) /\ ~(least <= j)
      BY <1>3
    <3> QED  BY <1>3, <3>1
  <2> QED  BY <1>3, <2>1
<1> DEFINE k0 == CHOOSE k \in 1 .. (c + 2) : /\ Tried(base, k) \notin taken
                                            /\ \A j \in 1 .. (k - 1) : Tried(base, j) \in taken
<1>5. k0 \in 1 .. (c + 2) /\ Tried(base, k0) \notin taken
  BY <1>4
<1>6. Exposed(base, taken) = Tried(base, k0)
  BY <1>1 DEF Exposed
<1> HIDE DEF k0
<1> QED  BY <1>5, <1>6, TriedNames

(* Two functions say the same of the elements of a set. *)
SameOn(f, g, X) == \A n \in X : g[n] = f[n]

(* A share is what it was when its routes are. *)
LEMMA ShareAgrees ==
    ASSUME NEW f, NEW g, NEW X, SameOn(f, g, X), NEW s
    PROVE  Share(g, X, s) = Share(f, X, s)
<1>1. {n \in X : g[n].app = s} = {n \in X : f[n].app = s}
  BY DEF SameOn
<1> QED  BY <1>1 DEF Share

LEMMA ShareIsNat ==
    ASSUME NEW f, NEW X, IsFiniteSet(X), NEW s
    PROVE  Share(f, X, s) \in Nat
<1>1. IsFiniteSet({n \in X : f[n].app = s})
  BY FS_Subset
<1> QED  BY <1>1, FS_CardinalityType DEF Share

IsOneMore(f, g, D, E, s) ==
    /\ Share(g, E, s) = Share(f, D, s) + 1
    /\ \A t : t # s => Share(g, E, t) = Share(f, D, t)

(* A tool more is one more for its app and none for another. *)
LEMMA OneToolMore ==
    ASSUME NEW D, IsFiniteSet(D), NEW f, NEW n, n \notin D, NEW g, SameOn(f, g, D),
           NEW E, E = D \cup {n}, NEW s, s = g[n].app
    PROVE  IsOneMore(f, g, D, E, s)
<1> DEFINE Of(t) == {m \in D : f[m].app = t}
<1>1. {m \in E : g[m].app = s} = Of(s) \cup {n} /\ n \notin Of(s)
  BY DEF SameOn
<1>2. \A t : t # s => {m \in E : g[m].app = t} = Of(t)
  BY DEF SameOn
<1>3. IsFiniteSet(Of(s))
  BY FS_Subset
<1>4. \A t : Share(f, D, t) = Cardinality(Of(t))
  BY DEF Share
<1>5. /\ Share(g, E, s) = Cardinality(Of(s) \cup {n})
      /\ \A t : t # s => Share(g, E, t) = Cardinality(Of(t))
  BY <1>1, <1>2 DEF Share
<1> HIDE DEF Of
<1>6. Cardinality(Of(s) \cup {n}) = Cardinality(Of(s)) + 1
  BY <1>1, <1>3, FS_AddElement
<1> QED  BY <1>4, <1>5, <1>6 DEF IsOneMore

(* A round is even. *)
LEMMA RoundIsEven ==
    ASSUME NEW f, NEW X, NEW known, NEW round \in Nat, NEW next \in Nat,
           \A s \in TheApps : Len(known[s]) \in Nat,
           \A at \in 1 .. Len(AppsInOrder) : Share(f, X, AppsInOrder[at]) = DueIn(round, next, at, known)
    PROVE  EvenShares(f, X, known)
<1> SUFFICES ASSUME NEW s \in TheApps, NEW t \in TheApps, Share(f, X, s) + 1 < Share(f, X, t)
             PROVE  Share(f, X, s) = Len(known[s])
  BY DEF EvenShares
<1>1. PICK at \in 1 .. Len(AppsInOrder) : s = AppsInOrder[at]
  BY AppsAreApart
<1>2. PICK j \in 1 .. Len(AppsInOrder) : t = AppsInOrder[j]
  BY AppsAreApart
<1>3. /\ Share(f, X, s) = DueIn(round, next, at, known)
      /\ Share(f, X, t) = DueIn(round, next, j, known)
  BY <1>1, <1>2
<1>4. PICK a \in Nat : a = Len(known[s])
  OBVIOUS
<1>5. PICK b \in Nat : b = Len(known[t])
  OBVIOUS
<1>6. /\ DueIn(round, next, at, known) \in {a, round, round + 1}
      /\ DueIn(round, next, at, known) # a => DueIn(round, next, at, known) >= round
  BY <1>1, <1>4 DEF DueIn
<1>7. DueIn(round, next, j, known) \in {b, round, round + 1} /\ DueIn(round, next, j, known) <= round + 1
  BY <1>2, <1>5 DEF DueIn
<1>8. PICK p \in Nat : p = Share(f, X, s) /\ (p # a => p >= round)
  BY <1>3, <1>6
<1>9. PICK q \in Nat : q = Share(f, X, t) /\ q <= round + 1
  BY <1>3, <1>7
<1>10. p + 1 < q
  BY <1>8, <1>9
<1> QED  BY <1>4, <1>8, <1>9, <1>10

(* After the last app it is the first one's turn, in the next round. *)
LEMMA NextInRound ==
    ASSUME NEW N \in Nat \ {0}, NEW next \in 1 .. N
    PROVE  /\ next < N => (next % N) + 1 = next + 1
           /\ next = N => (next % N) + 1 = 1
           /\ ((next - 1) % N) + 1 = next
<1>1. \A a \in 0 .. N - 1 : a % N = a
  OBVIOUS
<1>2. N % N = 0
  OBVIOUS
<1> QED  BY <1>1, <1>2

GoesOn(later, round, next, N, known) ==
    \A at \in 1 .. N :
      DueIn(later, (next % N) + 1, at, known) =
        IF at # next \/ DueIn(round, next, at, known) = Len(known[AppsInOrder[at]])
        THEN DueIn(round, next, at, known) ELSE DueIn(round, next, at, known) + 1

LEMMA RoundGoesOn ==
    ASSUME NEW N \in Nat \ {0}, N = Len(AppsInOrder), NEW next \in 1 .. N, NEW round \in Nat, NEW known,
           \A s \in TheApps : Len(known[s]) \in Nat
    PROVE  \E later \in Nat : GoesOn(later, round, next, N, known)
<1>1. \A at \in 1 .. N : Len(known[AppsInOrder[at]]) \in Nat
  BY AppsAreApart
<1>2. CASE next < N
  <2>1. (next % N) + 1 = next + 1
    BY <1>2, NextInRound
  <2>2. ASSUME NEW at \in 1 .. N
        PROVE  DueIn(round, next + 1, at, known) =
                 IF at # next \/ DueIn(round, next, at, known) = Len(known[AppsInOrder[at]])
                 THEN DueIn(round, next, at, known) ELSE DueIn(round, next, at, known) + 1
    <3>1. PICK a \in Nat : a = Len(known[AppsInOrder[at]])
      BY <1>1
    <3> QED  BY <3>1 DEF DueIn
  <2> QED  BY <2>1, <2>2 DEF GoesOn
<1>3. CASE next = N
  <2>1. (next % N) + 1 = 1
    BY <1>3, NextInRound
  <2>2. ASSUME NEW at \in 1 .. N
        PROVE  DueIn(round + 1, 1, at, known) =
                 IF at # next \/ DueIn(round, next, at, known) = Len(known[AppsInOrder[at]])
                 THEN DueIn(round, next, at, known) ELSE DueIn(round, next, at, known) + 1
    <3>1. PICK a \in Nat : a = Len(known[AppsInOrder[at]])
      BY <1>1
    <3> QED  BY <1>3, <3>1 DEF DueIn
  <2> QED  BY <2>1, <2>2 DEF GoesOn
<1> QED  BY <1>2, <1>3

(* The front of a list. *)
LEMMA FrontIs ==
    ASSUME NEW T, NEW list \in Seq(T), IsInjective(list), NEW most \in Nat
    PROVE  LET front == SubSeq(list, 1, Min({most, Len(list)}))
           IN  /\ front \in Seq(T) /\ front \in Seq(ToSet(front)) /\ IsInjective(front)
               /\ \E m \in 0 .. Len(list) : ToSet(front) = FirstOnes(list, m)
               /\ ToSet(front) \subseteq ToSet(list)
<1>1. PICK n \in Nat : n = Len(list) /\ DOMAIN list = 1 .. n
  OBVIOUS
<1>2. PICK m \in Nat : m = Min({most, n}) /\ m <= n
  <2> DEFINE x == IF most <= n THEN most ELSE n
  <2>1. x \in {most, n} /\ x <= most /\ x <= n /\ x \in Nat
    OBVIOUS
  <2>2. Min({most, n}) = x
    <3> HIDE DEF x
    <3> QED  BY <2>1 DEF Min
  <2> QED  BY <2>1, <2>2
<1> DEFINE front == SubSeq(list, 1, m)
<1>3. /\ front \in Seq(T) /\ Len(front) = m
      /\ \A k \in 1 .. m : front[k] = list[k]
  <2>1. \A k \in 1 .. m : list[k] \in T
    BY <1>1, <1>2
  <2>2. /\ SubSeq(list, 1, m) \in Seq(T)
        /\ Len(SubSeq(list, 1, m)) = IF 1 <= m THEN m - 1 + 1 ELSE 0
        /\ \A k \in 1 .. m - 1 + 1 : SubSeq(list, 1, m)[k] = list[1 + k - 1]
    BY <2>1, SubSeqProperties
  <2>3. /\ (IF 1 <= m THEN m - 1 + 1 ELSE 0) = m /\ m - 1 + 1 = m
        /\ \A k \in 1 .. m : 1 + k - 1 = k
    OBVIOUS
  <2> QED  BY <2>2, <2>3
<1>4. SubSeq(list, 1, Min({most, Len(list)})) = front
  BY <1>1, <1>2
<1> HIDE DEF front
<1>5. DOMAIN front = 1 .. m
  BY <1>3
<1>5a. 1 .. m \subseteq 1 .. n
  BY <1>2
<1>6. ToSet(front) = FirstOnes(list, m)
  BY <1>3, <1>5 DEF ToSet, FirstOnes
<1>7. IsInjective(front)
  BY <1>1, <1>3, <1>5, <1>5a DEF IsInjective
<1>8. front \in Seq(ToSet(front))
  <2>1. front \in [1 .. m -> ToSet(front)]
    BY <1>3, <1>5 DEF ToSet
  <2> QED  BY <2>1
<1>9. ToSet(front) \subseteq ToSet(list)
  BY <1>1, <1>6, <1>5a DEF ToSet, FirstOnes
<1>10. m \in 0 .. Len(list)
  BY <1>1, <1>2
<1> QED  BY <1>3, <1>4, <1>6, <1>7, <1>8, <1>9, <1>10

(* The tools of a run are finitely many. *)
LEMMA ToolsAreFinite ==
    ASSUME NEW list, NEW f, NEW known, RoutesOK(list, f, known)
    PROVE  IsFiniteSet(DOMAIN f) /\ Len(list) \in Nat /\ DOMAIN list = 1 .. Len(list)
<1>1. list \in Seq(DOMAIN f) /\ DOMAIN f = ToSet(list)
  BY DEF RoutesOK
<1>2. Len(list) \in Nat /\ DOMAIN list = 1 .. Len(list)
  BY <1>1
<1>3. IsFiniteSet(1 .. Len(list))
  BY <1>2, FS_Interval
<1>4. list \in Surjection(1 .. Len(list), ToSet(list))
  <2>1. list \in [1 .. Len(list) -> ToSet(list)]
    BY <1>1, <1>2
  <2> QED  BY <1>2, <2>1 DEF Surjection, ToSet
<1>5. IsFiniteSet(ToSet(list))
  BY <1>3, <1>4, FS_Surjection
<1> QED  BY <1>1, <1>2, <1>5

(* No tools are in order. *)
LEMMA NoToolsAreFine ==
    ASSUME NEW known
    PROVE  /\ RoutesOK(<<>>, NoRoutes, known) /\ FromTheFront(NoRoutes, known)
           /\ EvenOK(<<>>, NoRoutes, known)
           /\ (\A s \in TheApps : Len(known[s]) \in Nat) => RoundsOK(1, NoRoutes, known)
<1>1. DOMAIN NoRoutes = {}
  BY DEF NoRoutes
<1>2. ToSet(<<>>) = {} /\ IsInjective(<<>>) /\ Len(<<>>) = 0 /\ <<>> \in Seq({})
  <2>1. <<>> \in Seq({})
    BY EmptySeq
  <2> QED  BY <2>1 DEF ToSet, IsInjective
<1>3. \A s : Share(NoRoutes, {}, s) = 0
  <2>1. Cardinality({}) = 0
    BY FS_EmptySet
  <2>2. \A s : {n \in {} : NoRoutes[n].app = s} = {}
    OBVIOUS
  <2> QED  BY <2>1, <2>2 DEF Share
<1>4. RoutesOK(<<>>, NoRoutes, known)
  BY <1>1, <1>2 DEF RoutesOK
<1>5. FromTheFront(NoRoutes, known)
  BY <1>1 DEF FromTheFront
<1>6. EvenOK(<<>>, NoRoutes, known)
  <2>1. FirstOnes(<<>>, 0) = {}
    BY DEF FirstOnes
  <2>2. EvenShares(NoRoutes, {}, known)
    BY <1>3 DEF EvenShares
  <2>3. \A m \in 0 .. Len(<<>>) : m = 0
    BY <1>2
  <2> QED  BY <2>1, <2>2, <2>3 DEF EvenOK
<1>7. ASSUME \A s \in TheApps : Len(known[s]) \in Nat  PROVE RoundsOK(1, NoRoutes, known)
  <2>1. \A at \in 1 .. Len(AppsInOrder) : DueIn(0, 1, at, known) = 0
    BY <1>7, AppsAreApart DEF DueIn
  <2>2. Len(AppsInOrder) # 0 => 1 <= Len(AppsInOrder)
    BY AppsAreApart
  <2> QED  BY <1>1, <1>3, <2>1, <2>2 DEF RoundsOK
<1> QED  BY <1>4, <1>5, <1>6, <1>7

(* What is known of the apps once dealing starts, and a route more. *)
AreKnown(known) == \A s \in TheApps : known[s] \in Surfaces[s] \cup {<<>>}
WithRoute(g, f, name, s, tool) ==
    /\ DOMAIN g = DOMAIN f \cup {name} /\ \A n \in DOMAIN f \ {name} : g[n] = f[n]
    /\ g[name].app = s /\ g[name].tool = tool

(* A tool is dealt. *)
LEMMA DealtOneMore ==
    ASSUME NEW list, NEW f, NEW known, RoutesOK(list, f, known), FromTheFront(f, known), EvenOK(list, f, known),
           AreKnown(known),
           NEW s \in TheApps, NEW c \in Nat, c = Share(f, DOMAIN f, s), c < Len(known[s]),
           NEW tool, tool = known[s][c + 1],
           NEW name, name = Exposed(BaseName[<<s, tool>>], DOMAIN f),
           NEW g, WithRoute(g, f, name, s, tool)
    PROVE  /\ RoutesOK(Append(list, name), g, known) /\ FromTheFront(g, known)
           /\ Share(g, DOMAIN g, s) = c + 1
           /\ \A t : t # s => Share(g, DOMAIN g, t) = Share(f, DOMAIN f, t)
           /\ EvenShares(g, DOMAIN g, known) => EvenOK(Append(list, name), g, known)
<1> DEFINE D == DOMAIN f
           list2 == Append(list, name)
<1>1. /\ list \in Seq(D) /\ IsInjective(list) /\ D = ToSet(list)
      /\ IsFiniteSet(D) /\ Len(list) \in Nat /\ DOMAIN list = 1 .. Len(list)
  BY ToolsAreFinite DEF RoutesOK
<1>2. /\ known[s] \in Seq(ToSet(known[s])) /\ IsInjective(known[s])
      /\ \A x \in ToSet(known[s]) : <<s, x>> \in DOMAIN BaseName
  BY ListsAreTools DEF AreKnown
<1>3. tool \in ToSet(known[s]) /\ c + 1 \in DOMAIN known[s]
  BY <1>2 DEF ToSet
<1>4. name \notin D /\ Len(name) <= MAX_TOOL_NAME_LENGTH
  <2> DEFINE base == BaseName[<<s, tool>>]
  <2>1. base \in Seq(ToSet(base)) /\ Len(base) <= MAX_TOOL_NAME_LENGTH
    BY <1>2, <1>3, NamesAssumption
  <2> HIDE DEF base
  <2>2. name = Exposed(base, D)
    BY DEF base
  <2> QED  BY <1>1, <2>1, <2>2, ExposedIsFree
<1>5. /\ DOMAIN g = D \cup {name} /\ \A n \in D : g[n] = f[n]
      /\ g[name].app = s /\ g[name].tool = tool
  BY <1>4 DEF WithRoute
<1>6. /\ Share(g, DOMAIN g, s) = c + 1
      /\ \A t : t # s => Share(g, DOMAIN g, t) = Share(f, D, t)
  <2>1. SameOn(f, g, D)
    BY <1>5 DEF SameOn
  <2>2. g[name].app = s /\ name \notin D /\ IsFiniteSet(D) /\ Share(f, D, s) = c
    BY <1>1, <1>4, <1>5
  <2> HIDE DEF D
  <2>3. PICK E : E = D \cup {name}
    OBVIOUS
  <2>4. IsOneMore(f, g, D, E, s)
    BY <2>1, <2>2, <2>3, OneToolMore
  <2> QED  BY <1>5, <2>2, <2>3, <2>4 DEF IsOneMore
<1>7. /\ list2 \in Seq(D \cup {name}) /\ Len(list2) = Len(list) + 1
      /\ DOMAIN list2 = 1 .. Len(list) + 1
      /\ \A k \in 1 .. Len(list) : list2[k] = list[k] /\ list[k] \in D
      /\ list2[Len(list) + 1] = name
  <2>1. list \in Seq(D \cup {name})
    <3>1. list \in [1 .. Len(list) -> D \cup {name}]
      BY <1>1
    <3> QED  BY <1>1, <3>1
  <2>2. list2 \in Seq(D \cup {name}) /\ Len(list2) = Len(list) + 1
    BY <2>1
  <2> QED  BY <1>1, <2>1, <2>2
<1> HIDE DEF list2
<1>8. IsInjective(list2)
  <2> SUFFICES ASSUME NEW at \in 1 .. Len(list) + 1, NEW j \in 1 .. Len(list) + 1, list2[at] = list2[j]
               PROVE  at = j
    BY <1>7 DEF IsInjective
  <2>1. at \in 1 .. Len(list) \/ at = Len(list) + 1
    BY <1>1
  <2>2. j \in 1 .. Len(list) \/ j = Len(list) + 1
    BY <1>1
  <2>3. CASE at \in 1 .. Len(list) /\ j \in 1 .. Len(list)
    BY <1>1, <1>7, <2>3 DEF IsInjective
  <2> QED  BY <1>4, <1>7, <2>1, <2>2, <2>3
<1>9. ToSet(list2) = D \cup {name}
  <2>1. ToSet(list2) = {list2[k] : k \in 1 .. Len(list)} \cup {name}
    <3>1. 1 .. Len(list) + 1 = 1 .. Len(list) \cup {Len(list) + 1}
      BY <1>1
    <3> QED  BY <1>7, <3>1 DEF ToSet
  <2>2. {list2[k] : k \in 1 .. Len(list)} = {list[k] : k \in 1 .. Len(list)}
    BY <1>7
  <2> QED  BY <1>1, <2>1, <2>2 DEF ToSet
<1>10. \A n \in D : ~(f[n].app = s /\ f[n].tool = tool)
  <2> SUFFICES ASSUME NEW n \in D, f[n].app = s, f[n].tool = tool  PROVE FALSE
    OBVIOUS
  <2>1. PICK j \in 1 .. c : tool = known[s][j]
    BY DEF FromTheFront
  <2>2. j \in DOMAIN known[s] /\ j # c + 1 /\ known[s][j] = known[s][c + 1]
    BY <1>2, <2>1
  <2> QED  BY <1>2, <1>3, <2>2 DEF IsInjective
<1>11. RoutesOK(list2, g, known)
  <2>1. \A n \in DOMAIN g : /\ g[n].app \in TheApps /\ g[n].tool \in ToSet(known[g[n].app])
                            /\ Len(n) <= MAX_TOOL_NAME_LENGTH
    BY <1>3, <1>4, <1>5 DEF RoutesOK
  <2>2. \A m, n \in DOMAIN g : g[m].app = g[n].app /\ g[m].tool = g[n].tool => m = n
    <3>1. \A m, n \in D : f[m].app = f[n].app /\ f[m].tool = f[n].tool => m = n
      BY DEF RoutesOK
    <3> QED  BY <1>5, <1>10, <3>1
  <2>3. list2 \in Seq(DOMAIN g) /\ DOMAIN g = ToSet(list2)
    BY <1>5, <1>7, <1>9
  <2> QED  BY <1>8, <2>1, <2>2, <2>3 DEF RoutesOK
<1>12. FromTheFront(g, known)
  <2> SUFFICES ASSUME NEW n \in DOMAIN g
               PROVE  \E j \in 1 .. Share(g, DOMAIN g, g[n].app) : g[n].tool = known[g[n].app][j]
    BY DEF FromTheFront
  <2>1. CASE n = name
    <3>1. c + 1 \in 1 .. Share(g, DOMAIN g, s)
      BY <1>6
    <3> QED  BY <1>5, <2>1, <3>1
  <2>2. CASE n \in D
    <3>1. PICK j \in 1 .. Share(f, D, f[n].app) : f[n].tool = known[f[n].app][j]
      BY <2>2 DEF FromTheFront
    <3>2. j \in 1 .. Share(g, DOMAIN g, f[n].app)
      <4>1. CASE f[n].app = s
        BY <1>6, <4>1
      <4>2. CASE f[n].app # s
        BY <1>6, <4>2
      <4> QED  BY <4>1, <4>2
    <3> QED  BY <1>5, <2>2, <3>1, <3>2
  <2> QED  BY <1>5, <2>1, <2>2
<1>13. ASSUME EvenShares(g, DOMAIN g, known)  PROVE EvenOK(list2, g, known)
  <2> SUFFICES ASSUME NEW m \in 0 .. Len(list) + 1  PROVE EvenShares(g, FirstOnes(list2, m), known)
    BY <1>7 DEF EvenOK
  <2>1. CASE m = Len(list) + 1
    <3>1. FirstOnes(list2, m) = DOMAIN g
      BY <1>5, <1>7, <1>9, <2>1 DEF FirstOnes, ToSet
    <3> QED  BY <1>13, <3>1
  <2>2. CASE m # Len(list) + 1
    <3>1. m \in 0 .. Len(list) /\ 1 .. m \subseteq 1 .. Len(list)
      BY <1>1, <2>2
    <3> DEFINE X == FirstOnes(list, m)
    <3>2. FirstOnes(list2, m) = X /\ X \subseteq D
      BY <1>7, <3>1 DEF FirstOnes
    <3>3. EvenShares(f, X, known)
      BY <3>1 DEF EvenOK
    <3>4. ASSUME NEW t  PROVE Share(g, X, t) = Share(f, X, t)
      <4>1. SameOn(f, g, X)
        BY <1>5, <3>2 DEF SameOn
      <4> HIDE DEF X
      <4> QED  BY <4>1, ShareAgrees
    <3> HIDE DEF X
    <3> QED  BY <3>2, <3>3, <3>4 DEF EvenShares
  <2> QED  BY <2>1, <2>2
<1> QED  BY <1>6, <1>11, <1>12, <1>13 DEF list2

LEMMA InToolLists ==
    /\ \A s \in TheApps : Surfaces[s] \subseteq ToolLists
    /\ <<>> \in ToolLists /\ Unlisted \in ToolLists
<1>1. PICK A : A = UNION {Surfaces[s] : s \in TheApps}
  OBVIOUS
<1>2. ToolLists = A \cup {<<>>, Unlisted}
  BY <1>1 DEF ToolLists
<1>3. <<>> \in {<<>>, Unlisted} /\ Unlisted \in {<<>>, Unlisted}
  BY Zenon
<1>4. \A s \in TheApps : Surfaces[s] \subseteq A
  BY <1>1
<1>5. \A x : x \in {<<>>, Unlisted} \/ x \in A => x \in ToolLists
  BY <1>2
<1> QED  BY <1>3, <1>4, <1>5

LEMMA InitToolsetInv == ToolsetInit => ToolsetInv
<1> SUFFICES ASSUME ToolsetInit PROVE ToolsetInv
  OBVIOUS
<1>1. tools = <<>> /\ routes = NoRoutes /\ dealing = [pc |-> "listing", next |-> 1]
  BY DEF ToolsetInit
<1>2. RoutesOK(tools, routes, listed)
  BY <1>1, NoToolsAreFine
<1>3. ListsInv
  <2>1. /\ surface \in [TheApps -> UNION {Surfaces[s] : s \in TheApps}]
        /\ \A s \in TheApps : surface[s] \in Surfaces[s]
        /\ cached = [s \in TheApps |-> <<>>] /\ listed = [s \in TheApps |-> Unlisted]
    BY DEF ToolsetInit, TheApps
  <2>2. dealing \in [pc : ToolPCs, next : Nat \ {0}] /\ dealing.pc = "listing" /\ dealing.next = 1
    BY <1>1 DEF ToolPCs
  <2>3. /\ surface \in [TheApps -> ToolLists] /\ cached \in [TheApps -> ToolLists]
        /\ listed \in [TheApps -> ToolLists]
    <3>1. UNION {Surfaces[s] : s \in TheApps} \subseteq ToolLists
      BY DEF ToolLists
    <3> QED  BY <2>1, <3>1, InToolLists
  <2>4. \A s \in TheApps : cached[s] = <<>> /\ listed[s] = Unlisted
    BY <2>1
  <2> QED  BY <1>1, <2>1, <2>2, <2>3, <2>4 DEF ListsInv
<1> QED  BY <1>1, <1>2, <1>3 DEF ToolsetInv

(* What is known of the apps once dealing starts. *)
LEMMA KnownApps ==
    ASSUME ListsInv, dealing.pc # "listing"
    PROVE  \A s \in TheApps : /\ listed[s] \in Surfaces[s] \cup {<<>>} /\ Len(listed[s]) \in Nat
                              /\ listed[s] \in Seq(ToSet(listed[s]))
<1>1. \A s \in TheApps : listed[s] \in Surfaces[s] \cup {<<>>}
  BY DEF ListsInv
<1>2. \A s \in TheApps : listed[s] \in Seq(ToSet(listed[s]))
  BY <1>1, ListsAreTools
<1>3. \A s \in TheApps : Len(listed[s]) \in Nat
  BY <1>2
<1> QED  BY <1>1, <1>2, <1>3

(* As long as apps are listed there are no tools. *)
LEMMA ListingKeeps ==
    ASSUME ToolsetInv, ListsInv', dealing.pc = "listing", UNCHANGED <<dealing, tools, routes>>
    PROVE  ToolsetInv'
<1>1. tools' = <<>> /\ routes' = NoRoutes /\ dealing'.pc = "listing"
  BY DEF ToolsetInv, ListsInv
<1>2. RoutesOK(tools', routes', listed')
  BY <1>1, NoToolsAreFine
<1> QED  BY <1>1, <1>2 DEF ToolsetInv

LEMMA DealKeeps == ASSUME ToolsetInv, Deal PROVE ToolsetInv'
<1>0. PICK N : N = Len(AppsInOrder)
  OBVIOUS
<1>1. /\ ListsInv /\ RoutesOK(tools, routes, listed) /\ FromTheFront(routes, listed)
      /\ RoundsOK(dealing.next, routes, listed) /\ EvenOK(tools, routes, listed)
      /\ dealing.pc = "dealing"
  BY DEF ToolsetInv, Deal
<1>2. \A s \in TheApps : listed[s] \in Surfaces[s] \cup {<<>>} /\ Len(listed[s]) \in Nat
  BY <1>1, KnownApps
<1>3. PICK next \in 1 .. N : next = dealing.next /\ N \in Nat \ {0}
  <2>1. N # 0 /\ N \in Nat
    <3>1. TheApps # {}
      BY DEF Deal, TheApps
    <3> QED  BY <1>0, <3>1, AppsAreApart
  <2> QED  BY <1>0, <1>1, <2>1 DEF ListsInv, RoundsOK
<1>4. Up = AppsInOrder[next] /\ Up \in TheApps
  <2>1. Up = AppsInOrder[((next - 1) % N) + 1]
    BY <1>0, <1>3 DEF Up, Turn
  <2> QED  BY <1>0, <1>3, <2>1, NextInRound, AppsAreApart
<1>5. PICK s \in TheApps : s = Up
  BY <1>4
<1>6. IsFiniteSet(DOMAIN routes)
  BY <1>1, ToolsAreFinite
<1>7. PICK c \in Nat : c = Share(routes, DOMAIN routes, s)
  BY <1>6, ShareIsNat
<1>8. DealtOf(Up) = c
  BY <1>5, <1>7 DEF DealtOf, Share
<1>9. PICK round \in Nat : \A at \in 1 .. N :
        Share(routes, DOMAIN routes, AppsInOrder[at]) = DueIn(round, next, at, listed)
  BY <1>0, <1>1, <1>3 DEF RoundsOK
<1>10. PICK later \in Nat : \A at \in 1 .. N :
         DueIn(later, (next % N) + 1, at, listed) =
           IF at # next \/ DueIn(round, next, at, listed) = Len(listed[AppsInOrder[at]])
           THEN DueIn(round, next, at, listed) ELSE DueIn(round, next, at, listed) + 1
  <2>1. \A t \in TheApps : Len(listed[t]) \in Nat
    BY <1>2
  <2>2. \E later \in Nat : GoesOn(later, round, next, N, listed)
    BY <1>0, <1>3, <1>9, <2>1, RoundGoesOn
  <2> QED  BY <2>2 DEF GoesOn
<1>11. c = DueIn(round, next, next, listed) /\ c <= Len(listed[s])
  <2>1. c = DueIn(round, next, next, listed)
    BY <1>3, <1>4, <1>5, <1>7, <1>9
  <2>2. PICK most \in Nat : most = Len(listed[AppsInOrder[next]])
    BY <1>2, <1>4
  <2> QED  BY <1>4, <1>5, <2>1, <2>2 DEF DueIn
<1>12. dealing'.next = (next % N) + 1 /\ dealing'.pc = "dealing"
  BY <1>0, <1>1, <1>3 DEF Deal, ListsInv
<1>13. (next % N) + 1 \in 1 .. N
  BY <1>3, NextInRound
<1>14. ListsInv'
  <2>1. UNCHANGED <<surface, cached, listed>> /\ dealing' = [dealing EXCEPT !.next = (next % N) + 1]
    BY <1>0, <1>3 DEF Deal
  <2>2. PICK h : h = (next % N) + 1 /\ h \in Nat \ {0} /\ dealing' = [dealing EXCEPT !.next = h]
    BY <1>3, <1>13, <2>1
  <2>3. dealing' \in [pc : ToolPCs, next : Nat \ {0}]
    BY <1>1, <2>2 DEF ListsInv
  <2> QED  BY <1>1, <1>12, <2>1, <2>3 DEF ListsInv
<1>15. CASE c = Len(listed[s])
  <2>1. UNCHANGED <<tools, routes, listed>>
    BY <1>5, <1>8, <1>15 DEF Deal
  <2>2. \A at \in 1 .. N : Share(routes, DOMAIN routes, AppsInOrder[at]) = DueIn(later, (next % N) + 1, at, listed)
    BY <1>3, <1>4, <1>5, <1>9, <1>10, <1>11, <1>15
  <2>3. RoundsOK((next % N) + 1, routes, listed)
    BY <1>0, <1>13, <2>2 DEF RoundsOK
  <2> QED  BY <1>1, <1>12, <1>14, <2>1, <2>3 DEF ToolsetInv
<1>16. CASE c # Len(listed[s])
  <2> DEFINE x == listed[s][c + 1]
             m == Exposed(BaseName[<<s, x>>], DOMAIN routes)
  <2>1. /\ tools' = Append(tools, m)
        /\ routes' = [n \in DOMAIN routes \cup {m} |->
                         IF n = m THEN [app |-> s, tool |-> x] ELSE routes[n]]
    BY <1>5, <1>8, <1>16 DEF Deal
  <2>2. PICK tool : tool = x
    OBVIOUS
  <2>3. PICK name : name = m /\ name = Exposed(BaseName[<<s, tool>>], DOMAIN routes)
    BY <2>2
  <2> HIDE DEF m, x
  <2>9. PICK g : g = routes' /\ WithRoute(g, routes, name, s, tool)
    <3>1. routes' = [n \in DOMAIN routes \cup {name} |->
                        IF n = name THEN [app |-> s, tool |-> tool] ELSE routes[n]]
      BY <2>1, <2>2, <2>3
    <3>2. PICK g : g = [n \in DOMAIN routes \cup {name} |->
                           IF n = name THEN [app |-> s, tool |-> tool] ELSE routes[n]]
      OBVIOUS
    <3>3. WithRoute(g, routes, name, s, tool)
      BY <3>2 DEF WithRoute
    <3> QED  BY <3>1, <3>2, <3>3
  <2>10. c < Len(listed[s]) /\ AreKnown(listed)
    BY <1>2, <1>7, <1>11, <1>16 DEF AreKnown
  <2>4. /\ RoutesOK(Append(tools, name), g, listed) /\ FromTheFront(g, listed)
        /\ Share(g, DOMAIN g, s) = c + 1
        /\ \A t : t # s => Share(g, DOMAIN g, t) = Share(routes, DOMAIN routes, t)
        /\ EvenShares(g, DOMAIN g, listed) => EvenOK(Append(tools, name), g, listed)
    <3>1. tool = listed[s][c + 1]
      BY <2>2 DEF x
    <3> QED  BY <1>1, <1>7, <2>3, <2>9, <2>10, <3>1, DealtOneMore
  <2>5. ASSUME NEW at \in 1 .. N
        PROVE  Share(g, DOMAIN g, AppsInOrder[at]) = DueIn(later, (next % N) + 1, at, listed)
    <3>1. CASE at = next
      BY <1>3, <1>4, <1>5, <1>10, <1>11, <1>16, <2>4, <3>1
    <3>2. CASE at # next
      <4>1. AppsInOrder[at] # s
        BY <1>0, <1>3, <1>4, <1>5, <3>2, AppsAreApart
      <4>2. Share(g, DOMAIN g, AppsInOrder[at]) = DueIn(round, next, at, listed)
        BY <1>9, <2>4, <4>1
      <4> QED  BY <1>10, <3>2, <4>2
    <3> QED  BY <3>1, <3>2
  <2>6. EvenShares(g, DOMAIN g, listed)
    <3>1. PICK h \in Nat : h = (next % N) + 1
      BY <1>13
    <3>2. \A at \in 1 .. Len(AppsInOrder) : Share(g, DOMAIN g, AppsInOrder[at]) = DueIn(later, h, at, listed)
      BY <1>0, <2>5, <3>1
    <3>3. PICK X : X = DOMAIN g
      OBVIOUS
    <3> QED  BY <1>2, <3>2, <3>3, RoundIsEven
  <2>7. RoundsOK((next % N) + 1, g, listed)
    BY <1>0, <1>13, <2>5 DEF RoundsOK
  <2>8. listed' = listed
    BY DEF Deal
  <2> QED  BY <1>12, <1>14, <2>1, <2>3, <2>4, <2>6, <2>7, <2>8, <2>9 DEF ToolsetInv
<1> QED  BY <1>15, <1>16

LEMMA NarrowKeeps == ASSUME ToolsetInv, Narrow PROVE ToolsetInv'
<1>1. /\ ListsInv /\ RoutesOK(tools, routes, listed) /\ EvenOK(tools, routes, listed)
      /\ dealing.pc = "dealt" /\ UNCHANGED <<surface, cached, listed>>
  BY DEF ToolsetInv, Narrow
<1>2. PICK keep \in Relevant : \E sent :
        /\ sent = SubSeq(keep, 1, Min({MAX_BRIDGED_TOOLS, Len(keep)}))
        /\ tools' = sent /\ routes' = Restrict(routes, ToSet(sent))
        /\ dealing' = [dealing EXCEPT !.pc = IF keep = tools THEN "whole" ELSE "narrowed"]
  BY DEF Narrow
<1>3. PICK sent :
        /\ sent = SubSeq(keep, 1, Min({MAX_BRIDGED_TOOLS, Len(keep)}))
        /\ tools' = sent /\ routes' = Restrict(routes, ToSet(sent))
        /\ dealing' = [dealing EXCEPT !.pc = IF keep = tools THEN "whole" ELSE "narrowed"]
  BY <1>2
<1>4. tools \in Seq(DOMAIN routes) /\ IsInjective(tools) /\ DOMAIN routes = ToSet(tools)
  BY <1>1 DEF RoutesOK
<1>5. keep \in Seq(DOMAIN routes) /\ IsInjective(keep)
  <2>1. CASE keep = tools
    BY <1>4, <2>1
  <2>2. CASE keep # tools
    <3>1. PICK named \in SUBSET DOMAIN tools : keep = Filtered(tools, named)
      BY <1>2, <2>2 DEF Relevant
    <3> QED  BY <1>4, <3>1, FilteredIs
  <2> QED  BY <2>1, <2>2
<1>6. /\ sent \in Seq(ToSet(sent)) /\ IsInjective(sent)
      /\ \E m \in 0 .. Len(keep) : ToSet(sent) = FirstOnes(keep, m)
      /\ ToSet(sent) \subseteq DOMAIN routes
  <2>1. MAX_BRIDGED_TOOLS \in Nat
    BY CapsAssumption
  <2>2. /\ sent \in Seq(DOMAIN routes) /\ sent \in Seq(ToSet(sent)) /\ IsInjective(sent)
        /\ \E m \in 0 .. Len(keep) : ToSet(sent) = FirstOnes(keep, m)
    BY <1>3, <1>5, <2>1, FrontIs
  <2>3. ToSet(sent) \subseteq DOMAIN routes
    BY <2>2 DEF ToSet
  <2> QED  BY <2>2, <2>3
<1>7. PICK g, X : /\ X = ToSet(sent) /\ g = routes' /\ DOMAIN g = X
                  /\ \A n \in X : g[n] = routes[n] /\ n \in DOMAIN routes
  <2>1. PICK X : X = ToSet(sent) /\ X \subseteq DOMAIN routes
    BY <1>6
  <2>2. routes' = [n \in X |-> routes[n]]
    BY <1>3, <2>1 DEF Restrict
  <2> QED  BY <2>1, <2>2
<1>8. RoutesOK(sent, g, listed)
  <2>1. \A n \in X : /\ g[n].app \in TheApps /\ g[n].tool \in ToSet(listed[g[n].app])
                     /\ Len(n) <= MAX_TOOL_NAME_LENGTH
    BY <1>1, <1>7 DEF RoutesOK
  <2>2. \A m, n \in X : g[m].app = g[n].app /\ g[m].tool = g[n].tool => m = n
    <3>1. \A m, n \in DOMAIN routes :
            routes[m].app = routes[n].app /\ routes[m].tool = routes[n].tool => m = n
      BY <1>1 DEF RoutesOK
    <3> QED  BY <1>7, <3>1
  <2> QED  BY <1>6, <1>7, <2>1, <2>2 DEF RoutesOK
<1>9. PICK q \in {"whole", "narrowed"} :
        /\ dealing' = [dealing EXCEPT !.pc = q]
        /\ q = "whole" => keep = tools
  BY <1>3
<1>10. dealing' \in [pc : ToolPCs, next : Nat \ {0}] /\ dealing'.pc = q
  BY <1>1, <1>9 DEF ListsInv, ToolPCs
<1>11. ListsInv'
  BY <1>1, <1>9, <1>10 DEF ListsInv
<1>12. ASSUME q = "whole"  PROVE EvenShares(g, X, listed)
  <2>1. PICK m \in 0 .. Len(tools) : X = FirstOnes(tools, m)
    BY <1>6, <1>7, <1>9, <1>12
  <2>2. EvenShares(routes, X, listed)
    BY <1>1, <2>1 DEF EvenOK
  <2>3. SameOn(routes, g, X)
    BY <1>7 DEF SameOn
  <2>4. ASSUME NEW t  PROVE Share(g, X, t) = Share(routes, X, t)
    BY <2>3, ShareAgrees
  <2> QED  BY <2>2, <2>4 DEF EvenShares
<1> QED  BY <1>1, <1>3, <1>7, <1>8, <1>10, <1>11, <1>12 DEF ToolsetInv

LEMMA NextToolsetInv == ToolsetInv /\ [ToolsetNext]_toolsetVars => ToolsetInv'
<1> SUFFICES ASSUME ToolsetInv, [ToolsetNext]_toolsetVars PROVE ToolsetInv'
  OBVIOUS
<1>1. ListsInv
  BY DEF ToolsetInv
<1>2. /\ surface \in [TheApps -> ToolLists] /\ cached \in [TheApps -> ToolLists]
      /\ listed \in [TheApps -> ToolLists]
      /\ \A s \in TheApps : Surfaces[s] \subseteq ToolLists
      /\ <<>> \in ToolLists /\ Unlisted \in ToolLists
  BY <1>1, InToolLists DEF ListsInv
<1>3. CASE ChangeSurface
  <2>1. PICK s \in TheApps : \E list \in Surfaces[s] :
          surface' = [surface EXCEPT ![s] = list] /\ UNCHANGED <<cached, listed, dealing, tools, routes>>
    BY <1>3 DEF ChangeSurface, TheApps
  <2>2. PICK list \in Surfaces[s] :
          surface' = [surface EXCEPT ![s] = list] /\ UNCHANGED <<cached, listed, dealing, tools, routes>>
    BY <2>1
  <2>3. ListsInv'
    BY <1>1, <1>2, <2>2 DEF ListsInv
  <2> QED  BY <2>2, <2>3 DEF ToolsetInv
<1>4. CASE CacheExpires
  <2>1. PICK s \in TheApps :
          cached' = [cached EXCEPT ![s] = <<>>] /\ UNCHANGED <<surface, listed, dealing, tools, routes>>
    BY <1>4 DEF CacheExpires, TheApps
  <2>2. cached' \in [TheApps -> ToolLists] /\ \A t \in TheApps : cached'[t] \in {cached[t], <<>>}
    BY <1>2, <2>1
  <2>3. ListsInv'
    BY <1>1, <2>1, <2>2 DEF ListsInv
  <2> QED  BY <2>1, <2>3 DEF ToolsetInv
<1>5. ASSUME NEW s \in TheApps, ListCached(s) \/ ListLive(s) \/ ListFails(s)  PROVE ToolsetInv'
  <2>1. PICK list \in Surfaces[s] \cup {<<>>}, cache \in Surfaces[s] \cup {<<>>} :
          /\ dealing.pc = "listing" /\ UNCHANGED <<surface, dealing, tools, routes>>
          /\ listed' = [listed EXCEPT ![s] = list]
          /\ cached' = [cached EXCEPT ![s] = cache]
    <3>1. surface[s] \in Surfaces[s] /\ cached[s] \in Surfaces[s] \cup {<<>>}
      BY <1>1 DEF ListsInv
    <3>2. cached = [cached EXCEPT ![s] = cached[s]]
      BY <1>1 DEF ListsInv
    <3> QED  BY <1>5, <3>1, <3>2 DEF ListCached, ListLive, ListFails, Listing
  <2>2. list \in ToolLists /\ cache \in ToolLists
    BY <1>2, <2>1
  <2>3. /\ listed' \in [TheApps -> ToolLists] /\ cached' \in [TheApps -> ToolLists]
        /\ \A t \in TheApps : /\ listed'[t] = IF t = s THEN list ELSE listed[t]
                              /\ cached'[t] = IF t = s THEN cache ELSE cached[t]
    BY <1>2, <2>1, <2>2
  <2>4. ListsInv'
    BY <1>1, <2>1, <2>3 DEF ListsInv
  <2> QED  BY <2>1, <2>4, ListingKeeps
<1>6. CASE StartDealing
  <2>1. /\ dealing.pc = "listing" /\ \A s \in TheApps : listed[s] # Unlisted
        /\ dealing' = [dealing EXCEPT !.pc = "dealing"]
        /\ UNCHANGED <<surface, cached, listed, tools, routes>>
    BY <1>6 DEF StartDealing, TheApps
  <2>2. /\ dealing' \in [pc : ToolPCs, next : Nat \ {0}] /\ dealing'.pc = "dealing"
        /\ dealing'.next = 1 /\ tools = <<>> /\ routes = NoRoutes
    BY <1>1, <2>1 DEF ListsInv, ToolPCs
  <2>3. ListsInv'
    BY <1>1, <2>1, <2>2 DEF ListsInv
  <2>4. \A s \in TheApps : Len(listed[s]) \in Nat
    <3>1. \A s \in TheApps : listed[s] \in Surfaces[s] \cup {<<>>}
      BY <1>1, <2>1 DEF ListsInv
    <3>2. \A s \in TheApps : listed[s] \in Seq(ToSet(listed[s]))
      BY <3>1, ListsAreTools
    <3> QED  BY <3>2
  <2> QED  BY <2>1, <2>2, <2>3, <2>4, NoToolsAreFine DEF ToolsetInv
<1>7. CASE Deal
  BY <1>7, DealKeeps
<1>8. CASE StartRouting
  <2>1. /\ dealing.pc = "dealing" /\ dealing' = [dealing EXCEPT !.pc = "dealt"]
        /\ UNCHANGED <<surface, cached, listed, tools, routes>>
    BY <1>8 DEF StartRouting
  <2>2. dealing' \in [pc : ToolPCs, next : Nat \ {0}] /\ dealing'.pc = "dealt"
    BY <1>1, <2>1 DEF ListsInv, ToolPCs
  <2>3. ListsInv'
    BY <1>1, <2>1, <2>2 DEF ListsInv
  <2> QED  BY <2>1, <2>2, <2>3 DEF ToolsetInv
<1>9. CASE Narrow
  BY <1>9, NarrowKeeps
<1>10. CASE NextRun
  <2>1. /\ dealing' = [pc |-> "listing", next |-> 1] /\ listed' = [s \in TheApps |-> Unlisted]
        /\ tools' = <<>> /\ routes' = NoRoutes /\ UNCHANGED <<surface, cached>>
    BY <1>10 DEF NextRun, TheApps
  <2>2. dealing' \in [pc : ToolPCs, next : Nat \ {0}] /\ dealing'.pc = "listing" /\ dealing'.next = 1
    BY <2>1 DEF ToolPCs
  <2>3. ListsInv'
    <3>1. listed' \in [TheApps -> ToolLists] /\ \A t \in TheApps : listed'[t] = Unlisted
      BY <1>2, <2>1
    <3> QED  BY <1>1, <2>1, <2>2, <3>1 DEF ListsInv
  <2>4. RoutesOK(tools', routes', listed')
    BY <2>1, NoToolsAreFine
  <2> QED  BY <2>2, <2>3, <2>4 DEF ToolsetInv
<1>11. CASE UNCHANGED toolsetVars
  BY <1>11 DEF toolsetVars, ToolsetInv, ListsInv
<1> QED  BY <1>3, <1>4, <1>5, <1>6, <1>7, <1>8, <1>9, <1>10, <1>11 DEF ToolsetNext, TheApps

LEMMA ToolsetTyped == ToolsetInv => ToolsetTypeOK
<1> SUFFICES ASSUME ToolsetInv PROVE ToolsetTypeOK
  OBVIOUS
<1>1. ListsInv /\ RoutesOK(tools, routes, listed)
  BY DEF ToolsetInv
<1>2. \A k \in DOMAIN tools : tools[k] \in DOMAIN routes
  BY <1>1 DEF RoutesOK
<1>3. \A k \in DOMAIN tools : Len(tools[k]) <= MAX_TOOL_NAME_LENGTH
  BY <1>1, <1>2 DEF RoutesOK
<1> QED  BY <1>1, <1>3 DEF ToolsetTypeOK, ListsInv, ToolPCs, TheApps

LEMMA ToolsetInvAgrees == ToolsetInv => ToolsetAgrees
<1> SUFFICES ASSUME ToolsetInv PROVE ToolsetAgrees
  OBVIOUS
<1>1. ListsInv /\ RoutesOK(tools, routes, listed)
  BY DEF ToolsetInv
<1>2. IsInjective(tools) /\ DOMAIN routes = ToSet(tools)
  BY <1>1 DEF RoutesOK
<1>3. \A m, n \in DOMAIN routes : routes[m] = routes[n] => m = n
  BY <1>1 DEF RoutesOK
<1>4. ASSUME dealing.pc \in {"dealing", "dealt", "whole"}  PROVE EvenShares(routes, ToSet(tools), listed)
  <2>1. CASE dealing.pc = "whole"
    BY <2>1 DEF ToolsetInv
  <2>2. CASE dealing.pc # "whole"
    <3>1. EvenOK(tools, routes, listed)
      BY <1>4, <2>2 DEF ToolsetInv
    <3>2. FirstOnes(tools, Len(tools)) = ToSet(tools) /\ Len(tools) \in 0 .. Len(tools)
      BY <1>1, ToolsAreFinite DEF FirstOnes, ToSet
    <3> QED  BY <3>1, <3>2 DEF EvenOK
  <2> QED  BY <2>1, <2>2
<1>5. \A s : Cardinality(Sent(s)) = Share(routes, ToSet(tools), s)
  BY DEF Sent, Share
<1>6. dealing.pc \in {"dealing", "dealt", "whole"} =>
        \A s, t \in ToSet(AppsInOrder) :
          Cardinality(Sent(s)) + 1 < Cardinality(Sent(t)) => Cardinality(Sent(s)) = Len(listed[s])
  <2> HIDE DEF Sent
  <2> QED  BY <1>4, <1>5 DEF EvenShares, TheApps
<1> QED  BY <1>2, <1>3, <1>6 DEF ToolsetAgrees

(* What a run is listed, dealt and sent is of the right kind. *)
THEOREM ToolsetInvariant == ToolsetSpec => []ToolsetInv
<1> QED  BY InitToolsetInv, NextToolsetInv, PTL DEF ToolsetSpec

THEOREM ToolsetTypes == ToolsetSpec => []ToolsetTypeOK
<1> QED  BY ToolsetInvariant, ToolsetTyped, PTL

(* The tools a run is sent and the routes its calls take agree one to one, whatever
   the apps call their tools and however names are cut (exposedName), and while
   nothing is narrowed no app is behind another by two (dealing in rounds). *)
THEOREM ToolsetIsRouted == ToolsetSpec => []ToolsetAgrees
<1> QED  BY ToolsetInvariant, ToolsetInvAgrees, PTL

-----------------------------------------------------------------------------
(* The sum.  A behaviour follows one component and the others do not move, so *)
(* it is a behaviour of every one of them, but for the planner and the        *)
(* migration: these are at rest while something else is followed.             *)

PlanFollowed == focus = "plan" => LoopInv /\ AccountsForCharge
MigrationFollowed == focus = "migration" => MigrationInv

LEMMA PartsOfTheAgent ==
    AgentSpec => /\ LedgerSpec /\ ApprovalsSpec /\ AssistantSpec /\ RulesSpec /\ MemorySpec
                 /\ RateLimitSpec /\ ReportsSpec /\ AttachedSpec /\ ToolsetSpec
<1> DEFINE agentVars == <<focus, ledgerVars, vars, approvalVars, assistantVars, attachedVars,
                          toolsetVars, reportVars, ruleVars, memoryVars, limitVars, migrationVars>>
<1>1. AgentInit => /\ LedgerInit /\ ApprovalsInit /\ AssistantInit /\ RulesInit /\ MemoryInit
                   /\ RateLimitInit /\ ReportsInit /\ AttachedInit /\ ToolsetInit
  BY DEF AgentInit
<1>2. [AgentNext]_agentVars => /\ [LedgerNext]_ledgerVars /\ [ApprovalsNext]_approvalVars
                               /\ [AssistantNext]_assistantVars /\ [RulesNext]_ruleVars
                               /\ [MemoryNext]_memoryVars /\ [RateLimitNext]_limitVars
                               /\ [ReportsNext]_reportVars /\ [AttachedNext]_attachedVars
                               /\ [ToolsetNext]_toolsetVars
  BY DEF AgentNext
<1> QED  BY <1>1, <1>2, PTL DEF AgentSpec, LedgerSpec, ApprovalsSpec, AssistantSpec, RulesSpec,
            MemorySpec, RateLimitSpec, ReportsSpec, AttachedSpec, ToolsetSpec

LEMMA FollowedParts == AgentSpec => [](PlanFollowed /\ MigrationFollowed)
<1> DEFINE agentVars == <<focus, ledgerVars, vars, approvalVars, assistantVars, attachedVars,
                          toolsetVars, reportVars, ruleVars, memoryVars, limitVars, migrationVars>>
           Followed == PlanFollowed /\ MigrationFollowed
<1>1. AgentInit => Followed
  BY InitLoopInv, InitAccounts, InitMigrationInv DEF AgentInit, PlanFollowed, MigrationFollowed
<1>2. Followed /\ [AgentNext]_agentVars => Followed'
  <2> SUFFICES ASSUME Followed, [AgentNext]_agentVars PROVE Followed'
      OBVIOUS
  <2>1. focus' = focus /\ [Next]_vars /\ [RedenominationNext]_migrationVars
    BY DEF AgentNext
  <2>2. PlanFollowed'
    BY <2>1, NextLoopInv, NextAccounts DEF PlanFollowed
  <2>3. MigrationFollowed'
    BY <2>1, MigrationStep DEF MigrationFollowed
  <2> QED  BY <2>2, <2>3
<1> QED  BY <1>1, <1>2, PTL DEF AgentSpec

(* The credits of a workspace add up in every place that counts them: what a run
   pays is what it costs or all there was (recordEvent), the balance and the
   panel's row agree with what was granted and drawn, the ledger's one step takes
   what the loop of planAllocations takes, and the migration keeps balances. *)
THEOREM CreditsAddUp == AgentSpec => []LedgerAddsUp
<1>1. /\ PlanFollowed /\ MigrationFollowed /\ PaysWhatItCan /\ Reconciles => LedgerAddsUp
  <2>1. LoopInv /\ AccountsForCharge => LedgerPlanIsLoop
    BY LoopInvSpendsInOrder, LoopInvShortfall, PromisesFixThePlan
  <2> QED  BY <2>1 DEF PlanFollowed, MigrationFollowed, MigrationInv, LedgerAddsUp
<1> QED  BY <1>1, PartsOfTheAgent, FollowedParts, LedgerReconciles, PTL

(* The caps the code sets, of a rule's changes in a day (executeMutations) and of a
   caller's requests in a window (RateLimitGuard), are kept. *)
THEOREM CapsAreKept == AgentSpec => []CapsHold
<1>1. DailyCapHolds /\ WindowsHold => CapsHold
  BY DEF CapsHold
<1> QED  BY <1>1, PartsOfTheAgent, DailyCapKept, WindowsEnd, PTL

(* What a run remembered is what later runs are told. *)
THEOREM FactsStandFor == AgentSpec => []FactsStand
<1>1. FactsAreKept /\ NewestIsPrompted => FactsStand
  BY DEF FactsStand
<1> QED  BY <1>1, PartsOfTheAgent, FactsStay, NewestPrompted, PTL

(* Whichever part is followed, its state is of the right kind: the run of the
   whole agent checks this for all parts at once. *)
THEOREM AgentTypes == AgentSpec => []AgentTypeOK
<1> DEFINE agentVars == <<focus, ledgerVars, vars, approvalVars, assistantVars, attachedVars,
                          toolsetVars, reportVars, ruleVars, memoryVars, limitVars, migrationVars>>
           Followed == focus \in Parts
           PartsTyped == /\ LedgerTypeOK /\ ApprovalsTypeOK /\ AssistantTypeOK /\ AttachedTypeOK
                         /\ ToolsetTypeOK /\ ReportsTypeOK /\ RulesTypeOK /\ MemoryTypeOK
                         /\ RateLimitTypeOK
<1>1. AgentInit => Followed
  BY DEF AgentInit
<1>2. Followed /\ [AgentNext]_agentVars => Followed'
  <2>1. [AgentNext]_agentVars => UNCHANGED focus
    BY DEF AgentNext
  <2> QED  BY <2>1
<1>3. Followed /\ PartsTyped /\ PlanFollowed /\ MigrationFollowed => AgentTypeOK
  <2> SUFFICES ASSUME Followed, PartsTyped, PlanFollowed, MigrationFollowed  PROVE AgentTypeOK
    OBVIOUS
  <2>1. focus = "plan" => TypeOK
    BY DEF PlanFollowed, LoopInv
  <2>2. focus = "migration" => RedenominationTypeOK
    BY DEF MigrationFollowed, MigrationInv
  <2> QED  BY <2>1, <2>2 DEF AgentTypeOK, Parts
<1>4. MemoryInv => MemoryTypeOK
  BY DEF MemoryInv
<1> QED  BY <1>1, <1>2, <1>3, <1>4, PartsOfTheAgent, FollowedParts, LedgerTypes, ApprovalsTypes,
            AssistantTypes, AttachedTypes, ToolsetTypes, ReportsTypes, RulesTypes, MemoryInvariant,
            LimitTypes, PTL DEF AgentSpec

=============================================================================
