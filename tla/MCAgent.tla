------------------------------ MODULE MCAgent ------------------------------
(***************************************************************************)
(* What the agent does for a workspace and what that costs, on one small   *)
(* instance: the ledger and its planner, approvals, a run of the assistant *)
(* with the apps and tools it is given, the usage report, and the rules    *)
(* that change an ad account unasked.                                      *)
(*                                                                         *)
(* No property of one of them reads what another one writes, so each       *)
(* behaviour follows one and the states add up instead of multiplying.     *)
(* The runs of the ledger, the servers and the runs that remember are the  *)
(* same two elements, so that the ledger's symmetry serves all.            *)
(***************************************************************************)
EXTENDS MCCreditLedger, SpendPlan, MCApprovals, Assistant, Attached, Toolset, Reports,
        Rules, Memory, RateLimit, Redenomination

CONSTANTS x1, x2

VARIABLE focus

(* The planner gets every list of up to three grants, over all four buckets
   and remainders from 0 to 2. *)
MCInputs == UNION {[1..n -> [bucket : Buckets, remaining : 0..2]] : n \in 0..3}
MCCharges == {-1, 0, 1, 2, 3, 5}

(* One run confirms changes with buttons, the other in the text. *)
MCConfirmVia == [r \in AiRuns |-> IF r = x1 THEN "buttons" ELSE "inline"]
MCBatches == {<<"read">>, <<"write", "agreed">>}

MCThreadOf == ("t1" :> "main") @@ ("t2" :> "main") @@ ("t3" :> "side")
MCBranchOf == ("t1" :> "side") @@ ("t2" :> NoThread) @@ ("t3" :> NoThread)

(* One scheduled task; two members who talk to the agent. *)
MCSpends == {[kind |-> "thread", user |-> "ann", job |-> NoJob, credits |-> 1],
             [kind |-> "thread", user |-> "bob", job |-> NoJob, credits |-> 2],
             [kind |-> "scheduled_task", user |-> "ann", job |-> "j1", credits |-> 2]}

(* One statement fills the prompt alone, another fills half of it. *)
MCLength == [v \in {"short", "long"} |-> IF v = "short" THEN 1 ELSE 2]

(* What follows an update over a row that another write has changed is not
   followed further: the properties of Memory say nothing of its key. *)
MCNoneSlipped == slipped = {}

(* Two apps; the names of the first one's tools lose their difference by
   being cut, and the second one has a tool named what they become. *)
MCAppsInOrder == <<"a1", "a2">>
MCSurfaces == [s \in {"a1", "a2"} |->
                  IF s = "a1" THEN {<<"x", "y", "z">>, <<"y">>} ELSE {<<"u", "v">>}]
MCBaseName == [p \in {"a1", "a2"} \X {"x", "y", "z", "u", "v"} |->
                  IF p[1] = "a1" THEN <<1, 1>> ELSE IF p[2] = "u" THEN <<1, 2>> ELSE <<3>>]

MCRuleKinds == {[action |-> "pause", scope |-> "campaign", autoExecute |-> TRUE],
                [action |-> "scale", scope |-> "campaign", autoExecute |-> FALSE],
                [action |-> "alert", scope |-> "account", autoExecute |-> TRUE]}

----------------------------------------------------------------------------
(* The planner at rest, while something else is followed. *)
NothingToPlan ==
    /\ offered = <<>> /\ credits = 0 /\ ordered = <<>>
    /\ i = 1 /\ outstanding = 0 /\ take = <<>>

(* The ledger before the migration, while something else is followed. *)
NothingToMigrate ==
    /\ version = "old" /\ owned = [g \in OldGrants |-> [workspaceId |-> "w1", credits |-> 1, createdAt |-> 1]]
    /\ used = [w \in Tenant |-> 0] /\ backfilled = [g \in OldGrants |-> 0]
    /\ before = [w \in Tenant |-> 0]

Parts == {"ledger", "plan", "approvals", "assistant", "attached", "toolset", "report", "rules",
          "memory", "limit", "migration"}

AgentInit ==
    /\ LedgerInit /\ ApprovalsInit /\ AssistantInit /\ AttachedInit /\ ToolsetInit
    /\ ReportsInit /\ RulesInit /\ MemoryInit /\ RateLimitInit
    /\ focus \in Parts
    /\ IF focus = "plan" THEN Init ELSE NothingToPlan
    /\ IF focus = "migration" THEN RedenominationInit ELSE NothingToMigrate
    /\ focus = "toolset" \/ surface = [s \in {"a1", "a2"} |-> CHOOSE ts \in MCSurfaces[s] : TRUE]

AgentNext ==
    /\ UNCHANGED focus
    /\ \/ /\ focus = "ledger" /\ LedgerNext
          /\ UNCHANGED <<vars, approvalVars, assistantVars, attachedVars, toolsetVars,
                         reportVars, ruleVars, memoryVars, limitVars, migrationVars>>
       \/ /\ focus = "plan" /\ Next
          /\ UNCHANGED <<ledgerVars, approvalVars, assistantVars, attachedVars, toolsetVars,
                         reportVars, ruleVars, memoryVars, limitVars, migrationVars>>
       \/ /\ focus = "approvals" /\ ApprovalsNext
          /\ UNCHANGED <<ledgerVars, vars, assistantVars, attachedVars, toolsetVars,
                         reportVars, ruleVars, memoryVars, limitVars, migrationVars>>
       \/ /\ focus = "assistant" /\ AssistantNext
          /\ UNCHANGED <<ledgerVars, vars, approvalVars, attachedVars, toolsetVars,
                         reportVars, ruleVars, memoryVars, limitVars, migrationVars>>
       \/ /\ focus = "attached" /\ AttachedNext
          /\ UNCHANGED <<ledgerVars, vars, approvalVars, assistantVars, toolsetVars,
                         reportVars, ruleVars, memoryVars, limitVars, migrationVars>>
       \/ /\ focus = "toolset" /\ ToolsetNext
          /\ UNCHANGED <<ledgerVars, vars, approvalVars, assistantVars, attachedVars,
                         reportVars, ruleVars, memoryVars, limitVars, migrationVars>>
       \/ /\ focus = "report" /\ ReportsNext
          /\ UNCHANGED <<ledgerVars, vars, approvalVars, assistantVars, attachedVars,
                         toolsetVars, ruleVars, memoryVars, limitVars, migrationVars>>
       \/ /\ focus = "rules" /\ RulesNext
          /\ UNCHANGED <<ledgerVars, vars, approvalVars, assistantVars, attachedVars,
                         toolsetVars, reportVars, memoryVars, limitVars, migrationVars>>
       \/ /\ focus = "memory" /\ MemoryNext
          /\ UNCHANGED <<ledgerVars, vars, approvalVars, assistantVars, attachedVars,
                         toolsetVars, reportVars, ruleVars, limitVars, migrationVars>>
       \/ /\ focus = "limit" /\ RateLimitNext
          /\ UNCHANGED <<ledgerVars, vars, approvalVars, assistantVars, attachedVars,
                         toolsetVars, reportVars, ruleVars, memoryVars, migrationVars>>
       \/ /\ focus = "migration" /\ RedenominationNext
          /\ UNCHANGED <<ledgerVars, vars, approvalVars, assistantVars, attachedVars,
                         toolsetVars, reportVars, ruleVars, memoryVars, limitVars>>

AgentSpec ==
    AgentInit /\ [][AgentNext]_<<focus, ledgerVars, vars, approvalVars, assistantVars, attachedVars,
                                 toolsetVars, reportVars, ruleVars, memoryVars, limitVars, migrationVars>>

\* What is not followed stays as it started.
AgentTypeOK ==
    CASE focus = "ledger"    -> LedgerTypeOK
      [] focus = "plan"      -> TypeOK
      [] focus = "approvals" -> ApprovalsTypeOK
      [] focus = "assistant" -> AssistantTypeOK
      [] focus = "attached"  -> AttachedTypeOK
      [] focus = "toolset"   -> ToolsetTypeOK
      [] focus = "report"    -> ReportsTypeOK
      [] focus = "rules"     -> RulesTypeOK
      [] focus = "memory"    -> MemoryTypeOK
      [] focus = "limit"     -> RateLimitTypeOK
      [] focus = "migration" -> RedenominationTypeOK

(* What a run pays is what it costs, or all there was (recordEvent), and the
   credits granted, left and paid add up in the workspace's balance and in
   the panel's row; what the ledger's step takes at once is what the loop of
   planAllocations comes to, iteration by iteration; and the migration that
   made the ledger kept every balance. *)
LedgerAddsUp ==
    CASE focus = "ledger"    -> PaysWhatItCan /\ Reconciles
      [] focus = "plan"      -> LedgerPlanIsLoop /\ AccountsForCharge
      [] focus = "migration" -> BalancesSurvive
      [] OTHER               -> TRUE

(* What is capped stays within its cap: the changes a rule makes in a day
   (DailyCapHolds) and the requests of a caller in a window (WindowsHold). *)
CapsHold ==
    CASE focus = "rules" -> DailyCapHolds
      [] focus = "limit" -> WindowsHold
      [] OTHER           -> TRUE

(* What a run remembered is what later runs are told. *)
FactsStand == focus = "memory" => FactsAreKept /\ NewestIsPrompted

=============================================================================
