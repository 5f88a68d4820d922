-------------------------- MODULE ApprovalsProofs --------------------------
(***************************************************************************)
(* Who may change an ad account: a member who approves the change in Slack *)
(* and, unasked, the rules members wrote.                                  *)
(*                                                                         *)
(* Approvals.  For any number of cards, clicks and members an uncontested  *)
(* card is decided by one click, a write runs only for its requester's     *)
(* approval, and the card shows what happened.                             *)
(*                                                                         *)
(* The properties are not inductive.  They rest on three facts: a record   *)
(* that is there, on an uncontested card, has not been consumed yet        *)
(* (LiveIsUndecided); before the record is stored nobody can have clicked  *)
(* (NothingBeforeStore); and a click's program counter says what it has    *)
(* done so far (ClicksAreHonest).                                          *)
(*                                                                         *)
(* Rules.  A change made unasked rests on what a tick has in memory        *)
(* (CopiesAreRules, RuleWishesStand); the audit table and the daily cap on *)
(* counts: what was made but for what is about to be recorded was told     *)
(* (ToldWasMade, MadeIsTold), and a tick in the middle of its changes has  *)
(* room for the rest of them within the cap (RoomLeft).                    *)
(***************************************************************************)
EXTENDS Approvals, Rules, Sums, FiniteSetTheorems, TLAPS

(* A click has decided exactly when its program counter is past a DEL, and
   only the requester gets past Approve. *)
ClicksAreHonest ==
    \A c \in Clicks :
        /\ click[c].pc \in {"unused", "sent", "seen"} => ~click[c].decided
        /\ click[c].pc = "cancelled" => click[c].button = "cancel"
        /\ click[c].pc \in {"approved", "executing"} =>
               /\ click[c].button = "approve"
               /\ click[c].user = RequesterOf[click[c].card]

NothingBeforeStore ==
    \A t \in Cards : poster[t] = "running" =>
        /\ card[t] = "hidden"
        /\ \A c \in Clicks : click[c].card = t => click[c].pc = "unused"

LiveIsUndecided ==
    \A t \in Cards : ~contested[t] /\ record[t] # "absent"
        => \A c \in Clicks : click[c].card = t => ~click[c].decided

(* The card is only resolved by a click that decided it that way. *)
ResolvedByDecision ==
    \A t \in Cards :
        /\ card[t] = "cancelled" => \E c \in Decisions(t) : click[c].button = "cancel"
        /\ card[t] = "approved" => \E c \in Decisions(t) : click[c].button = "approve"

(* A click that ran the write is over. *)
ExecutedIsOver == \A t \in Cards : \A c \in executed[t] : click[c].pc = "over"

ApprovalsInv ==
    /\ ApprovalsTypeOK
    /\ ClicksAreHonest
    /\ NothingBeforeStore
    /\ LiveIsUndecided
    /\ UncontestedDecidedOnce
    /\ ResolvedByDecision
    /\ ExecutedIsOver
    /\ RequesterDecides

----------------------------------------------------------------------------
LEMMA InitApprovalsInv == ApprovalsInit => ApprovalsInv
<1> SUFFICES ASSUME ApprovalsInit PROVE ApprovalsInv
    OBVIOUS
<1>1. /\ (CHOOSE t \in Cards : TRUE) \in Cards
      /\ (CHOOSE u \in Users : TRUE) \in Users
  BY RequesterAssumption
<1>2. /\ NoClick \in [pc : ClickPCs, card : Cards, user : Users, button : Buttons,
                      timed : BOOLEAN, decided : BOOLEAN]
      /\ NoClick.pc = "unused" /\ ~NoClick.decided
  BY <1>1 DEF NoClick, ClickPCs, Buttons
<1>3. \A c \in Clicks : click[c] = NoClick
  BY DEF ApprovalsInit
<1> HIDE DEF NoClick
<1>4. ApprovalsTypeOK
  BY <1>2, <1>3 DEF ApprovalsInit, ApprovalsTypeOK, RecordStates, CardStates
<1> QED
  BY <1>2, <1>3, <1>4 DEF ApprovalsInit, ApprovalsInv, ClicksAreHonest, NothingBeforeStore,
     LiveIsUndecided, UncontestedDecidedOnce, ResolvedByDecision, ExecutedIsOver,
     RequesterDecides, Decisions

(* The poster's own steps and the expiry leave every click alone. *)
LEMMA PosterStepInv ==
    ASSUME ApprovalsInv, NEW t \in Cards,
           StorePending(t) \/ PostCard(t) \/ AttachRead(t) \/ AttachWrite(t)
              \/ FailPoster(t) \/ Expire(t)
    PROVE  ApprovalsInv'
<1> USE DEF ApprovalsInv
<1>1. UNCHANGED <<click, executed>> /\ Decisions(t)' = Decisions(t)
  BY DEF StorePending, PostCard, AttachRead, AttachWrite, FailPoster, Expire, Decisions
<1>2. ApprovalsTypeOK'
  BY <1>1 DEF StorePending, PostCard, AttachRead, AttachWrite, FailPoster, Expire, PosterTo,
              ApprovalsTypeOK, RecordStates, CardStates
<1>3. ClicksAreHonest' /\ ExecutedIsOver' /\ RequesterDecides'
  BY <1>1 DEF ClicksAreHonest, ExecutedIsOver, RequesterDecides, Decisions
<1>4. NothingBeforeStore'
  BY <1>1 DEF StorePending, PostCard, AttachRead, AttachWrite, FailPoster, Expire, PosterTo,
              NothingBeforeStore, ApprovalsTypeOK
<1>5. LiveIsUndecided'
  BY <1>1 DEF StorePending, PostCard, AttachRead, AttachWrite, FailPoster, Expire, PosterTo,
              NothingBeforeStore, LiveIsUndecided, ClicksAreHonest, ApprovalsTypeOK
<1>6. \A k \in Cards : contested[k] => contested'[k]
  BY DEF StorePending, PostCard, AttachRead, AttachWrite, FailPoster, Expire, ApprovalsTypeOK
<1>7. UncontestedDecidedOnce'
  BY <1>1, <1>6 DEF UncontestedDecidedOnce, Decisions
<1>8. ResolvedByDecision'
  <2>1. \A k \in Cards : card'[k] \in {"cancelled", "approved"} => card'[k] = card[k]
    BY DEF StorePending, PostCard, AttachRead, AttachWrite, FailPoster, Expire, ApprovalsTypeOK
  <2> QED  BY <1>1, <2>1 DEF ResolvedByDecision, Decisions
<1> QED  BY <1>2, <1>3, <1>4, <1>5, <1>7, <1>8

(* A click that only moves on: nothing is decided and no card is resolved. *)
LEMMA MoveInv ==
    ASSUME ApprovalsInv, NEW c \in Clicks, NEW to,
           click' = [click EXCEPT ![c] = to],
           to \in [pc : ClickPCs, card : Cards, user : Users, button : Buttons,
                   timed : BOOLEAN, decided : BOOLEAN],
           UNCHANGED <<poster, record, card, executed, contested>>,
           to.pc \in {"sent", "seen", "over"},
           to.pc \in {"sent", "seen"} => ~to.decided,
           to.decided = click[c].decided,
           poster[to.card] # "running",
           to.decided => to = [click[c] EXCEPT !.pc = to.pc],
           click[c].pc # "over"
    PROVE  ApprovalsInv'
<1> USE DEF ApprovalsInv
<1>1. /\ click'[c] = to /\ \A d \in Clicks : d # c => click'[d] = click[d]
      /\ click' \in [Clicks -> [pc : ClickPCs, card : Cards, user : Users, button : Buttons,
                                timed : BOOLEAN, decided : BOOLEAN]]
  BY DEF ApprovalsTypeOK
<1>2. ApprovalsTypeOK'
  BY <1>1 DEF ApprovalsTypeOK
<1>3. ClicksAreHonest' /\ NothingBeforeStore'
  BY <1>1 DEF ClicksAreHonest, NothingBeforeStore
<1>4. /\ \A d \in Clicks : click'[d].decided = click[d].decided
      /\ \A d \in Clicks : click[d].decided => /\ click'[d].card = click[d].card
                                               /\ click'[d].button = click[d].button
                                               /\ click'[d].user = click[d].user
  BY <1>1 DEF ApprovalsTypeOK
<1>5. \A t : Decisions(t)' = Decisions(t)
  BY <1>4, <1>1 DEF Decisions, ApprovalsTypeOK
<1>6. LiveIsUndecided' /\ UncontestedDecidedOnce' /\ ResolvedByDecision'
  BY <1>4, <1>5 DEF LiveIsUndecided, UncontestedDecidedOnce, ResolvedByDecision, Decisions
<1>7. ExecutedIsOver' /\ RequesterDecides'
  BY <1>1, <1>4, <1>5 DEF ExecutedIsOver, RequesterDecides, Decisions
<1> QED  BY <1>2, <1>3, <1>6, <1>7

(* The DEL: on an uncontested card it found the record, so nobody has
   decided the card before. *)
LEMMA ConsumeInv ==
    ASSUME ApprovalsInv, NEW c \in Clicks, NEW pc, Consume(c, pc), At(c, "seen"),
           \/ pc = "cancelled" /\ click[c].button = "cancel"
           \/ /\ pc = "approved" /\ click[c].button = "approve"
              /\ click[c].user = RequesterOf[click[c].card]
    PROVE  ApprovalsInv'
<1> USE DEF ApprovalsInv
<1> DEFINE t == click[c].card
           to == [click[c] EXCEPT !.pc = pc, !.decided = TRUE]
<1>1. /\ click'[c] = to /\ \A d \in Clicks : d # c => click'[d] = click[d]
      /\ click' \in [Clicks -> [pc : ClickPCs, card : Cards, user : Users, button : Buttons,
                                timed : BOOLEAN, decided : BOOLEAN]]
      /\ t \in Cards /\ to.pc = pc /\ to.decided /\ to.card = t
      /\ to.button = click[c].button /\ to.user = click[c].user
  BY DEF ApprovalsTypeOK, Consume, ClickPCs
<1> HIDE DEF to
<1>2. /\ record' = [record EXCEPT ![t] = "absent"]
      /\ contested' = [contested EXCEPT ![t] = @ \/ record[t] = "absent"]
      /\ UNCHANGED <<poster, card, executed>> /\ click[c].pc = "seen"
  BY DEF Consume, At
<1>3. /\ \A k \in Cards : record'[k] = IF k = t THEN "absent" ELSE record[k]
      /\ \A k \in Cards : ~contested'[k] => /\ ~contested[k]
                                            /\ k = t => record[k] # "absent"
  BY <1>2 DEF ApprovalsTypeOK
<1> DEFINE u == t
<1>4. /\ \A k : k # t => Decisions(k)' = Decisions(k)
      /\ Decisions(u)' = Decisions(u) \cup {c}
  BY <1>1 DEF Decisions
<1>5. ApprovalsTypeOK'
  BY <1>1, <1>2 DEF ApprovalsTypeOK, RecordStates
<1>6. ClicksAreHonest' /\ NothingBeforeStore'
  BY <1>1, <1>2 DEF ClicksAreHonest, NothingBeforeStore
<1>7. LiveIsUndecided'
  BY <1>1, <1>3 DEF LiveIsUndecided
<1>8. UncontestedDecidedOnce'
  BY <1>1, <1>3 DEF UncontestedDecidedOnce, LiveIsUndecided, Decisions
<1>9. ResolvedByDecision'
  BY <1>1, <1>2 DEF ResolvedByDecision, Decisions
<1>10. ExecutedIsOver' /\ RequesterDecides'
  BY <1>1, <1>2 DEF ExecutedIsOver, RequesterDecides, Decisions
<1> QED  BY <1>5, <1>6, <1>7, <1>8, <1>9, <1>10

(* The steps after the DEL: the card is edited, the write is made. *)
LEMMA AfterInv ==
    ASSUME ApprovalsInv, NEW c \in Clicks, NEW pc, ClickTo(c, pc),
           UNCHANGED <<poster, record, contested>>,
           \/ click[c].pc = "cancelled" /\ pc = "over"
           \/ click[c].pc = "approved" /\ pc = "executing"
           \/ click[c].pc = "executing" /\ pc = "over",
           \/ UNCHANGED card
           \/ /\ click[c].pc \in {"cancelled", "approved"}
              /\ card' = [card EXCEPT ![click[c].card] = click[c].pc],
           \/ UNCHANGED executed
           \/ /\ click[c].pc = "executing"
              /\ executed' = [executed EXCEPT ![click[c].card] = @ \cup {c}]
    PROVE  ApprovalsInv'
<1> USE DEF ApprovalsInv
<1> DEFINE to == [click[c] EXCEPT !.pc = pc]
<1>1. /\ click'[c] = to /\ \A d \in Clicks : d # c => click'[d] = click[d]
      /\ click' \in [Clicks -> [pc : ClickPCs, card : Cards, user : Users, button : Buttons,
                                timed : BOOLEAN, decided : BOOLEAN]]
      /\ click[c].card \in Cards /\ click[c].decided
      /\ to.pc = pc /\ to.decided /\ to.card = click[c].card
      /\ to.button = click[c].button /\ to.user = click[c].user
  BY DEF ApprovalsTypeOK, ClickTo, ClickPCs
<1> HIDE DEF to
<1>2. \A d \in Clicks : /\ click'[d].decided = click[d].decided
                        /\ click'[d].card = click[d].card
                        /\ click'[d].button = click[d].button
                        /\ click'[d].user = click[d].user
                        /\ d # c => click'[d].pc = click[d].pc
  BY <1>1
<1>3. \A t : Decisions(t)' = Decisions(t)
  BY <1>2 DEF Decisions
<1>4. ApprovalsTypeOK'
  <2>1. card' \in [Cards -> CardStates]
    BY <1>1 DEF ApprovalsTypeOK, CardStates
  <2>2. executed' \in [Cards -> SUBSET Clicks]
    BY <1>1 DEF ApprovalsTypeOK
  <2>3. \A d \in Clicks : click'[d].pc \in {"cancelled", "approved", "executing"}
                             => click'[d].decided
    BY <1>1, <1>2 DEF ApprovalsTypeOK
  <2>4. /\ poster' \in [Cards -> {"running", "stored", "posted", "attaching", "done"}]
        /\ record' \in [Cards -> RecordStates] /\ contested' \in [Cards -> BOOLEAN]
    BY DEF ApprovalsTypeOK
  <2> QED  BY <1>1, <2>1, <2>2, <2>3, <2>4 DEF ApprovalsTypeOK
<1>5. ClicksAreHonest'
  BY <1>1, <1>2 DEF ClicksAreHonest
<1>6. NothingBeforeStore'
  <2>1. poster[click[c].card] # "running"
    BY <1>1 DEF NothingBeforeStore
  <2>2. \A t \in Cards : t # click[c].card => card'[t] = card[t]
    BY DEF ApprovalsTypeOK
  <2>3. \A t \in Cards, d \in Clicks : click[d].card = t /\ t # click[c].card
                                          => click'[d].pc = click[d].pc
    BY <1>2
  <2> QED  BY <1>2, <2>1, <2>2, <2>3 DEF NothingBeforeStore
<1>7. LiveIsUndecided' /\ UncontestedDecidedOnce'
  BY <1>2, <1>3 DEF LiveIsUndecided, UncontestedDecidedOnce
<1>8. ResolvedByDecision'
  <2>1. \A t \in Cards : card'[t] = card[t] \/ (t = click[c].card /\ card'[t] = click[c].pc
                                                /\ click[c].pc \in {"cancelled", "approved"})
    BY DEF ApprovalsTypeOK
  <2>2. c \in Decisions(click[c].card)
    BY <1>1 DEF Decisions
  <2> QED  BY <1>2, <1>3, <2>1, <2>2 DEF ResolvedByDecision, ClicksAreHonest, Decisions
<1>9. ExecutedIsOver' /\ RequesterDecides'
  <2>1. \A t \in Cards : executed'[t] = executed[t]
                         \/ (t = click[c].card /\ executed'[t] = executed[t] \cup {c}
                             /\ click[c].pc = "executing" /\ pc = "over")
    BY DEF ApprovalsTypeOK
  <2>2. c \in Decisions(click[c].card)
    BY <1>1 DEF Decisions
  <2>3. ExecutedIsOver'
    BY <1>1, <1>2, <2>1 DEF ExecutedIsOver, ApprovalsTypeOK
  <2>4. RequesterDecides'
    BY <1>1, <1>2, <1>3, <2>1, <2>2 DEF RequesterDecides, ClicksAreHonest, Decisions
  <2> QED  BY <2>3, <2>4
<1> QED  BY <1>4, <1>5, <1>6, <1>7, <1>8, <1>9

LEMMA NextApprovalsInv ==
    ASSUME ApprovalsInv, [ApprovalsNext]_approvalVars
    PROVE  ApprovalsInv'
<1>1. ASSUME NEW t \in Cards,
             StorePending(t) \/ PostCard(t) \/ AttachRead(t) \/ AttachWrite(t)
                \/ FailPoster(t) \/ Expire(t)
      PROVE  ApprovalsInv'
  BY <1>1, PosterStepInv
<1>2. ASSUME NEW c \in Clicks, NEW t \in Cards, NEW u \in Users, NEW b \in Buttons,
             Press(c, t, u, b)
      PROVE  ApprovalsInv'
  <2> DEFINE to == [NoClick EXCEPT !.pc = "sent", !.card = t, !.user = u, !.button = b]
  <2>1. /\ to \in [pc : ClickPCs, card : Cards, user : Users, button : Buttons,
                   timed : BOOLEAN, decided : BOOLEAN]
        /\ to.pc = "sent" /\ ~to.decided /\ to.card = t
    BY DEF NoClick, ClickPCs, Buttons
  <2>2. click' = [click EXCEPT ![c] = to]
    BY <1>2 DEF Press
  <2> HIDE DEF to
  <2>3. ~click[c].decided /\ click[c].pc = "unused" /\ poster[t] # "running"
    BY <1>2 DEF Press, At, ApprovalsInv, ClicksAreHonest, NothingBeforeStore
  <2>4. UNCHANGED <<poster, record, card, executed, contested>> /\ to.decided = click[c].decided
    BY <1>2, <2>1, <2>3 DEF Press, ApprovalsInv, ApprovalsTypeOK
  <2> QED  BY <2>1, <2>2, <2>3, <2>4, MoveInv
<1>3. ASSUME NEW c \in Clicks, ClickStep(c) PROVE ApprovalsInv'
  <2>0. /\ click[c] \in [pc : ClickPCs, card : Cards, user : Users, button : Buttons,
                         timed : BOOLEAN, decided : BOOLEAN]
        /\ click[c].pc # "unused" => poster[click[c].card] # "running"
        /\ click[c].pc \in {"sent", "seen"} => ~click[c].decided
    BY DEF ApprovalsInv, ApprovalsTypeOK, NothingBeforeStore, ClicksAreHonest
  <2>1. CASE Lookup(c)
    <3> DEFINE found == record[click[c].card]
               to == [click[c] EXCEPT !.pc = IF found = "absent" THEN "over" ELSE "seen",
                                      !.timed = (found = "timed")]
    <3>1. /\ click' = [click EXCEPT ![c] = to] /\ click[c].pc = "sent"
          /\ UNCHANGED <<poster, record, card, executed, contested>>
      BY <2>1, <2>0 DEF Lookup, At
    <3>2. /\ to \in [pc : ClickPCs, card : Cards, user : Users, button : Buttons,
                     timed : BOOLEAN, decided : BOOLEAN]
          /\ to.pc \in {"seen", "over"} /\ to.decided = click[c].decided
          /\ to.card = click[c].card
      BY <2>0 DEF ClickPCs
    <3> HIDE DEF to
    <3> QED  BY <2>0, <3>1, <3>2, MoveInv
  <2>2. CASE Reject(c) \/ FailClick(c)
    <3> DEFINE to == [click[c] EXCEPT !.pc = "over"]
    <3>1. /\ click' = [click EXCEPT ![c] = to] /\ click[c].pc \notin {"unused", "over"}
          /\ UNCHANGED <<poster, record, card, executed, contested>>
      BY <2>2, <2>0 DEF Reject, FailClick, ClickTo, At
    <3>2. /\ to \in [pc : ClickPCs, card : Cards, user : Users, button : Buttons,
                     timed : BOOLEAN, decided : BOOLEAN]
          /\ to.pc = "over" /\ to.decided = click[c].decided /\ to.card = click[c].card
          /\ to = [click[c] EXCEPT !.pc = to.pc]
      BY <2>0 DEF ClickPCs
    <3> HIDE DEF to
    <3> QED  BY <2>0, <3>1, <3>2, MoveInv
  <2>3. CASE Cancel(c)
    BY <2>3, ConsumeInv DEF Cancel
  <2>4. CASE Approve(c)
    BY <2>4, ConsumeInv DEF Approve
  <2>5. CASE ShowCancelled(c)
    BY <2>5, AfterInv DEF ShowCancelled, EditCard, At
  <2>6. CASE ShowApproved(c)
    BY <2>6, AfterInv DEF ShowApproved, EditCard, At
  <2>7. CASE Execute(c)
    BY <2>7, AfterInv DEF Execute, At
  <2> QED  BY <1>3, <2>1, <2>2, <2>3, <2>4, <2>5, <2>6, <2>7 DEF ClickStep
<1>4. CASE UNCHANGED approvalVars
  BY <1>4 DEF approvalVars, ApprovalsInv, ApprovalsTypeOK, ClicksAreHonest, NothingBeforeStore,
              LiveIsUndecided, UncontestedDecidedOnce, ResolvedByDecision, ExecutedIsOver,
              RequesterDecides, Decisions
<1> QED  BY <1>1, <1>2, <1>3, <1>4 DEF ApprovalsNext

THEOREM ApprovalsInvariant == ApprovalsSpec => []ApprovalsInv
BY InitApprovalsInv, NextApprovalsInv, PTL DEF ApprovalsSpec

(* The variables keep their types, and a click past its DEL has decided. *)
THEOREM ApprovalsTypes == ApprovalsSpec => []ApprovalsTypeOK
<1>1. ApprovalsInv => ApprovalsTypeOK
  BY DEF ApprovalsInv
<1> QED  BY ApprovalsInvariant, <1>1, PTL

(* A card is decided by a single click, approve or cancel, unless a DEL
   found its record gone or the attached timestamp brought it back. *)
THEOREM ApprovalsSingleUse == ApprovalsSpec => []UncontestedDecidedOnce
<1>1. ApprovalsInv => UncontestedDecidedOnce
  BY DEF ApprovalsInv
<1> QED  BY ApprovalsInvariant, <1>1, PTL

(* A write is executed only on its requester's approval. *)
THEOREM ApprovalsByRequester == ApprovalsSpec => []RequesterDecides
<1>1. ApprovalsInv => RequesterDecides
  BY DEF ApprovalsInv
<1> QED  BY ApprovalsInvariant, <1>1, PTL

(* An uncontested card that says it was cancelled never ran, and one that
   says it was approved was not cancelled. *)
THEOREM ApprovalsShown == ApprovalsSpec => []CardTellsTheTruth
<1>1. ApprovalsInv => CardTellsTheTruth
  <2> SUFFICES ASSUME ApprovalsInv, NEW t \in Cards, ~contested[t]
               PROVE  /\ card[t] = "cancelled" => executed[t] = {}
                      /\ card[t] = "approved" =>
                             \A c \in Decisions(t) : click[c].button = "approve"
      BY DEF CardTellsTheTruth
  <2>1. \A c, d \in Decisions(t) : c = d
    BY DEF ApprovalsInv, UncontestedDecidedOnce
  <2>2. \A c \in executed[t] : c \in Decisions(t) /\ click[c].button = "approve"
    BY DEF ApprovalsInv, RequesterDecides
  <2> QED  BY <2>1, <2>2 DEF ApprovalsInv, ResolvedByDecision
<1> QED  BY ApprovalsInvariant, <1>1, PTL

-----------------------------------------------------------------------------
(* Rules.  A change to an ad account is decided on a copy of the rule that   *)
(* may be old: an undisputed copy is the row, and what is in memory was      *)
(* active when it was read.                                                  *)

(* What a tick has in memory.  It works on one of its copies, all of them of
   active rules, and calls Meta for a copy that allows it. *)
SoundTick(h) ==
    /\ h = [phase |-> h.phase, copies |-> h.copies, running |-> h.running,
            todo |-> h.todo, success |-> h.success]
    /\ h.phase \in RulePhases
    /\ h.copies \in [RuleIds -> RuleRow \cup {Absent}]
    /\ \A r \in RuleIds : h.copies[r] # Absent => h.copies[r].isActive
    /\ h.phase \in {"measure", "apply", "record", "save"} =>
            h.running \in RuleIds /\ h.copies[h.running] # Absent
    /\ h.phase = "apply" => Mutates(h.copies[h.running])

RulesTyped ==
    /\ clock \in 1 .. MaxClock
    /\ rules \in [RuleIds -> RuleRow \cup {Absent}]
    /\ wished \in [RuleIds -> RuleRow \cup {Absent}]
    /\ disputed \in [RuleIds -> BOOLEAN]
    /\ DOMAIN ruleHand = Servers

Copied(s, r) == ruleHand[s].copies[r] # Absent

(* No other server has a copy of an undisputed rule, and the copy is the row. *)
CopiesAreRules ==
    \A r \in RuleIds : ~disputed[r] =>
        /\ \A s, k \in Servers : Copied(s, r) /\ Copied(k, r) => s = k
        /\ \A s \in Servers : Copied(s, r) => ruleHand[s].copies[r] = rules[r]

(* An undisputed rule is there and active as its owner wishes. *)
RuleWishesStand ==
    \A r \in RuleIds : ~disputed[r] =>
        /\ rules[r] = Absent <=> wished[r] = Absent
        /\ rules[r] # Absent => rules[r].isActive = wished[r].isActive

RulesInv ==
    /\ RulesTyped
    /\ \A s \in Servers : SoundTick(ruleHand[s])
    /\ CopiesAreRules
    /\ RuleWishesStand

----------------------------------------------------------------------------
(* The next run is a time of the model, and it is later than now. *)
LEMMA NextRunIsLater ==
    ASSUME clock \in 1 .. MaxClock, NEW period \in Periods
    PROVE  /\ NextRunFrom(period) \in Times /\ NextRunFrom(period) > clock
           /\ NextRunFrom(period) \in Nat /\ LastTime \in Nat /\ NotSet \in Times
<1> DEFINE longest == CHOOSE p \in Periods : \A q \in Periods : q <= p
           next == (clock \div period + 1) * period
<1>1. /\ MaxClock \in Nat /\ clock \in Nat /\ clock <= MaxClock
      /\ period \in Nat \ {0} /\ longest \in Nat /\ period <= longest
  <2>1. longest \in Periods /\ \A q \in Periods : q <= longest
    BY SchedulingAssumption
  <2> HIDE DEF longest
  <2> QED  BY <2>1, SchedulingAssumption
<1>2. next \in Nat /\ clock < next /\ next <= clock + period
  BY <1>1, NextMultiple
<1>3. NextRunFrom(period) = next /\ LastTime = MaxClock + longest
  BY DEF NextRunFrom, LastTime
<1> HIDE DEF longest, next
<1> QED  BY <1>1, <1>2, <1>3 DEF Times, NotSet

LEMMA RestingTickIsSound ==
    /\ SoundTick(RestingTick) /\ NoRules = [r \in RuleIds |-> Absent]
    /\ RestingTick = [phase |-> "idle", copies |-> NoRules, running |-> Nobody,
                      todo |-> 0, success |-> FALSE]
<1>1. RestingTick = [phase |-> "idle", copies |-> NoRules, running |-> Nobody,
                     todo |-> 0, success |-> FALSE]
  BY DEF RestingTick
<1>2. NoRules \in [RuleIds -> RuleRow \cup {Absent}] /\ \A r \in RuleIds : NoRules[r] = Absent
  BY DEF NoRules
<1>3. SoundTick(RestingTick)
  BY <1>1, <1>2 DEF SoundTick, RulePhases
<1> QED  BY <1>1, <1>3 DEF NoRules

LEMMA InitRulesInv == RulesInit => RulesInv
<1> SUFFICES ASSUME RulesInit PROVE RulesInv
    OBVIOUS
<1>1. \A s \in Servers : ruleHand[s] = RestingTick /\ RestingTick.copies = NoRules
  BY DEF RulesInit, RestingTick
<1>2. RulesTyped
  BY SchedulingAssumption DEF RulesTyped, RulesInit, SchedulingInit, NoRules
<1>3. CopiesAreRules
  BY <1>1 DEF CopiesAreRules, Copied, NoRules
<1>4. RuleWishesStand
  BY DEF RuleWishesStand, RulesInit, NoRules
<1> QED  BY <1>1, <1>2, <1>3, <1>4, RestingTickIsSound DEF RulesInv

(* A tick goes on, and keeps, drops or loses copies; no row changes. *)
LEMMA TickGoesOn ==
    ASSUME RulesInv, NEW s \in Servers, SoundTick(ruleHand'[s]), DOMAIN ruleHand' = Servers,
           \A k \in Servers : k # s => ruleHand'[k] = ruleHand[k],
           \A r \in RuleIds : ruleHand'[s].copies[r] \in {Absent, ruleHand[s].copies[r]},
           UNCHANGED <<rules, wished>>, clock' \in 1 .. MaxClock,
           disputed' \in [RuleIds -> BOOLEAN], \A r \in RuleIds : disputed[r] => disputed'[r]
    PROVE  RulesInv'
<1>1. RulesTyped' /\ \A k \in Servers : SoundTick(ruleHand'[k])
  <2>1. \A k \in Servers : SoundTick(ruleHand'[k])
    BY DEF RulesInv
  <2> QED  BY <2>1 DEF RulesInv, RulesTyped
<1>2. CopiesAreRules'
  <2>1. \A k \in Servers, r \in RuleIds :
          Copied(k, r)' => Copied(k, r) /\ ruleHand'[k].copies[r] = ruleHand[k].copies[r]
    BY DEF Copied
  <2> QED  BY <2>1 DEF RulesInv, CopiesAreRules, Copied
<1>3. RuleWishesStand'
  BY DEF RulesInv, RuleWishesStand
<1> QED  BY <1>1, <1>2, <1>3 DEF RulesInv

LEMMA NextRuleInv ==
    ASSUME RulesInv, NEW s \in Servers, NEW r \in RuleIds, NextRule(s, r)
    PROVE  RulesInv'
<1> DEFINE h == ruleHand[s]
<1>1. SoundTick(h) /\ DOMAIN ruleHand = Servers /\ h.copies[r] # Absent
  BY DEF RulesInv, RulesTyped, NextRule
<1>2. ruleHand' = [ruleHand EXCEPT ![s].phase = "measure", ![s].running = r]
  BY DEF NextRule
<1>3. ruleHand'[s] = [phase |-> "measure", copies |-> h.copies, running |-> r,
                      todo |-> h.todo, success |-> h.success]
  BY <1>1, <1>2 DEF SoundTick
<1>4. DOMAIN ruleHand' = Servers /\ \A k \in Servers : k # s => ruleHand'[k] = ruleHand[k]
  BY <1>1, <1>2
<1> HIDE DEF h
<1>5. SoundTick(ruleHand'[s])
  BY <1>1, <1>3 DEF SoundTick, RulePhases
<1> QED  BY <1>3, <1>4, <1>5, TickGoesOn DEF h, NextRule, RulesInv, RulesTyped

LEMMA MeasureInv ==
    ASSUME RulesInv, NEW s \in Servers, NEW n, Measure(s, n)
    PROVE  RulesInv'
<1> DEFINE h == ruleHand[s]
           row == h.copies[h.running]
           todo == Least(n, IF Mutates(row) THEN RunCap(h.running) ELSE MaxActionsPerRun)
           phase == IF todo = 0 THEN "save" ELSE IF Mutates(row) THEN "apply" ELSE "record"
           yes == TRUE
<1>1. SoundTick(h) /\ DOMAIN ruleHand = Servers /\ h.phase = "measure"
  BY DEF RulesInv, RulesTyped, Measure
<1>2. ruleHand' = [ruleHand EXCEPT ![s].todo = todo, ![s].success = yes, ![s].phase = phase]
  BY DEF Measure
<1>3. phase \in {"save", "apply", "record"} /\ (phase = "apply" => Mutates(row))
  OBVIOUS
<1> HIDE DEF todo, phase, yes
<1>4. ruleHand'[s] = [phase |-> phase, copies |-> h.copies, running |-> h.running,
                      todo |-> todo, success |-> yes]
  BY <1>1, <1>2 DEF SoundTick
<1>5. DOMAIN ruleHand' = Servers /\ \A k \in Servers : k # s => ruleHand'[k] = ruleHand[k]
  BY <1>1, <1>2
<1> HIDE DEF h
<1>6. SoundTick(ruleHand'[s])
  BY <1>1, <1>3, <1>4 DEF SoundTick, RulePhases
<1>7. /\ disputed' \in [RuleIds -> BOOLEAN] /\ \A r \in RuleIds : disputed[r] => disputed'[r]
      /\ UNCHANGED <<rules, wished>> /\ clock' \in 1 .. MaxClock
  <2>1. UNCHANGED <<rules, wished, disputed, clock>>
    BY DEF Measure
  <2> QED  BY <2>1 DEF RulesInv, RulesTyped
<1> QED  BY <1>4, <1>5, <1>6, <1>7, TickGoesOn DEF h

LEMMA ApplyInv ==
    ASSUME RulesInv, NEW s \in Servers, NEW ok \in BOOLEAN, Apply(s, ok)
    PROVE  RulesInv'
<1> DEFINE h == ruleHand[s]
<1>1. SoundTick(h) /\ DOMAIN ruleHand = Servers /\ h.phase = "apply"
  BY DEF RulesInv, RulesTyped, Apply
<1>2. ruleHand' = [ruleHand EXCEPT ![s].phase = "record", ![s].success = ok]
  BY DEF Apply
<1>3. ruleHand'[s] = [phase |-> "record", copies |-> h.copies, running |-> h.running,
                      todo |-> h.todo, success |-> ok]
  BY <1>1, <1>2 DEF SoundTick
<1>4. DOMAIN ruleHand' = Servers /\ \A k \in Servers : k # s => ruleHand'[k] = ruleHand[k]
  BY <1>1, <1>2
<1> HIDE DEF h
<1>5. SoundTick(ruleHand'[s])
  BY <1>1, <1>3 DEF SoundTick, RulePhases
<1> QED  BY <1>3, <1>4, <1>5, TickGoesOn DEF h, Apply, RulesInv, RulesTyped

(* Meta's answer is lost. *)
LEMMA ApplyUnheardInv ==
    ASSUME RulesInv, NEW s \in Servers, ApplyUnheard(s)
    PROVE  RulesInv'
<1> DEFINE h == ruleHand[s]
           no == FALSE
<1>1. SoundTick(h) /\ DOMAIN ruleHand = Servers /\ h.phase = "apply"
  BY DEF RulesInv, RulesTyped, ApplyUnheard
<1>2. ruleHand' = [ruleHand EXCEPT ![s].phase = "record", ![s].success = no]
  BY DEF ApplyUnheard
<1> HIDE DEF no
<1>3. ruleHand'[s] = [phase |-> "record", copies |-> h.copies, running |-> h.running,
                      todo |-> h.todo, success |-> no]
  BY <1>1, <1>2 DEF SoundTick
<1>4. DOMAIN ruleHand' = Servers /\ \A k \in Servers : k # s => ruleHand'[k] = ruleHand[k]
  BY <1>1, <1>2
<1> HIDE DEF h
<1>5. SoundTick(ruleHand'[s])
  BY <1>1, <1>3 DEF SoundTick, RulePhases
<1>6. /\ disputed' \in [RuleIds -> BOOLEAN] /\ \A r \in RuleIds : disputed[r] => disputed'[r]
      /\ UNCHANGED <<rules, wished>> /\ clock' \in 1 .. MaxClock
  BY DEF ApplyUnheard, OneMoreCrash, RulesInv, RulesTyped
<1> QED  BY <1>3, <1>4, <1>5, <1>6, TickGoesOn DEF h

LEMMA RecordInv ==
    ASSUME RulesInv, NEW s \in Servers, Record(s)
    PROVE  RulesInv'
<1> DEFINE h == ruleHand[s]
           row == h.copies[h.running]
           phase == IF h.todo = 1 THEN "save" ELSE IF Mutates(row) THEN "apply" ELSE "record"
           left == h.todo - 1
           yes == TRUE
<1>1. SoundTick(h) /\ DOMAIN ruleHand = Servers /\ h.phase = "record"
  BY DEF RulesInv, RulesTyped, Record
<1>2. ruleHand' = [ruleHand EXCEPT ![s].todo = left, ![s].success = yes, ![s].phase = phase]
  BY DEF Record, AfterRecord
<1>3. phase \in {"save", "apply", "record"} /\ (phase = "apply" => Mutates(row))
  OBVIOUS
<1> HIDE DEF left, phase, yes
<1>4. ruleHand'[s] = [phase |-> phase, copies |-> h.copies, running |-> h.running,
                      todo |-> left, success |-> yes]
  BY <1>1, <1>2 DEF SoundTick
<1>5. DOMAIN ruleHand' = Servers /\ \A k \in Servers : k # s => ruleHand'[k] = ruleHand[k]
  BY <1>1, <1>2
<1> HIDE DEF h
<1>6. SoundTick(ruleHand'[s])
  BY <1>1, <1>3, <1>4 DEF SoundTick, RulePhases
<1> QED  BY <1>4, <1>5, <1>6, TickGoesOn DEF h, Record, RulesInv, RulesTyped

LEMMA RecordFailsInv ==
    ASSUME RulesInv, NEW s \in Servers, RecordFails(s)
    PROVE  RulesInv'
<1> DEFINE h == ruleHand[s]
           no == FALSE
<1>1. SoundTick(h) /\ DOMAIN ruleHand = Servers /\ h.phase = "record"
  BY DEF RulesInv, RulesTyped, RecordFails
<1>2. \/ ruleHand' = [ruleHand EXCEPT ![s].success = no]
      \/ ruleHand' = [ruleHand EXCEPT ![s].todo = 0, ![s].phase = "save"]
  BY DEF RecordFails
<1> HIDE DEF no
<1>3. \/ ruleHand'[s] = [phase |-> "record", copies |-> h.copies, running |-> h.running,
                         todo |-> h.todo, success |-> no]
      \/ ruleHand'[s] = [phase |-> "save", copies |-> h.copies, running |-> h.running,
                         todo |-> 0, success |-> h.success]
  BY <1>1, <1>2 DEF SoundTick
<1>4. DOMAIN ruleHand' = Servers /\ \A k \in Servers : k # s => ruleHand'[k] = ruleHand[k]
  BY <1>1, <1>2
<1> HIDE DEF h
<1>5. SoundTick(ruleHand'[s]) /\ ruleHand'[s].copies = h.copies
  BY <1>1, <1>3 DEF SoundTick, RulePhases
<1>6. /\ disputed' \in [RuleIds -> BOOLEAN] /\ \A r \in RuleIds : disputed[r] => disputed'[r]
      /\ UNCHANGED <<rules, wished>> /\ clock' \in 1 .. MaxClock
  BY DEF RecordFails, OneMoreCrash, RulesInv, RulesTyped
<1> QED  BY <1>4, <1>5, <1>6, TickGoesOn DEF h

LEMMA RuleTickLostInv ==
    ASSUME RulesInv, NEW s \in Servers, RuleTickLost(s)
    PROVE  RulesInv'
<1>1. ruleHand' = [ruleHand EXCEPT ![s] = RestingTick] /\ DOMAIN ruleHand = Servers
  BY DEF RuleTickLost, RulesInv, RulesTyped
<1>2. /\ ruleHand'[s] = RestingTick /\ DOMAIN ruleHand' = Servers
      /\ \A k \in Servers : k # s => ruleHand'[k] = ruleHand[k]
  BY <1>1
<1>3. SoundTick(ruleHand'[s]) /\ \A r \in RuleIds : ruleHand'[s].copies[r] = Absent
  BY <1>2, RestingTickIsSound
<1>4. /\ disputed' \in [RuleIds -> BOOLEAN] /\ \A r \in RuleIds : disputed[r] => disputed'[r]
      /\ UNCHANGED <<rules, wished>> /\ clock' \in 1 .. MaxClock
  BY DEF RuleTickLost, OneMoreCrash, RulesInv, RulesTyped
<1> QED  BY <1>2, <1>3, <1>4, TickGoesOn

(* The due rules are read, and they are active. *)
LEMMA RuleTickStartInv ==
    ASSUME RulesInv, NEW s \in Servers, RuleTickStart(s)
    PROVE  RulesInv'
<1> DEFINE h == ruleHand[s]
           copies == [r \in RuleIds |-> IF r \in DueRules THEN rules[r] ELSE Absent]
<1>1. /\ SoundTick(h) /\ DOMAIN ruleHand = Servers /\ h.phase = "idle" /\ RulesTyped
      /\ CopiesAreRules /\ RuleWishesStand
  BY DEF RulesInv, RulesTyped, RuleTickStart
<1>2. /\ ruleHand' = [ruleHand EXCEPT ![s].phase = "next", ![s].copies = copies]
      /\ disputed' = [r \in RuleIds |-> disputed[r] \/ (r \in DueRules /\ InTick(r))]
      /\ UNCHANGED <<clock, rules, wished>>
  BY DEF RuleTickStart
<1>3. copies \in [RuleIds -> RuleRow \cup {Absent}]
      /\ \A r \in RuleIds : /\ copies[r] # Absent => copies[r].isActive /\ r \in DueRules
                            /\ copies[r] \in {Absent, rules[r]}
  BY <1>1 DEF RulesTyped, DueRules, IsDue
<1> HIDE DEF copies
<1>4. ruleHand'[s] = [phase |-> "next", copies |-> copies, running |-> h.running,
                      todo |-> h.todo, success |-> h.success]
  BY <1>1, <1>2 DEF SoundTick
<1>5. DOMAIN ruleHand' = Servers /\ \A k \in Servers : k # s => ruleHand'[k] = ruleHand[k]
  BY <1>1, <1>2
<1> HIDE DEF h
<1>6. SoundTick(ruleHand'[s]) /\ ruleHand'[s].copies = copies
  BY <1>3, <1>4 DEF SoundTick, RulePhases
<1>7. \A r \in RuleIds : ~disputed'[r] => ~disputed[r] /\ (copies[r] # Absent => ~InTick(r))
  BY <1>2, <1>3
<1>8. RulesTyped'
  BY <1>1, <1>2, <1>5 DEF RulesTyped
<1>9. \A k \in Servers : SoundTick(ruleHand'[k])
  BY <1>5, <1>6 DEF RulesInv
<1>10. CopiesAreRules'
  <2> SUFFICES ASSUME NEW r \in RuleIds, ~disputed'[r]
               PROVE  /\ \A j, k \in Servers : Copied(j, r)' /\ Copied(k, r)' => j = k
                      /\ \A k \in Servers : Copied(k, r)' => ruleHand'[k].copies[r] = rules'[r]
      BY DEF CopiesAreRules
  <2>1. rules'[r] = rules[r] /\ \A k \in Servers : k # s => (Copied(k, r)' <=> Copied(k, r))
    BY <1>2, <1>5 DEF Copied
  <2>2. CASE copies[r] = Absent
    BY <1>1, <1>5, <1>6, <1>7, <2>1, <2>2 DEF CopiesAreRules, Copied
  <2>3. CASE copies[r] # Absent
    <3>1. \A k \in Servers : ~Copied(k, r)
      BY <1>7, <2>3 DEF InTick, Copied
    <3> QED  BY <1>3, <1>6, <2>1, <2>3, <3>1 DEF Copied
  <2> QED  BY <2>2, <2>3
<1>11. RuleWishesStand'
  BY <1>1, <1>2, <1>7 DEF RuleWishesStand
<1> QED  BY <1>8, <1>9, <1>10, <1>11 DEF RulesInv

(* What a member changes of one rule: nobody has a copy of it, or it is disputed. *)
LEMMA RuleChangesInv ==
    ASSUME RulesInv, NEW r \in RuleIds, NEW row \in RuleRow \cup {Absent},
           rules' = [rules EXCEPT ![r] = row], wished' = [wished EXCEPT ![r] = row],
           disputed' \in [RuleIds -> BOOLEAN],
           disputed'[r] \/ ~InTick(r),
           \A u \in RuleIds : u # r => disputed'[u] = disputed[u],
           UNCHANGED <<clock, ruleHand>>
    PROVE  RulesInv'
<1>1. RulesTyped /\ CopiesAreRules /\ RuleWishesStand
  BY DEF RulesInv
<1>2. /\ rules'[r] = row /\ wished'[r] = row
      /\ \A u \in RuleIds : u # r => rules'[u] = rules[u] /\ wished'[u] = wished[u]
  BY <1>1 DEF RulesTyped
<1>3. RulesTyped' /\ \A k \in Servers : SoundTick(ruleHand'[k])
  <2>1. RulesTyped'
    BY <1>1 DEF RulesTyped
  <2> QED  BY <2>1 DEF RulesInv
<1>4. CopiesAreRules'
  <2>1. \A k \in Servers, u \in RuleIds : Copied(k, u)' <=> Copied(k, u)
    BY DEF Copied
  <2>2. \A k \in Servers : ~disputed'[r] => ~Copied(k, r)
    BY DEF InTick, Copied
  <2> QED  BY <1>1, <1>2, <2>1, <2>2 DEF CopiesAreRules
<1>5. RuleWishesStand'
  BY <1>1, <1>2 DEF RuleWishesStand
<1> QED  BY <1>3, <1>4, <1>5 DEF RulesInv

LEMMA MemberRulesInv ==
    ASSUME RulesInv, NEW r \in RuleIds,
           \/ \E kind \in RuleKinds, p \in Periods : CreateRule(r, kind, p)
           \/ \E active \in BOOLEAN : SetRuleActive(r, active)
           \/ RemoveRule(r)
    PROVE  RulesInv'
<1>1. RulesTyped
  BY DEF RulesInv
<1>2. ASSUME NEW kind \in RuleKinds, NEW p \in Periods, CreateRule(r, kind, p) PROVE RulesInv'
  <2> DEFINE next == NextRunFrom(p)
             yes == TRUE
             row == [kind |-> kind, isActive |-> yes, period |-> p, nextRun |-> next]
  <2>1. kind \in Kinds /\ next \in Times /\ yes \in BOOLEAN
    BY <1>1, RulesAssumption, NextRunIsLater DEF RulesTyped
  <2>2. /\ rules' = [rules EXCEPT ![r] = row] /\ wished' = [wished EXCEPT ![r] = row]
        /\ ~InTick(r) /\ UNCHANGED <<clock, ruleHand, disputed>>
    BY <1>2 DEF CreateRule
  <2> HIDE DEF next, yes
  <2>3. row \in RuleRow
    BY <2>1 DEF RuleRow
  <2> HIDE DEF row
  <2> QED  BY <1>1, <2>2, <2>3, RuleChangesInv DEF RulesTyped
<1>3. ASSUME NEW active \in BOOLEAN, SetRuleActive(r, active) PROVE RulesInv'
  <2> DEFINE old == rules[r]
             next == IF active THEN NextRunFrom(old.period) ELSE old.nextRun
             row == [old EXCEPT !.isActive = active, !.nextRun = next]
  <2>1. old \in RuleRow
    BY <1>1, <1>3 DEF RulesTyped, SetRuleActive
  <2>2. next \in Times
    BY <1>1, <2>1, NextRunIsLater DEF RulesTyped, RuleRow
  <2>3. /\ rules' = [rules EXCEPT ![r] = row] /\ wished' = [wished EXCEPT ![r] = row]
        /\ disputed' = [disputed EXCEPT ![r] = @ \/ InTick(r)]
        /\ UNCHANGED <<clock, ruleHand>>
    BY <1>3 DEF SetRuleActive
  <2> HIDE DEF old, next
  <2>4. row \in RuleRow
    BY <2>1, <2>2 DEF RuleRow
  <2> HIDE DEF row
  <2>5. /\ disputed' \in [RuleIds -> BOOLEAN] /\ (disputed'[r] \/ ~InTick(r))
        /\ \A u \in RuleIds : u # r => disputed'[u] = disputed[u]
    BY <1>1, <2>3 DEF RulesTyped
  <2> QED  BY <2>3, <2>4, <2>5, RuleChangesInv
<1>4. ASSUME RemoveRule(r) PROVE RulesInv'
  <2>1. /\ rules' = [rules EXCEPT ![r] = Absent] /\ wished' = [wished EXCEPT ![r] = Absent]
        /\ disputed' = [disputed EXCEPT ![r] = @ \/ InTick(r)]
        /\ UNCHANGED <<clock, ruleHand>>
    BY <1>4 DEF RemoveRule
  <2>2. /\ disputed' \in [RuleIds -> BOOLEAN] /\ (disputed'[r] \/ ~InTick(r))
        /\ \A u \in RuleIds : u # r => disputed'[u] = disputed[u]
    BY <1>1, <2>1 DEF RulesTyped
  <2> QED  BY <2>1, <2>2, RuleChangesInv
<1> QED  BY <1>2, <1>3, <1>4

(* The finally block saves the copy, and the next one is taken. *)
LEMMA SaveRuleInv ==
    ASSUME RulesInv, NEW s \in Servers, SaveRule(s)
    PROVE  RulesInv'
<1> DEFINE h == ruleHand[s]
           r == h.running
           row == h.copies[r]
           left == [h.copies EXCEPT ![r] = Absent]
           next == NextRunFrom(row.period)
           saved == [row EXCEPT !.nextRun = next]
           rest == [RestingTick EXCEPT !.phase = "next", !.copies = left]
<1>1. /\ SoundTick(h) /\ DOMAIN ruleHand = Servers /\ h.phase = "save" /\ RulesTyped
      /\ CopiesAreRules /\ RuleWishesStand
  BY DEF RulesInv, RulesTyped, SaveRule
<1>2. /\ r \in RuleIds /\ row \in RuleRow /\ row # Absent
      /\ h.copies \in [RuleIds -> RuleRow \cup {Absent}]
      /\ \A u \in RuleIds : h.copies[u] # Absent => h.copies[u].isActive
  BY <1>1 DEF SoundTick
<1>3. /\ left \in [RuleIds -> RuleRow \cup {Absent}] /\ left[r] = Absent
      /\ \A u \in RuleIds : u # r => left[u] = h.copies[u]
  BY <1>2
<1>4. /\ rules' = [rules EXCEPT ![r] = saved]
      /\ ruleHand' = [ruleHand EXCEPT ![s] = IF left = NoRules THEN RestingTick ELSE rest]
      /\ UNCHANGED <<clock, wished, disputed>>
  BY DEF SaveRule
<1>5. next \in Times
  BY <1>1, <1>2, NextRunIsLater DEF RulesTyped, RuleRow
<1> HIDE DEF next
<1>6. saved \in RuleRow /\ saved # Absent /\ saved.isActive = row.isActive
  BY <1>2, <1>5, RuleRowAssumption DEF RuleRow
<1> HIDE DEF saved, row
<1>7. rest = [phase |-> "next", copies |-> left, running |-> Nobody, todo |-> 0, success |-> FALSE]
  <2> DEFINE no == FALSE
             started == [RestingTick EXCEPT !.phase = "next"]
  <2>1. RestingTick = [phase |-> "idle", copies |-> NoRules, running |-> Nobody,
                       todo |-> 0, success |-> no]
    BY DEF RestingTick
  <2>2. rest = [started EXCEPT !.copies = left]
    OBVIOUS
  <2> HIDE DEF left, no, rest
  <2>3. started = [phase |-> "next", copies |-> NoRules, running |-> Nobody,
                   todo |-> 0, success |-> no]
    BY <2>1
  <2> HIDE DEF started
  <2>4. rest = [phase |-> "next", copies |-> left, running |-> Nobody, todo |-> 0, success |-> no]
    BY <2>2, <2>3
  <2> QED  BY <2>4 DEF no
<1> HIDE DEF left, rest, r
<1>8. /\ DOMAIN ruleHand' = Servers /\ \A k \in Servers : k # s => ruleHand'[k] = ruleHand[k]
      /\ ruleHand'[s] = IF left = NoRules THEN RestingTick ELSE rest
  BY <1>1, <1>4
<1>9. SoundTick(rest) /\ rest.copies = left
  BY <1>2, <1>3, <1>7 DEF SoundTick, RulePhases
<1>10. SoundTick(ruleHand'[s]) /\ ruleHand'[s].copies = left
  BY <1>8, <1>9, RestingTickIsSound
<1>11. /\ rules'[r] = saved /\ rules' \in [RuleIds -> RuleRow \cup {Absent}]
       /\ \A u \in RuleIds : u # r => rules'[u] = rules[u]
  BY <1>1, <1>2, <1>4, <1>6 DEF RulesTyped
<1>12. RulesTyped' /\ \A k \in Servers : SoundTick(ruleHand'[k])
  <2>1. RulesTyped'
    BY <1>1, <1>4, <1>8, <1>11 DEF RulesTyped
  <2> QED  BY <1>8, <1>10, <2>1 DEF RulesInv
<1>13. Copied(s, r) /\ (~disputed[r] => rules[r] = row)
  BY <1>1, <1>2 DEF Copied, CopiesAreRules, row, r
<1>14. CopiesAreRules'
  <2> SUFFICES ASSUME NEW u \in RuleIds, ~disputed[u]
               PROVE  /\ \A j, k \in Servers : Copied(j, u)' /\ Copied(k, u)' => j = k
                      /\ \A k \in Servers : Copied(k, u)' => ruleHand'[k].copies[u] = rules'[u]
      BY <1>4 DEF CopiesAreRules
  <2>1. \A k \in Servers : Copied(k, u)' => /\ Copied(k, u) /\ ~(k = s /\ u = r)
                                            /\ ruleHand'[k].copies[u] = ruleHand[k].copies[u]
    BY <1>3, <1>8, <1>10 DEF Copied
  <2>2. CASE u = r
    BY <1>1, <1>13, <2>1, <2>2 DEF CopiesAreRules
  <2>3. CASE u # r
    BY <1>1, <1>11, <2>1, <2>3 DEF CopiesAreRules
  <2> QED  BY <2>2, <2>3
<1>15. RuleWishesStand'
  BY <1>1, <1>2, <1>4, <1>6, <1>11, <1>13 DEF RuleWishesStand
<1> QED  BY <1>12, <1>14, <1>15 DEF RulesInv

LEMMA NextRulesInv == RulesInv /\ [RulesNext]_ruleVars => RulesInv'
<1> SUFFICES ASSUME RulesInv, [RulesNext]_ruleVars PROVE RulesInv'
    OBVIOUS
<1>1. CASE UNCHANGED ruleVars
  BY <1>1 DEF ruleVars, RulesInv, RulesTyped, SoundTick, CopiesAreRules, RuleWishesStand, Copied
<1>2. CASE RuleTime
  <2>1. UNCHANGED <<rules, wished, ruleHand, disputed>> /\ clock' \in 1 .. MaxClock
    BY <1>2, SchedulingAssumption DEF RuleTime, TimePasses, RulesInv, RulesTyped
  <2> QED  BY <2>1 DEF RulesInv, RulesTyped, SoundTick, CopiesAreRules, RuleWishesStand, Copied
<1>3. ASSUME NEW r \in RuleIds,
             \/ \E kind \in RuleKinds, p \in Periods : CreateRule(r, kind, p)
             \/ \E active \in BOOLEAN : SetRuleActive(r, active)
             \/ RemoveRule(r)
      PROVE  RulesInv'
  BY <1>3, MemberRulesInv
<1>4. ASSUME NEW s \in Servers,
             \/ RuleTickStart(s)
             \/ \E r \in RuleIds : NextRule(s, r)
             \/ \E n \in 0 .. MaxBreaches : Measure(s, n)
             \/ \E done \in BOOLEAN : Apply(s, done)
             \/ ApplyUnheard(s) \/ Record(s) \/ RecordFails(s) \/ SaveRule(s) \/ RuleTickLost(s)
      PROVE  RulesInv'
  BY <1>4, RuleTickStartInv, NextRuleInv, MeasureInv, ApplyInv, ApplyUnheardInv, RecordInv,
     RecordFailsInv, SaveRuleInv, RuleTickLostInv
<1> QED  BY <1>1, <1>2, <1>3, <1>4 DEF RulesNext

(* Any number of servers evaluate the same rules while members pause, resume and
   remove them. *)
THEOREM RulesInvariant == RulesSpec => []RulesInv
<1>1. RulesInit => RulesInv
  BY InitRulesInv
<1>2. RulesInv /\ [RulesNext]_ruleVars => RulesInv'
  BY NextRulesInv
<1> QED  BY <1>1, <1>2, PTL DEF RulesSpec

(* For any number of servers: a tick about to change a campaign unasked does it
   for a rule that is there, active and autonomous, unless another thread had the
   row or a change went unrecorded (executeMutations). *)
THEOREM OnlyAuthorisedChanges == RulesSpec => []ChangesAreAuthorised
<1>1. RulesInv => ChangesAreAuthorised
  <2> SUFFICES ASSUME RulesInv, NEW s \in Servers, ruleHand[s].phase = "apply",
                      ~disputed[ruleHand[s].running]
               PROVE  LET r == ruleHand[s].running
                      IN  /\ rules[r] # Absent /\ rules[r].isActive /\ rules[r].kind.autoExecute
                          /\ rules[r].kind.action \in {"pause", "scale"}
                          /\ rules[r].kind.scope = "campaign"
                          /\ wished[r] # Absent /\ wished[r].isActive
      BY DEF ChangesAreAuthorised
  <2> DEFINE r == ruleHand[s].running
             row == ruleHand[s].copies[r]
  <2>1. /\ r \in RuleIds /\ row # Absent /\ row \in RuleRow /\ row.isActive /\ Mutates(row)
    BY DEF RulesInv, SoundTick
  <2>2. rules[r] = row /\ wished[r] # Absent /\ (rules[r].isActive = wished[r].isActive)
    BY <2>1 DEF RulesInv, CopiesAreRules, RuleWishesStand, Copied
  <2>3. row.kind.action \in {"alert", "pause", "scale"} /\ row.kind.scope \in {"account", "campaign"}
    BY <2>1 DEF RuleRow, Kinds
  <2> QED  BY <2>1, <2>2, <2>3 DEF Mutates
<1> QED  BY <1>1, RulesInvariant, PTL

----------------------------------------------------------------------------
(* Counting.  A campaign has been changed as often as the audit table says, *)
(* but for the changes a tick is about to record; a tick that goes on       *)
(* changing has, with what the table counts of the last day, room for what  *)
(* it still means to do; nothing is written after the present.              *)

Applying(s, r) ==
    /\ ruleHand[s].running = r /\ ruleHand[s].phase \in {"apply", "record"}
    /\ Mutates(ruleHand[s].copies[r])

Recorders(r) ==
    {s \in Servers : /\ ruleHand[s].running = r /\ ruleHand[s].phase = "record"
                     /\ ruleHand[s].success /\ Mutates(ruleHand[s].copies[r])}

Span == 1 .. MaxClock
From(i) == {k \in Span : i <= k}
Window(i) == Span \cap (i .. i + Day - 1)
Made(r, T) == SumFunctionOnSet(altered[r], T)
Told(r, T) == SumFunctionOnSet(audit[r], T)

TickHand == [phase : RulePhases, copies : [RuleIds -> RuleRow \cup {Absent}],
         running : RuleIds \cup {Nobody}, todo : 0 .. MaxBreaches, success : BOOLEAN]

CountsTyped ==
    /\ crashes \in 0 .. MaxCrashes
    /\ ruleHand \in [Servers -> TickHand]
    /\ altered \in [RuleIds -> [Span -> Nat]]
    /\ audit \in [RuleIds -> [Span -> Nat]]
    /\ \A r \in RuleIds, k \in Span : k > clock => altered[r][k] = 0
    /\ \A s \in Servers : ruleHand[s].phase \in {"apply", "record"} => ruleHand[s].todo >= 1

(* What the table told of a deleted rule went with it. *)
NothingToldOfNone == \A r \in RuleIds : rules[r] = Absent => audit[r] = NoneYet

ToldWasMade == \A r \in RuleIds : Told(r, Span) + Cardinality(Recorders(r)) <= Made(r, Span)

MadeIsTold(r) == rules[r] # Absent =>
    \A i \in Span : Made(r, From(i)) <= Told(r, From(i)) + Cardinality(Recorders(r))
CapKept(r) == \A i \in Span : Made(r, Window(i)) <= DailyActionCap
RoomLeft(r) ==
    \A s \in Servers : Applying(s, r) => UsedToday(r) + ruleHand[s].todo <= DailyActionCap

RulesCounted ==
    /\ CountsTyped
    /\ NothingToldOfNone
    /\ ToldWasMade
    /\ \A r \in RuleIds : ~disputed[r] => MadeIsTold(r) /\ CapKept(r) /\ RoomLeft(r)

----------------------------------------------------------------------------
LEMMA SpanFacts ==
    /\ IsFiniteSet(Span) /\ Span \subseteq Nat /\ MaxClock \in Nat \ {0} /\ Day \in Nat \ {0}
    /\ DailyActionCap \in Nat /\ MaxActionsPerRun \in Nat /\ MaxBreaches \in Nat
    /\ From(1) = Span /\ Recent \subseteq Span /\ 1 \in Span
    /\ \A i \in Span : From(i) \subseteq Span /\ Window(i) \subseteq From(i)
<1>1. /\ MaxClock \in Nat \ {0} /\ Day \in Nat \ {0} /\ DailyActionCap \in Nat
      /\ MaxActionsPerRun \in Nat /\ MaxBreaches \in Nat
  BY SchedulingAssumption, RulesAssumption
<1>2. IsFiniteSet(Span) /\ Span \subseteq Nat /\ 1 \in Span
  BY <1>1, FS_Interval DEF Span
<1> QED  BY <1>1, <1>2 DEF From, Window, Recent, Span

LEMMA RecordersFinite ==
    ASSUME NEW r
    PROVE  IsFiniteSet(Recorders(r)) /\ Cardinality(Recorders(r)) \in Nat
BY FS_Subset, FS_CardinalityType, SchedulingAssumption DEF Recorders

(* What is counted is a natural number, and more is counted over more. *)
LEMMA CountsAreNat ==
    ASSUME CountsTyped, NEW r \in RuleIds, NEW T, T \subseteq Span
    PROVE  /\ Made(r, T) \in Nat /\ Told(r, T) \in Nat
           /\ \A U \in SUBSET T : Made(r, U) <= Made(r, T) /\ Told(r, U) <= Told(r, T)
<1>1. IsFiniteSet(T) /\ \A x \in T : altered[r][x] \in Nat /\ audit[r][x] \in Nat
  <2>1. IsFiniteSet(T)
    BY SpanFacts, FS_Subset
  <2>2. altered[r] \in [Span -> Nat] /\ audit[r] \in [Span -> Nat]
    BY DEF CountsTyped
  <2> QED  BY <2>1, <2>2
<1>2. Made(r, T) \in Nat
  BY <1>1, SumIsNat DEF Made
<1>3. Told(r, T) \in Nat
  BY <1>1, SumIsNat DEF Told
<1>4. ASSUME NEW U \in SUBSET T PROVE Made(r, U) <= Made(r, T)
  BY <1>1, SumOfMore DEF Made
<1>5. ASSUME NEW U \in SUBSET T PROVE Told(r, U) <= Told(r, T)
  BY <1>1, SumOfMore DEF Told
<1> QED  BY <1>2, <1>3, <1>4, <1>5

(* One tick at a time records the changes of an undisputed rule. *)
LEMMA OneRecorder ==
    ASSUME RulesInv, NEW r \in RuleIds, ~disputed[r], NEW s \in Servers, Copied(s, r)
    PROVE  /\ \A k \in Servers : Applying(k, r) => k = s
           /\ Recorders(r) \subseteq {s}
           /\ rules[r] # Absent
<1>1. ASSUME NEW k \in Servers, Applying(k, r) PROVE k = s
  <2>1. Copied(k, r)
    BY <1>1 DEF RulesInv, SoundTick, Applying, Copied
  <2> QED  BY <2>1 DEF RulesInv, CopiesAreRules
<1>2. rules[r] # Absent
  BY DEF RulesInv, CopiesAreRules, Copied
<1> QED  BY <1>1, <1>2 DEF Recorders, Applying

LEMMA InitRulesCounted == RulesInit => RulesCounted
<1> SUFFICES ASSUME RulesInit PROVE RulesCounted
    OBVIOUS
<1> DEFINE none == [i \in Span |-> 0]
<1>1. /\ crashes = 0 /\ ruleHand = [s \in Servers |-> RestingTick]
      /\ altered = [r \in RuleIds |-> none] /\ audit = [r \in RuleIds |-> none]
  BY DEF RulesInit, SchedulingInit, Span, NoneYet
<1>2. RestingTick \in TickHand /\ RestingTick.phase = "idle"
  <2>1. RestingTick = [phase |-> "idle", copies |-> NoRules, running |-> Nobody,
                       todo |-> 0, success |-> FALSE]
    BY DEF RestingTick
  <2>2. NoRules \in [RuleIds -> RuleRow \cup {Absent}]
    BY DEF NoRules
  <2> QED  BY <2>1, <2>2, SpanFacts DEF TickHand, RulePhases
<1>3. /\ none \in [Span -> Nat] /\ \A k \in Span : none[k] = 0
      /\ MaxCrashes \in Nat
  BY SchedulingAssumption
<1>4. CountsTyped
  BY <1>1, <1>2, <1>3 DEF CountsTyped
<1>5. \A s \in Servers, r \in RuleIds : ~Applying(s, r) /\ s \notin Recorders(r)
  BY <1>1, <1>2 DEF Applying, Recorders
<1>6. ASSUME NEW r \in RuleIds PROVE Cardinality(Recorders(r)) = 0
  <2>1. Recorders(r) = {}
    BY <1>5 DEF Recorders
  <2> QED  BY <2>1, FS_EmptySet
<1>7. ASSUME NEW r \in RuleIds, NEW T, T \subseteq Span PROVE Made(r, T) = 0 /\ Told(r, T) = 0
  <2>1. IsFiniteSet(T) /\ \A x \in T : altered[r][x] = 0 /\ audit[r][x] = 0
    BY <1>1, <1>3, <1>7, SpanFacts, FS_Subset
  <2> QED  BY <2>1, SumOfZeros DEF Made, Told
<1>8. \A i \in Span : From(i) \subseteq Span /\ Window(i) \subseteq Span
  BY SpanFacts
<1>9. ToldWasMade
  BY <1>6, <1>7 DEF ToldWasMade
<1>10. \A r \in RuleIds : MadeIsTold(r) /\ CapKept(r) /\ RoomLeft(r)
  BY <1>5, <1>6, <1>7, <1>8, SpanFacts DEF MadeIsTold, CapKept, RoomLeft
<1>11. NothingToldOfNone
  BY <1>1 DEF NothingToldOfNone, NoneYet, Span
<1> QED  BY <1>4, <1>9, <1>10, <1>11 DEF RulesCounted

(* No rule is removed, and only a disputed one comes back. *)
KeepsRules ==
    \A r \in RuleIds : /\ rules'[r] = Absent => rules[r] = Absent
                       /\ ~disputed'[r] /\ rules'[r] # Absent => rules[r] # Absent

(* A step that changes and records nothing, of one server at most. *)
LEMMA NothingCounted ==
    ASSUME RulesInv, RulesInv', RulesCounted, NEW s \in Servers,
           UNCHANGED <<altered, audit, clock>>, crashes' \in 0 .. MaxCrashes,
           \A r \in RuleIds : disputed[r] => disputed'[r], KeepsRules,
           ruleHand' = [ruleHand EXCEPT ![s] = ruleHand'[s]],
           ruleHand'[s].running \in RuleIds \cup {Nobody}, ruleHand'[s].success \in BOOLEAN,
           ruleHand'[s].todo \in 0 .. MaxBreaches,
           ruleHand'[s].phase \in {"apply", "record"} => ruleHand'[s].todo >= 1,
           \A r \in RuleIds : s \in Recorders(r)' => s \in Recorders(r),
           \A r \in RuleIds : ~disputed'[r] =>
               /\ s \in Recorders(r) => s \in Recorders(r)'
               /\ Applying(s, r)' => UsedToday(r) + ruleHand'[s].todo <= DailyActionCap
    PROVE  RulesCounted'
<1>1. CountsTyped'
  <2>1. ruleHand' \in [Servers -> TickHand]
    <3>1. SoundTick(ruleHand'[s]) /\ ruleHand \in [Servers -> TickHand]
      BY DEF RulesInv, RulesCounted, CountsTyped
    <3>2. ruleHand'[s] \in TickHand
      BY <3>1 DEF SoundTick, TickHand
    <3> QED  BY <3>1, <3>2
  <2>2. \A k \in Servers : k # s => ruleHand'[k] = ruleHand[k]
    BY DEF RulesCounted, CountsTyped
  <2> QED  BY <2>1, <2>2 DEF RulesCounted, CountsTyped
<1>0. /\ \A k \in Servers : k # s => ruleHand'[k] = ruleHand[k]
      /\ DOMAIN ruleHand' = Servers
  BY DEF RulesCounted, CountsTyped
<1>2. \A r \in RuleIds : \A T : Made(r, T)' = Made(r, T) /\ Told(r, T)' = Told(r, T)
  BY DEF Made, Told
<1>3. \A r \in RuleIds : UsedToday(r)' = UsedToday(r)
  BY DEF UsedToday, Recent
<1>4. \A k \in Servers, r \in RuleIds :
        k # s => /\ (Applying(k, r)' <=> Applying(k, r))
                 /\ (k \in Recorders(r)' <=> k \in Recorders(r))
  BY <1>0 DEF Applying, Recorders
<1>5. ASSUME NEW r \in RuleIds
      PROVE  /\ Cardinality(Recorders(r)') <= Cardinality(Recorders(r))
             /\ ~disputed'[r] => Recorders(r)' = Recorders(r)
             /\ Cardinality(Recorders(r)) \in Nat /\ Cardinality(Recorders(r)') \in Nat
  <2>1. Recorders(r)' \subseteq Recorders(r) /\ (~disputed'[r] => Recorders(r)' = Recorders(r))
    BY <1>4 DEF Recorders
  <2>2. IsFiniteSet(Recorders(r)) /\ Cardinality(Recorders(r)) \in Nat
    BY RecordersFinite
  <2> QED  BY <2>1, <2>2, FS_Subset, FS_CardinalityType
<1>6. ToldWasMade'
  <2> SUFFICES ASSUME NEW r \in RuleIds
               PROVE  Told(r, Span) + Cardinality(Recorders(r)') <= Made(r, Span)
      BY <1>2 DEF ToldWasMade
  <2>1. Told(r, Span) \in Nat /\ Made(r, Span) \in Nat
    BY CountsAreNat DEF RulesCounted
  <2> QED  BY <1>5, <2>1 DEF RulesCounted, ToldWasMade
<1>7. ASSUME NEW r \in RuleIds, ~disputed'[r] PROVE (MadeIsTold(r) /\ CapKept(r) /\ RoomLeft(r))'
  <2>1. MadeIsTold(r) /\ CapKept(r) /\ RoomLeft(r) /\ Recorders(r)' = Recorders(r)
    BY <1>5, <1>7 DEF RulesCounted
  <2>2. MadeIsTold(r)' /\ CapKept(r)'
    BY <1>2, <1>7, <2>1 DEF MadeIsTold, CapKept, KeepsRules
  <2>3. RoomLeft(r)'
    BY <1>0, <1>3, <1>4, <1>7, <2>1 DEF RoomLeft
  <2> QED  BY <2>2, <2>3
<1>8. NothingToldOfNone'
  BY DEF RulesCounted, NothingToldOfNone, KeepsRules
<1> QED  BY <1>1, <1>6, <1>7, <1>8 DEF RulesCounted

(* What a server's hand is, field by field. *)
LEMMA TickFields ==
    ASSUME RulesInv, RulesCounted, NEW s \in Servers
    PROVE  /\ ruleHand[s] \in TickHand /\ SoundTick(ruleHand[s])
           /\ ruleHand = [ruleHand EXCEPT ![s] = ruleHand[s]]
           /\ ruleHand \in [Servers -> TickHand] /\ clock \in Span /\ crashes \in 0 .. MaxCrashes
           /\ ruleHand[s].running \in RuleIds \cup {Nobody} /\ ruleHand[s].success \in BOOLEAN
           /\ ruleHand[s].todo \in 0 .. MaxBreaches
           /\ ruleHand[s].phase \in {"apply", "record"} => ruleHand[s].todo >= 1
           /\ ruleHand[s].phase \in {"measure", "apply", "record", "save"} =>
                  ruleHand[s].running \in RuleIds /\ Copied(s, ruleHand[s].running)
<1>1. ruleHand \in [Servers -> TickHand] /\ SoundTick(ruleHand[s]) /\ clock \in Span
  BY DEF RulesCounted, CountsTyped, RulesInv, RulesTyped, Span
<1>2. ruleHand[s] \in TickHand /\ ruleHand = [ruleHand EXCEPT ![s] = ruleHand[s]]
  BY <1>1
<1>3. /\ crashes \in 0 .. MaxCrashes
      /\ ruleHand[s].phase \in {"apply", "record"} => ruleHand[s].todo >= 1
  BY DEF RulesCounted, CountsTyped
<1> QED  BY <1>1, <1>2, <1>3 DEF TickHand, SoundTick, Copied

(* Changes are planned within what the daily cap leaves. *)
LEMMA RunCapFits ==
    ASSUME RulesInv, RulesCounted, NEW r \in RuleIds, NEW n \in 0 .. MaxBreaches
    PROVE  /\ UsedToday(r) \in Nat
           /\ Least(n, RunCap(r)) \in 0 .. MaxBreaches
           /\ Least(n, MaxActionsPerRun) \in 0 .. MaxBreaches
           /\ Least(n, RunCap(r)) >= 1 => UsedToday(r) + Least(n, RunCap(r)) <= DailyActionCap
<1>1. UsedToday(r) \in Nat /\ UsedToday(r) = Told(r, Recent)
  BY CountsAreNat, SpanFacts DEF RulesCounted, UsedToday, Told
<1>2. /\ n \in Nat /\ n <= MaxBreaches
      /\ DailyActionCap \in Nat /\ MaxActionsPerRun \in Nat /\ MaxBreaches \in Nat
  BY SpanFacts
<1> QED  BY <1>1, <1>2 DEF RunCap, Least

LEMMA MeasureCounted ==
    ASSUME RulesInv, RulesInv', RulesCounted, NEW s \in Servers,
           NEW n \in 0 .. MaxBreaches, Measure(s, n)
    PROVE  RulesCounted'
<1> DEFINE h == ruleHand[s]
           r == h.running
           row == h.copies[r]
           todo == Least(n, IF Mutates(row) THEN RunCap(r) ELSE MaxActionsPerRun)
           phase == IF todo = 0 THEN "save" ELSE IF Mutates(row) THEN "apply" ELSE "record"
           yes == TRUE
           g == [phase |-> phase, copies |-> h.copies, running |-> r, todo |-> todo, success |-> yes]
<1>1. /\ SoundTick(h) /\ h \in TickHand /\ ruleHand \in [Servers -> TickHand]
      /\ h.phase = "measure" /\ r \in RuleIds
  BY TickFields DEF Measure
<1>2. /\ todo \in 0 .. MaxBreaches
      /\ Mutates(row) /\ todo >= 1 => UsedToday(r) + todo <= DailyActionCap
  BY <1>1, RunCapFits
<1>3. ruleHand' = [ruleHand EXCEPT ![s].todo = todo, ![s].success = yes, ![s].phase = phase]
  BY DEF Measure
<1>4. /\ phase = "apply" => Mutates(row) /\ todo >= 1
      /\ phase = "record" => ~Mutates(row) /\ todo >= 1
  BY <1>2, SpanFacts
<1> HIDE DEF todo, phase, yes
<1>5. ruleHand'[s] = g
  BY <1>1, <1>3 DEF SoundTick
<1>6. ruleHand' = [k \in Servers |-> ruleHand'[k]] /\ \A k \in Servers : k # s => ruleHand'[k] = ruleHand[k]
  BY <1>1, <1>3
<1>7. /\ UNCHANGED <<altered, audit, clock>> /\ crashes' \in 0 .. MaxCrashes
      /\ UNCHANGED disputed /\ KeepsRules
  BY TickFields DEF Measure, KeepsRules
<1>8. g.phase = phase /\ g.copies = h.copies /\ g.running = r /\ g.todo = todo /\ g.success = yes
  OBVIOUS
<1> HIDE DEF g
<1>9. \A u \in RuleIds : s \notin Recorders(u) /\ s \notin Recorders(u)'
  BY <1>1, <1>4, <1>5, <1>8 DEF Recorders
<1>10. \A u \in RuleIds : Applying(s, u)' => UsedToday(u) + ruleHand'[s].todo <= DailyActionCap
  BY <1>2, <1>4, <1>5, <1>8 DEF Applying
<1>11. /\ ruleHand'[s].running \in RuleIds \cup {Nobody} /\ ruleHand'[s].success \in BOOLEAN
       /\ ruleHand'[s].todo \in 0 .. MaxBreaches
       /\ ruleHand'[s].phase \in {"apply", "record"} => ruleHand'[s].todo >= 1
  BY <1>1, <1>2, <1>4, <1>5, <1>8 DEF yes
<1>12. ruleHand' = [ruleHand EXCEPT ![s] = ruleHand'[s]]
  BY <1>1, <1>6
<1> QED  BY <1>7, <1>9, <1>10, <1>11, <1>12, NothingCounted

(* Meta takes the change: one more is made, and this tick is about to record it. *)
LEMMA ChangeCounted ==
    ASSUME RulesInv, RulesInv', RulesCounted, NEW s \in Servers, Apply(s, TRUE),
           NEW r \in RuleIds, r = ruleHand[s].running
    PROVE  RulesCounted'
<1> DEFINE h == ruleHand[s]
           yes == TRUE
           g == [phase |-> "record", copies |-> h.copies, running |-> r, todo |-> h.todo, success |-> yes]
<1>1. /\ SoundTick(h) /\ h \in TickHand /\ ruleHand \in [Servers -> TickHand] /\ clock \in Span
      /\ h.phase = "apply" /\ r = h.running /\ Copied(s, r) /\ Mutates(h.copies[r])
      /\ h.todo \in 0 .. MaxBreaches /\ h.todo >= 1 /\ crashes \in 0 .. MaxCrashes
  BY TickFields DEF Apply, SoundTick
<1>2. /\ ruleHand' = [ruleHand EXCEPT ![s].phase = "record", ![s].success = yes]
      /\ altered' = [altered EXCEPT ![r][clock] = @ + 1]
      /\ UNCHANGED <<clock, crashes, audit, disputed, rules>>
  BY DEF Apply
<1> HIDE DEF yes
<1>3. /\ ruleHand'[s] = g /\ ruleHand' = [k \in Servers |-> ruleHand'[k]]
      /\ \A k \in Servers : k # s => ruleHand'[k] = ruleHand[k]
  <2>1. ruleHand'[s] = g
    BY <1>1, <1>2 DEF SoundTick
  <2>2. /\ ruleHand' = [k \in Servers |-> ruleHand'[k]]
        /\ \A k \in Servers : k # s => ruleHand'[k] = ruleHand[k]
    BY <1>1, <1>2
  <2> QED  BY <2>1, <2>2
<1>4. /\ g.phase = "record" /\ g.copies = h.copies /\ g.running = r /\ g.todo = h.todo
      /\ g.success
  BY DEF yes
<1>5. g \in TickHand
  <2>1. h.copies \in [RuleIds -> RuleRow \cup {Absent}] /\ yes \in BOOLEAN
    BY <1>1 DEF TickHand, yes
  <2> QED  BY <1>1, <2>1 DEF TickHand, RulePhases
<1> HIDE DEF h, g
<1>6. /\ altered \in [RuleIds -> [Span -> Nat]]
      /\ \A k \in Span : k > clock => altered[r][k] = 0
  BY <1>1 DEF RulesCounted, CountsTyped
<1>7. /\ altered' \in [RuleIds -> [Span -> Nat]] /\ altered'[r] = [altered[r] EXCEPT ![clock] = @ + 1]
      /\ \A u \in RuleIds : u # r => altered'[u] = altered[u]
  BY <1>1, <1>2, <1>6
<1>8. \A k \in Span : altered'[r][k] = IF k = clock THEN altered[r][k] + 1 ELSE altered[r][k]
  BY <1>1, <1>6, <1>7
<1>9. CountsTyped'
  <2>1. ruleHand' \in [Servers -> TickHand]
    BY <1>1, <1>3, <1>5
  <2>2. \A u \in RuleIds, k \in Span : k > clock => altered'[u][k] = 0
    BY <1>1, <1>7, <1>8, SpanFacts DEF RulesCounted, CountsTyped
  <2>3. \A k \in Servers : ruleHand'[k].phase \in {"apply", "record"} => ruleHand'[k].todo >= 1
    BY <1>1, <1>3, <1>4 DEF RulesCounted, CountsTyped
  <2> QED  BY <1>1, <1>2, <1>7, <2>1, <2>2, <2>3 DEF RulesCounted, CountsTyped
<1>10. /\ \A u \in RuleIds : u # r => Recorders(u)' = Recorders(u)
       /\ Recorders(r)' = Recorders(r) \cup {s} /\ s \notin Recorders(r)
  BY <1>1, <1>3, <1>4 DEF Recorders, h
<1>11. /\ Cardinality(Recorders(r)') = Cardinality(Recorders(r)) + 1
       /\ Cardinality(Recorders(r)) \in Nat
  BY <1>10, RecordersFinite, FS_AddElement
<1>12. ASSUME NEW T, T \subseteq Span
       PROVE  Made(r, T) \in Nat /\ Made(r, T)' = Made(r, T) + (IF clock \in T THEN 1 ELSE 0)
  <2>1. IsFiniteSet(T)
    BY <1>12, SpanFacts, FS_Subset
  <2>2. altered[r] \in [Span -> Nat]
    BY <1>1, <1>6
  <2>3. \A x \in T : altered[r][x] \in Nat
    BY <1>12, <2>2
  <2>4. \A x \in T : altered'[r][x] = IF x = clock THEN altered[r][x] + 1 ELSE altered[r][x]
    BY <1>8, <1>12
  <2>5. /\ SumFunctionOnSet(altered[r], T) \in Nat
        /\ SumFunctionOnSet(altered'[r], T)
              = SumFunctionOnSet(altered[r], T) + (IF clock \in T THEN 1 ELSE 0)
    BY <2>1, <2>3, <2>4, SumCountsOne
  <2> QED  BY <2>5 DEF Made
<1>13. /\ \A u \in RuleIds : \A T : u # r => Made(u, T)' = Made(u, T)
       /\ \A u \in RuleIds : \A T : Told(u, T)' = Told(u, T)
       /\ \A u \in RuleIds : UsedToday(u)' = UsedToday(u)
  BY <1>2, <1>7 DEF Made, Told, UsedToday, Recent
<1>14. ToldWasMade'
  <2> SUFFICES ASSUME NEW u \in RuleIds
               PROVE  Told(u, Span)' + Cardinality(Recorders(u)') <= Made(u, Span)'
      BY DEF ToldWasMade, Span
  <2>1. Told(u, Span) + Cardinality(Recorders(u)) <= Made(u, Span)
    BY DEF RulesCounted, ToldWasMade
  <2>2. CASE u # r
    BY <1>10, <1>13, <2>1, <2>2
  <2>3. CASE u = r
    <3>1. Made(r, Span)' = Made(r, Span) + 1 /\ Made(r, Span) \in Nat
      BY <1>1, <1>12
    <3>2. Told(r, Span)' = Told(r, Span) /\ Told(r, Span) \in Nat
      BY <1>1, <1>13, CountsAreNat DEF RulesCounted
    <3> QED  BY <1>11, <2>1, <2>3, <3>1, <3>2
  <2> QED  BY <2>2, <2>3
<1>15. ASSUME NEW u \in RuleIds, u # r, ~disputed[u] PROVE (MadeIsTold(u) /\ CapKept(u) /\ RoomLeft(u))'
  <2>1. MadeIsTold(u) /\ CapKept(u) /\ RoomLeft(u)
    BY <1>15 DEF RulesCounted
  <2>2. \A k \in Servers : Applying(k, u)' => Applying(k, u) /\ ruleHand'[k].todo = ruleHand[k].todo
    BY <1>3, <1>4, <1>15 DEF Applying, h
  <2>3. MadeIsTold(u)' /\ CapKept(u)'
    BY <1>2, <1>10, <1>13, <1>15, <2>1 DEF MadeIsTold, CapKept, From, Window, Span
  <2>4. RoomLeft(u)'
    BY <1>13, <2>1, <2>2 DEF RoomLeft
  <2> QED  BY <2>3, <2>4
<1>16. ASSUME ~disputed[r] PROVE (MadeIsTold(r) /\ CapKept(r) /\ RoomLeft(r))'
  <2>1. MadeIsTold(r) /\ CapKept(r) /\ RoomLeft(r) /\ rules[r] # Absent
    BY <1>1, <1>16, OneRecorder DEF RulesCounted
  <2>2. Cardinality(Recorders(r)) = 0
    <3>1. Recorders(r) = {}
      BY <1>1, <1>10, <1>16, OneRecorder
    <3> QED  BY <3>1, FS_EmptySet
  <2>3. UsedToday(r) + h.todo <= DailyActionCap
    BY <1>1, <2>1 DEF RoomLeft, Applying, h
  <2>4. ASSUME NEW i \in Span
        PROVE  Made(r, From(i))' <= Told(r, From(i))' + Cardinality(Recorders(r)')
    <3>1. From(i) \subseteq Span /\ Told(r, From(i))' = Told(r, From(i))
      BY <1>1, <1>13, SpanFacts
    <3>2. Told(r, From(i)) \in Nat /\ Made(r, From(i)) \in Nat
      BY <1>1, <3>1, CountsAreNat DEF RulesCounted
    <3>3. Made(r, From(i)) <= Told(r, From(i))
      BY <2>1, <2>2, <3>2 DEF MadeIsTold
    <3>4. Made(r, From(i))' <= Made(r, From(i)) + 1
      BY <1>12, <3>1, <3>2
    <3>5. Made(r, From(i))' \in Nat
      BY <1>12, <3>1, <3>2
    <3> QED  BY <1>11, <2>2, <3>1, <3>2, <3>3, <3>4, <3>5
  <2>5. ASSUME NEW i \in Span PROVE Made(r, Window(i))' <= DailyActionCap
    <3>1. /\ Window(i) \subseteq Span /\ From(i) \subseteq Span /\ Window(i) \subseteq From(i)
      BY SpanFacts
    <3>2. Made(r, Window(i)) <= DailyActionCap /\ Made(r, Window(i)) \in Nat
      BY <1>1, <2>1, <3>1, CountsAreNat DEF CapKept, RulesCounted
    <3>3. CASE clock \notin Window(i)
      BY <1>12, <3>1, <3>2, <3>3
    <3>4. CASE clock \in Window(i)
      <4>1. From(i) \subseteq Recent /\ Recent \subseteq Span
        BY <3>4, SpanFacts DEF From, Window, Recent, Span
      <4>2. /\ Made(r, Window(i)) <= Made(r, From(i)) /\ Told(r, From(i)) <= Told(r, Recent)
            /\ Made(r, From(i)) \in Nat /\ Told(r, From(i)) \in Nat /\ Told(r, Recent) \in Nat
        BY <1>1, <3>1, <4>1, CountsAreNat DEF RulesCounted
      <4>3. Made(r, From(i)) <= Told(r, From(i)) + 0
        BY <2>1, <2>2 DEF MadeIsTold
      <4>4. Told(r, Recent) = UsedToday(r)
        BY DEF Told, UsedToday
      <4>5. Made(r, Window(i))' = Made(r, Window(i)) + 1
        BY <1>12, <3>1, <3>4
      <4> QED  BY <1>1, <2>3, <3>2, <4>2, <4>3, <4>4, <4>5, SpanFacts
    <3> QED  BY <3>3, <3>4
  <2>6. RoomLeft(r)'
    <3> SUFFICES ASSUME NEW k \in Servers, Applying(k, r)'
                 PROVE  UsedToday(r)' + ruleHand'[k].todo <= DailyActionCap
        BY DEF RoomLeft
    <3>1. UsedToday(r)' = UsedToday(r)
      BY <1>1, <1>13
    <3>2. CASE k = s
      BY <1>3, <1>4, <2>3, <3>1, <3>2
    <3>3. CASE k # s
      <4>1. Applying(k, r)
        BY <1>3, <3>3 DEF Applying
      <4> QED  BY <1>3, <2>1, <3>1, <3>3, <4>1 DEF RoomLeft
    <3> QED  BY <3>2, <3>3
  <2> QED  BY <2>4, <2>5, <2>6 DEF MadeIsTold, CapKept, From, Window, Span
<1>17. NothingToldOfNone'
  BY <1>2 DEF RulesCounted, NothingToldOfNone
<1> QED  BY <1>1, <1>2, <1>9, <1>14, <1>15, <1>16, <1>17 DEF RulesCounted

(* Meta makes a change that nobody hears of: more is made, and the rule is disputed. *)
LEMMA UnheardCounted ==
    ASSUME RulesInv, RulesInv', RulesCounted, NEW s \in Servers, ApplyUnheard(s),
           NEW r \in RuleIds, r = ruleHand[s].running
    PROVE  RulesCounted'
<1> DEFINE h == ruleHand[s]
           no == FALSE
           g == [phase |-> "record", copies |-> h.copies, running |-> r, todo |-> h.todo, success |-> no]
<1>1. /\ SoundTick(h) /\ h \in TickHand /\ ruleHand \in [Servers -> TickHand] /\ clock \in Span
      /\ h.phase = "apply" /\ r = h.running /\ h.todo \in 0 .. MaxBreaches /\ h.todo >= 1
      /\ h.copies \in [RuleIds -> RuleRow \cup {Absent}] /\ RulesTyped
  BY TickFields DEF ApplyUnheard, SoundTick, RulesInv
<1>2. /\ ruleHand' = [ruleHand EXCEPT ![s].phase = "record", ![s].success = no]
      /\ altered' = [altered EXCEPT ![r][clock] = @ + 1]
      /\ disputed' = [disputed EXCEPT ![r] = TRUE]
      /\ UNCHANGED <<clock, audit, rules>> /\ crashes' \in 0 .. MaxCrashes
  <2>1. crashes' = crashes + 1 /\ crashes < MaxCrashes /\ crashes \in 0 .. MaxCrashes /\ UNCHANGED clock
    BY TickFields DEF ApplyUnheard, OneMoreCrash
  <2>2. crashes' \in 0 .. MaxCrashes
    BY <2>1, SchedulingAssumption
  <2> QED  BY <2>1, <2>2 DEF ApplyUnheard
<1> HIDE DEF no
<1>3. /\ ruleHand'[s] = g /\ ruleHand' = [k \in Servers |-> ruleHand'[k]]
      /\ \A k \in Servers : k # s => ruleHand'[k] = ruleHand[k]
  <2>1. ruleHand'[s] = g
    BY <1>1, <1>2 DEF SoundTick
  <2>2. /\ ruleHand' = [k \in Servers |-> ruleHand'[k]]
        /\ \A k \in Servers : k # s => ruleHand'[k] = ruleHand[k]
    BY <1>1, <1>2
  <2> QED  BY <2>1, <2>2
<1>4. /\ g.phase = "record" /\ g.copies = h.copies /\ g.running = r /\ g.todo = h.todo
      /\ ~g.success
  BY DEF no
<1>5. g \in TickHand
  BY <1>1 DEF TickHand, RulePhases, no
<1>6. h.phase = "apply" /\ h = ruleHand[s]
  BY <1>1
<1> HIDE DEF h, g
<1>7. /\ altered \in [RuleIds -> [Span -> Nat]]
      /\ \A k \in Span : k > clock => altered[r][k] = 0
  BY <1>1 DEF RulesCounted, CountsTyped
<1>8. /\ altered' \in [RuleIds -> [Span -> Nat]] /\ altered'[r] = [altered[r] EXCEPT ![clock] = @ + 1]
      /\ \A u \in RuleIds : u # r => altered'[u] = altered[u]
  BY <1>1, <1>2, <1>7
<1>9. \A k \in Span : altered'[r][k] = IF k = clock THEN altered[r][k] + 1 ELSE altered[r][k]
  BY <1>1, <1>7, <1>8
<1>10. CountsTyped'
  <2>1. ruleHand' \in [Servers -> TickHand]
    BY <1>1, <1>3, <1>5
  <2>2. \A u \in RuleIds, k \in Span : k > clock => altered'[u][k] = 0
    BY <1>1, <1>8, <1>9, SpanFacts DEF RulesCounted, CountsTyped
  <2>3. \A k \in Servers : ruleHand'[k].phase \in {"apply", "record"} => ruleHand'[k].todo >= 1
    BY <1>1, <1>3, <1>4 DEF RulesCounted, CountsTyped
  <2> QED  BY <1>2, <1>8, <2>1, <2>2, <2>3 DEF RulesCounted, CountsTyped
<1>11. \A u \in RuleIds : Recorders(u)' = Recorders(u)
  BY <1>3, <1>4, <1>6 DEF Recorders
<1>12. /\ \A u \in RuleIds : \A T : u # r => Made(u, T)' = Made(u, T)
       /\ \A u \in RuleIds : \A T : Told(u, T)' = Told(u, T)
       /\ \A u \in RuleIds : UsedToday(u)' = UsedToday(u)
  BY <1>2, <1>8 DEF Made, Told, UsedToday, Recent
<1>13. Made(r, Span) \in Nat /\ Made(r, Span)' = Made(r, Span) + 1
  <2>1. IsFiniteSet(Span) /\ \A x \in Span : altered[r][x] \in Nat
    BY <1>1, <1>7, SpanFacts
  <2>2. /\ SumFunctionOnSet(altered[r], Span) \in Nat
        /\ SumFunctionOnSet(altered'[r], Span)
              = SumFunctionOnSet(altered[r], Span) + (IF clock \in Span THEN 1 ELSE 0)
    BY <1>9, <2>1, SumCountsOne
  <2> QED  BY <1>1, <2>2 DEF Made, Span
<1>14. ToldWasMade'
  <2> SUFFICES ASSUME NEW u \in RuleIds
               PROVE  Told(u, Span)' + Cardinality(Recorders(u)') <= Made(u, Span)'
      BY DEF ToldWasMade, Span
  <2>1. /\ Told(u, Span) + Cardinality(Recorders(u)) <= Made(u, Span)
        /\ Told(u, Span) \in Nat /\ Cardinality(Recorders(u)) \in Nat
    BY CountsAreNat, RecordersFinite DEF RulesCounted, ToldWasMade
  <2>2. CASE u # r
    BY <1>11, <1>12, <2>1, <2>2
  <2>3. CASE u = r
    BY <1>11, <1>12, <1>13, <2>1, <2>3
  <2> QED  BY <2>2, <2>3
<1>15. ASSUME NEW u \in RuleIds, ~disputed'[u] PROVE (MadeIsTold(u) /\ CapKept(u) /\ RoomLeft(u))'
  <2>1. u # r /\ ~disputed[u]
    BY <1>1, <1>2, <1>15 DEF RulesTyped
  <2>2. MadeIsTold(u) /\ CapKept(u) /\ RoomLeft(u)
    BY <2>1 DEF RulesCounted
  <2>3. \A k \in Servers : Applying(k, u)' => Applying(k, u) /\ ruleHand'[k].todo = ruleHand[k].todo
    BY <1>3, <1>4, <2>1 DEF Applying
  <2>4. MadeIsTold(u)' /\ CapKept(u)'
    BY <1>2, <1>11, <1>12, <2>1, <2>2 DEF MadeIsTold, CapKept, From, Window, Span
  <2>5. RoomLeft(u)'
    BY <1>12, <2>2, <2>3 DEF RoomLeft
  <2> QED  BY <2>4, <2>5
<1>16. NothingToldOfNone'
  BY <1>2 DEF RulesCounted, NothingToldOfNone
<1> QED  BY <1>10, <1>14, <1>15, <1>16 DEF RulesCounted

(* The table tells of a change: one more is told, and the tick is about to record
   one change less. *)
LEMMA RecordCounted ==
    ASSUME RulesInv, RulesInv', RulesCounted, NEW s \in Servers, Record(s),
           NEW r \in RuleIds, r = ruleHand[s].running, Counts(s, ruleHand[s].copies[r])
    PROVE  RulesCounted'
<1> DEFINE h == ruleHand[s]
           yes == TRUE
           left == h.todo - 1
           phase == IF h.todo = 1 THEN "save" ELSE "apply"
           g == [phase |-> phase, copies |-> h.copies, running |-> r, todo |-> left, success |-> yes]
<1>1. /\ SoundTick(h) /\ h \in TickHand /\ ruleHand \in [Servers -> TickHand] /\ clock \in Span
      /\ h.phase = "record" /\ r = h.running /\ Copied(s, r) /\ Mutates(h.copies[r]) /\ h.success
      /\ h.todo \in 0 .. MaxBreaches /\ h.todo >= 1 /\ crashes \in 0 .. MaxCrashes
  BY TickFields DEF Record, SoundTick, Counts
<1>2. /\ ruleHand' = [ruleHand EXCEPT ![s].todo = left, ![s].success = yes, ![s].phase = phase]
      /\ audit' = [audit EXCEPT ![r][clock] = @ + 1]
      /\ UNCHANGED <<clock, crashes, altered, disputed, rules>> /\ rules[r] # Absent
  BY <1>1 DEF Record, AfterRecord
<1>3. /\ left \in 0 .. MaxBreaches /\ phase \in {"save", "apply"}
      /\ phase = "apply" => left >= 1
  BY <1>1, SpanFacts
<1> HIDE DEF yes, left, phase
<1>4. /\ ruleHand'[s] = g /\ ruleHand' = [k \in Servers |-> ruleHand'[k]]
      /\ \A k \in Servers : k # s => ruleHand'[k] = ruleHand[k]
  <2>1. ruleHand'[s] = g
    BY <1>1, <1>2 DEF SoundTick
  <2>2. /\ ruleHand' = [k \in Servers |-> ruleHand'[k]]
        /\ \A k \in Servers : k # s => ruleHand'[k] = ruleHand[k]
    BY <1>1, <1>2
  <2> QED  BY <2>1, <2>2
<1>5. g.phase = phase /\ g.copies = h.copies /\ g.running = r /\ g.todo = left
  OBVIOUS
<1>6. g \in TickHand
  <2>1. h.copies \in [RuleIds -> RuleRow \cup {Absent}] /\ yes \in BOOLEAN
    BY <1>1 DEF TickHand, yes
  <2> QED  BY <1>1, <1>3, <2>1 DEF TickHand, RulePhases
<1> HIDE DEF h, g
<1>7. /\ audit \in [RuleIds -> [Span -> Nat]]
      /\ \A k \in Span : k > clock => altered[r][k] = 0
  BY <1>1 DEF RulesCounted, CountsTyped
<1>8. /\ audit' \in [RuleIds -> [Span -> Nat]] /\ audit'[r] = [audit[r] EXCEPT ![clock] = @ + 1]
      /\ \A u \in RuleIds : u # r => audit'[u] = audit[u]
  BY <1>1, <1>2, <1>7
<1>9. \A k \in Span : audit'[r][k] = IF k = clock THEN audit[r][k] + 1 ELSE audit[r][k]
  BY <1>1, <1>7, <1>8
<1>10. CountsTyped'
  <2>1. ruleHand' \in [Servers -> TickHand]
    BY <1>1, <1>4, <1>6
  <2>2. \A k \in Servers : ruleHand'[k].phase \in {"apply", "record"} => ruleHand'[k].todo >= 1
    BY <1>3, <1>4, <1>5 DEF RulesCounted, CountsTyped
  <2> QED  BY <1>1, <1>2, <1>8, <2>1, <2>2 DEF RulesCounted, CountsTyped
<1>11. /\ \A u \in RuleIds : u # r => Recorders(u)' = Recorders(u)
       /\ Recorders(r)' = Recorders(r) \ {s} /\ s \in Recorders(r)
  BY <1>1, <1>3, <1>4, <1>5 DEF Recorders, h
<1>12. /\ Cardinality(Recorders(r)') = Cardinality(Recorders(r)) - 1
       /\ Cardinality(Recorders(r)) \in Nat /\ Cardinality(Recorders(r)') \in Nat
  <2>1. IsFiniteSet(Recorders(r)) /\ Cardinality(Recorders(r)) \in Nat
    BY RecordersFinite
  <2>2. IsFiniteSet(Recorders(r)') /\ Cardinality(Recorders(r)') = Cardinality(Recorders(r)) - 1
    BY <1>11, <2>1, FS_RemoveElement
  <2> QED  BY <2>1, <2>2, FS_CardinalityType
<1>13. ASSUME NEW T, T \subseteq Span
       PROVE  Told(r, T) \in Nat /\ Told(r, T)' = Told(r, T) + (IF clock \in T THEN 1 ELSE 0)
  <2>1. IsFiniteSet(T)
    BY <1>13, SpanFacts, FS_Subset
  <2>2. audit[r] \in [Span -> Nat]
    BY <1>1, <1>7
  <2>3. \A x \in T : audit[r][x] \in Nat
    BY <1>13, <2>2
  <2>4. \A x \in T : audit'[r][x] = IF x = clock THEN audit[r][x] + 1 ELSE audit[r][x]
    BY <1>9, <1>13
  <2>5. /\ SumFunctionOnSet(audit[r], T) \in Nat
        /\ SumFunctionOnSet(audit'[r], T)
              = SumFunctionOnSet(audit[r], T) + (IF clock \in T THEN 1 ELSE 0)
    BY <2>1, <2>3, <2>4, SumCountsOne
  <2> QED  BY <2>5 DEF Told
<1>14. /\ \A u \in RuleIds : \A T : u # r => Told(u, T)' = Told(u, T)
       /\ \A u \in RuleIds : \A T : Made(u, T)' = Made(u, T)
       /\ \A u \in RuleIds : u # r => UsedToday(u)' = UsedToday(u)
  BY <1>2, <1>8 DEF Made, Told, UsedToday, Recent
<1>15. ToldWasMade'
  <2> SUFFICES ASSUME NEW u \in RuleIds
               PROVE  Told(u, Span)' + Cardinality(Recorders(u)') <= Made(u, Span)'
      BY DEF ToldWasMade, Span
  <2>1. Told(u, Span) + Cardinality(Recorders(u)) <= Made(u, Span)
    BY DEF RulesCounted, ToldWasMade
  <2>2. CASE u # r
    BY <1>11, <1>14, <2>1, <2>2
  <2>3. CASE u = r
    <3>1. Told(r, Span)' = Told(r, Span) + 1 /\ Told(r, Span) \in Nat
      BY <1>1, <1>13
    <3>2. Made(r, Span)' = Made(r, Span) /\ Made(r, Span) \in Nat
      BY <1>14, CountsAreNat DEF RulesCounted
    <3> QED  BY <1>12, <2>1, <2>3, <3>1, <3>2
  <2> QED  BY <2>2, <2>3
<1>16. ASSUME NEW u \in RuleIds, u # r, ~disputed[u] PROVE (MadeIsTold(u) /\ CapKept(u) /\ RoomLeft(u))'
  <2>1. MadeIsTold(u) /\ CapKept(u) /\ RoomLeft(u)
    BY <1>16 DEF RulesCounted
  <2>2. \A k \in Servers : Applying(k, u)' => Applying(k, u) /\ ruleHand'[k].todo = ruleHand[k].todo
    BY <1>4, <1>5, <1>16 DEF Applying, h
  <2>3. MadeIsTold(u)' /\ CapKept(u)'
    BY <1>2, <1>11, <1>14, <1>16, <2>1 DEF MadeIsTold, CapKept, From, Window, Span
  <2>4. RoomLeft(u)'
    BY <1>14, <1>16, <2>1, <2>2 DEF RoomLeft
  <2> QED  BY <2>3, <2>4
<1>17. ASSUME ~disputed[r] PROVE (MadeIsTold(r) /\ CapKept(r) /\ RoomLeft(r))'
  <2>1. MadeIsTold(r) /\ CapKept(r) /\ RoomLeft(r)
    BY <1>17 DEF RulesCounted
  <2>2. UsedToday(r) + h.todo <= DailyActionCap
    BY <1>1, <2>1 DEF RoomLeft, Applying, h
  <2>3. ASSUME NEW i \in Span
        PROVE  Made(r, From(i))' <= Told(r, From(i))' + Cardinality(Recorders(r)')
    <3>1. From(i) \subseteq Span /\ Made(r, From(i))' = Made(r, From(i))
      BY <1>14, SpanFacts
    <3>2. Told(r, From(i)) \in Nat /\ Made(r, From(i)) \in Nat
      BY <3>1, CountsAreNat DEF RulesCounted
    <3>3. Made(r, From(i)) <= Told(r, From(i)) + Cardinality(Recorders(r))
      BY <1>2, <2>1 DEF MadeIsTold
    <3>4. CASE clock \in From(i)
      <4>1. Told(r, From(i))' = Told(r, From(i)) + 1
        BY <1>13, <3>1, <3>4
      <4> QED  BY <1>12, <3>1, <3>2, <3>3, <4>1
    <3>5. CASE clock \notin From(i)
      <4>1. IsFiniteSet(From(i)) /\ \A k \in From(i) : altered[r][k] = 0
        <5>1. \A k \in From(i) : k \in Span /\ k > clock
          BY <1>1, <3>5, SpanFacts DEF From
        <5> QED  BY <1>7, <3>1, <5>1, SpanFacts, FS_Subset
      <4>2. Made(r, From(i)) = 0
        BY <4>1, SumOfZeros DEF Made
      <4>3. Told(r, From(i))' \in Nat
        BY <1>13, <3>1, <3>2, <3>5
      <4> QED  BY <1>12, <3>1, <4>2, <4>3
    <3> QED  BY <3>4, <3>5
  <2>4. CapKept(r)'
    BY <1>14, <2>1 DEF CapKept, Window, Span
  <2>5. RoomLeft(r)'
    <3> SUFFICES ASSUME NEW k \in Servers, Applying(k, r)'
                 PROVE  UsedToday(r)' + ruleHand'[k].todo <= DailyActionCap
        BY DEF RoomLeft
    <3>1. k = s
      <4>1. CASE k # s
        <5>1. Applying(k, r)
          BY <1>4, <4>1 DEF Applying
        <5> QED  BY <1>1, <1>17, <5>1, OneRecorder
      <4> QED  BY <4>1
    <3>2. UsedToday(r)' = UsedToday(r) + 1 /\ UsedToday(r) \in Nat
      <4>1. Recent \subseteq Span /\ clock \in Recent /\ Recent' = Recent
        BY <1>1, <1>2, SpanFacts DEF Recent, Span
      <4>2. Told(r, Recent) \in Nat /\ SumFunctionOnSet(audit'[r], Recent) = Told(r, Recent) + 1
        <5> DEFINE T == Recent
        <5>1. T \subseteq Span /\ clock \in T
          BY <4>1
        <5>2. IsFiniteSet(T)
          BY <5>1, SpanFacts, FS_Subset
        <5>3. \A x \in T : audit[r][x] \in Nat
          BY <1>7, <5>1
        <5>4. \A x \in T : audit'[r][x] = IF x = clock THEN audit[r][x] + 1 ELSE audit[r][x]
          BY <1>9, <5>1
        <5> HIDE DEF T
        <5>5. /\ SumFunctionOnSet(audit[r], T) \in Nat
              /\ SumFunctionOnSet(audit'[r], T) = SumFunctionOnSet(audit[r], T) + (IF clock \in T THEN 1 ELSE 0)
          BY <5>2, <5>3, <5>4, SumCountsOne
        <5> QED  BY <5>1, <5>5 DEF Told, T
      <4> QED  BY <4>1, <4>2 DEF UsedToday, Told
    <3>3. ruleHand'[s].todo = h.todo - 1
      BY <1>4, <1>5 DEF left
    <3> QED  BY <1>1, <2>2, <3>1, <3>2, <3>3, SpanFacts
  <2> QED  BY <2>3, <2>4, <2>5 DEF MadeIsTold, From, Span
<1>18. NothingToldOfNone'
  BY <1>2, <1>8 DEF RulesCounted, NothingToldOfNone
<1> QED  BY <1>1, <1>2, <1>10, <1>15, <1>16, <1>17, <1>18 DEF RulesCounted

(* A step of one tick that neither changes a campaign nor tells of a change. *)
LEMMA QuietStep ==
    ASSUME RulesInv, RulesInv', RulesCounted, NEW s \in Servers,
           UNCHANGED <<altered, audit, clock>>, crashes' \in {crashes, crashes + 1} \cap (0 .. MaxCrashes),
           \A u \in RuleIds : disputed[u] => disputed'[u], KeepsRules,
           ruleHand' = [ruleHand EXCEPT ![s] = ruleHand'[s]],
           ruleHand'[s].running \in RuleIds \cup {Nobody}, ruleHand'[s].success \in BOOLEAN,
           ruleHand'[s].todo \in 0 .. MaxBreaches,
           ruleHand'[s].phase \in {"apply", "record"} =>
               /\ ruleHand'[s].todo >= 1 /\ ruleHand'[s].todo <= ruleHand[s].todo
               /\ ruleHand[s].phase \in {"apply", "record"}
               /\ ruleHand'[s].running = ruleHand[s].running
               /\ ruleHand'[s].copies = ruleHand[s].copies,
           ruleHand'[s].phase = "record" =>
               ~ruleHand'[s].success \/ ~Mutates(ruleHand[s].copies[ruleHand[s].running]),
           ruleHand[s].phase = "record" =>
               \/ ~Counts(s, ruleHand[s].copies[ruleHand[s].running])
               \/ disputed'[ruleHand[s].running]
    PROVE  RulesCounted'
<1> DEFINE h == ruleHand[s]
           g == ruleHand'[s]
<1>1. \A u \in RuleIds : s \notin Recorders(u)'
  BY DEF Recorders
<1>2. \A u \in RuleIds : ~disputed'[u] => s \notin Recorders(u)
  BY DEF Recorders, Counts
<1>3. ASSUME NEW u \in RuleIds, ~disputed'[u], Applying(s, u)'
      PROVE  UsedToday(u) + g.todo <= DailyActionCap
  <2>1. Applying(s, u) /\ g.todo <= h.todo /\ ~disputed[u]
    BY <1>3 DEF Applying
  <2>2. UsedToday(u) + h.todo <= DailyActionCap
    BY <2>1 DEF RulesCounted, RoomLeft
  <2>3. UsedToday(u) \in Nat /\ h.todo \in Nat /\ g.todo \in Nat /\ DailyActionCap \in Nat
    <3>1. UsedToday(u) = Told(u, Recent)
      BY DEF UsedToday, Told
    <3> QED  BY <3>1, TickFields, SpanFacts, CountsAreNat DEF RulesCounted
  <2> HIDE DEF h, g
  <2> QED  BY <2>1, <2>2, <2>3
<1> QED  BY <1>1, <1>2, <1>3, NothingCounted

LEMMA QuietTick ==
    ASSUME RulesInv, RulesInv', RulesCounted, NEW s \in Servers,
           \/ RuleTickStart(s) \/ (\E r \in RuleIds : NextRule(s, r))
           \/ SaveRule(s) \/ RuleTickLost(s)
    PROVE  RulesCounted'
<1> DEFINE h == ruleHand[s]
<1>1. /\ SoundTick(h) /\ h \in TickHand /\ ruleHand \in [Servers -> TickHand] /\ crashes \in 0 .. MaxCrashes
      /\ h.running \in RuleIds \cup {Nobody} /\ h.success \in BOOLEAN /\ h.todo \in 0 .. MaxBreaches
  BY TickFields
<1>2. /\ RestingTick = [phase |-> "idle", copies |-> NoRules, running |-> Nobody,
                        todo |-> 0, success |-> FALSE]
      /\ 0 \in 0 .. MaxBreaches
  BY RestingTickIsSound, SpanFacts
<1>3. CASE RuleTickStart(s)
  <2> DEFINE copies == [r \in RuleIds |-> IF r \in DueRules THEN rules[r] ELSE Absent]
  <2>1. /\ ruleHand' = [ruleHand EXCEPT ![s].phase = "next", ![s].copies = copies]
        /\ UNCHANGED <<clock, crashes, audit, altered, rules>> /\ h.phase = "idle"
        /\ disputed' = [r \in RuleIds |-> disputed[r] \/ (r \in DueRules /\ InTick(r))]
    BY <1>3 DEF RuleTickStart
  <2> HIDE DEF copies
  <2>2. ruleHand'[s] = [phase |-> "next", copies |-> copies, running |-> h.running,
                        todo |-> h.todo, success |-> h.success]
    BY <1>1, <2>1 DEF SoundTick
  <2>3. ruleHand' = [ruleHand EXCEPT ![s] = ruleHand'[s]]
    BY <1>1, <2>1
  <2>4. /\ \A u \in RuleIds : disputed[u] => disputed'[u]
        /\ crashes' \in {crashes, crashes + 1} \cap (0 .. MaxCrashes) /\ KeepsRules
    BY <1>1, <2>1 DEF KeepsRules
  <2>5. /\ ruleHand'[s].phase = "next" /\ ruleHand'[s].running = h.running
        /\ ruleHand'[s].todo = h.todo /\ ruleHand'[s].success = h.success
    BY <2>2
  <2> HIDE DEF h
  <2>6. ruleHand[s].phase = "idle"
    BY <2>1 DEF h
  <2> QED  BY <1>1, <2>1, <2>3, <2>4, <2>5, <2>6, QuietStep
<1>4. ASSUME NEW r \in RuleIds, NextRule(s, r) PROVE RulesCounted'
  <2>1. /\ ruleHand' = [ruleHand EXCEPT ![s].phase = "measure", ![s].running = r]
        /\ UNCHANGED <<clock, crashes, audit, altered, disputed, rules>> /\ h.phase = "next"
    BY <1>4 DEF NextRule
  <2>2. ruleHand'[s] = [phase |-> "measure", copies |-> h.copies, running |-> r,
                        todo |-> h.todo, success |-> h.success]
    BY <1>1, <2>1 DEF SoundTick
  <2>3. ruleHand' = [ruleHand EXCEPT ![s] = ruleHand'[s]]
    BY <1>1, <2>1
  <2>4. /\ \A u \in RuleIds : disputed[u] => disputed'[u]
        /\ crashes' \in {crashes, crashes + 1} \cap (0 .. MaxCrashes) /\ KeepsRules
    BY <1>1, <2>1 DEF KeepsRules
  <2>5. /\ ruleHand'[s].phase = "measure" /\ ruleHand'[s].running = r
        /\ ruleHand'[s].todo = h.todo /\ ruleHand'[s].success = h.success
    BY <2>2
  <2> HIDE DEF h
  <2>6. ruleHand[s].phase = "next"
    BY <2>1 DEF h
  <2> QED  BY <1>1, <2>1, <2>3, <2>4, <2>5, <2>6, QuietStep
<1>5. CASE SaveRule(s)
  <2> DEFINE left == [h.copies EXCEPT ![h.running] = Absent]
             rest == [RestingTick EXCEPT !.phase = "next", !.copies = left]
  <2>1. /\ ruleHand' = [ruleHand EXCEPT ![s] = IF left = NoRules THEN RestingTick ELSE rest]
        /\ UNCHANGED <<clock, crashes, audit, altered, disputed>> /\ h.phase = "save"
    BY <1>5 DEF SaveRule
  <2>0. KeepsRules
    <3> DEFINE r == h.running
               row == h.copies[r]
               next == NextRunFrom(row.period)
               saved == [row EXCEPT !.nextRun = next]
    <3>1. /\ rules' = [rules EXCEPT ![r] = saved] /\ r \in RuleIds /\ row \in RuleRow
          /\ Copied(s, r) /\ row # Absent /\ RulesTyped
      BY <1>1, <1>5 DEF SaveRule, SoundTick, Copied, RulesInv
    <3>2. next \in Times
      BY <3>1, NextRunIsLater DEF RulesTyped, RuleRow
    <3> HIDE DEF next
    <3>3. saved \in RuleRow /\ saved # Absent
      BY <3>1, <3>2, RuleRowAssumption DEF RuleRow
    <3> HIDE DEF saved, row
    <3>4. ~disputed[r] => rules[r] # Absent
      BY <3>1, OneRecorder
    <3>5. rules'[r] # Absent /\ \A u \in RuleIds : u # r => rules'[u] = rules[u]
      BY <3>1, <3>3 DEF RulesTyped
    <3> HIDE DEF r
    <3> QED  BY <2>1, <3>4, <3>5 DEF KeepsRules
  <2>2. /\ rest.phase = "next" /\ rest.running = Nobody /\ rest.todo = 0 /\ rest.success = FALSE
        /\ RestingTick.phase = "idle" /\ RestingTick.running = Nobody /\ RestingTick.todo = 0
        /\ RestingTick.success = FALSE
    BY <1>2
  <2> HIDE DEF left, rest
  <2>3. /\ ruleHand'[s].phase \in {"next", "idle"} /\ ruleHand'[s].running = Nobody
        /\ ruleHand'[s].todo = 0 /\ ruleHand'[s].success = FALSE
    BY <1>1, <2>1, <2>2
  <2>4. ruleHand' = [ruleHand EXCEPT ![s] = ruleHand'[s]]
    BY <1>1, <2>1
  <2> QED  BY <1>1, <1>2, <2>0, <2>1, <2>3, <2>4, QuietStep
<1>6. CASE RuleTickLost(s)
  <2>1. /\ ruleHand' = [ruleHand EXCEPT ![s] = RestingTick]
        /\ UNCHANGED <<clock, audit, altered, rules>> /\ crashes < MaxCrashes /\ crashes' = crashes + 1
        /\ disputed' = [r \in RuleIds |-> disputed[r] \/ ruleHand[s].running = r]
    BY <1>6 DEF RuleTickLost, OneMoreCrash
  <2>2. /\ ruleHand'[s].phase = "idle" /\ ruleHand'[s].running = Nobody
        /\ ruleHand'[s].todo = 0 /\ ruleHand'[s].success = FALSE
    BY <1>1, <1>2, <2>1
  <2>3. ruleHand' = [ruleHand EXCEPT ![s] = ruleHand'[s]]
    BY <1>1, <2>1
  <2>4. /\ \A u \in RuleIds : disputed[u] => disputed'[u]
        /\ h.phase = "record" => disputed'[h.running]
        /\ KeepsRules
    BY <1>1, <2>1 DEF SoundTick, KeepsRules
  <2>5. crashes' \in {crashes, crashes + 1} \cap (0 .. MaxCrashes)
    BY <1>1, <2>1, SchedulingAssumption
  <2> QED  BY <1>1, <1>2, <2>1, <2>2, <2>3, <2>4, <2>5, QuietStep
<1> QED  BY <1>3, <1>4, <1>5, <1>6

(* Meta refuses the change; an attempt or an alert is recorded; a record is lost. *)
LEMMA QuietRecord ==
    ASSUME RulesInv, RulesInv', RulesCounted, NEW s \in Servers,
           \/ Apply(s, FALSE)
           \/ Record(s) /\ ~Counts(s, ruleHand[s].copies[ruleHand[s].running])
           \/ RecordFails(s)
    PROVE  RulesCounted'
<1> DEFINE h == ruleHand[s]
           row == h.copies[h.running]
           yes == TRUE
           no == FALSE
<1>1. /\ SoundTick(h) /\ h \in TickHand /\ ruleHand \in [Servers -> TickHand] /\ crashes \in 0 .. MaxCrashes
      /\ h.running \in RuleIds /\ h.success \in BOOLEAN /\ h.todo \in 0 .. MaxBreaches
      /\ h.phase \in {"apply", "record"} /\ h.todo >= 1
  BY TickFields DEF Apply, Record, RecordFails
<1>2. h.todo - 1 \in 0 .. MaxBreaches /\ 0 \in 0 .. MaxBreaches /\ MaxBreaches \in Nat
  BY <1>1, SpanFacts
<1>0. KeepsRules
  BY DEF Apply, Record, RecordFails, KeepsRules
<1>3. CASE Apply(s, FALSE)
  <2>1. /\ ruleHand' = [ruleHand EXCEPT ![s].phase = "record", ![s].success = no]
        /\ UNCHANGED <<clock, crashes, audit, altered, disputed>> /\ h.phase = "apply"
    BY <1>3 DEF Apply
  <2> HIDE DEF no
  <2>2. ruleHand'[s] = [phase |-> "record", copies |-> h.copies, running |-> h.running,
                        todo |-> h.todo, success |-> no]
    BY <1>1, <2>1 DEF SoundTick
  <2>3. ruleHand' = [ruleHand EXCEPT ![s] = ruleHand'[s]]
    BY <1>1, <2>1
  <2>4. no \in BOOLEAN /\ ~no
    BY DEF no
  <2>5. h.todo <= h.todo /\ crashes' \in {crashes, crashes + 1} \cap (0 .. MaxCrashes)
    BY <1>1, <2>1
  <2>6. /\ ruleHand'[s].phase = "record" /\ ruleHand'[s].running = ruleHand[s].running
        /\ ruleHand[s].running \in RuleIds
        /\ ruleHand'[s].todo = h.todo /\ ruleHand'[s].success = no
        /\ ruleHand'[s].copies = ruleHand[s].copies
        /\ ruleHand'[s].todo <= ruleHand[s].todo
        /\ ruleHand[s].phase = "apply"
    BY <1>1, <2>1, <2>2, <2>5
  <2> HIDE DEF h
  <2> QED  BY <1>0, <1>1, <2>1, <2>3, <2>4, <2>5, <2>6, QuietStep
<1>4. CASE Record(s) /\ ~Counts(s, row)
  <2> DEFINE left == h.todo - 1
             phase == IF h.todo = 1 THEN "save" ELSE IF Mutates(row) THEN "apply" ELSE "record"
  <2>1. /\ ruleHand' = [ruleHand EXCEPT ![s].todo = left, ![s].success = yes, ![s].phase = phase]
        /\ UNCHANGED <<clock, crashes, audit, altered, disputed>> /\ h.phase = "record"
    BY <1>4 DEF Record, AfterRecord
  <2>2. /\ phase = "record" => ~Mutates(row)
        /\ phase \in {"apply", "record"} => left >= 1
        /\ left <= h.todo /\ left \in 0 .. MaxBreaches /\ yes \in BOOLEAN
    BY <1>1, <1>2
  <2> HIDE DEF left, phase, yes
  <2>3. ruleHand'[s] = [phase |-> phase, copies |-> h.copies, running |-> h.running,
                        todo |-> left, success |-> yes]
    BY <1>1, <2>1 DEF SoundTick
  <2>4. ruleHand' = [ruleHand EXCEPT ![s] = ruleHand'[s]]
    BY <1>1, <2>1
  <2>5. crashes' \in {crashes, crashes + 1} \cap (0 .. MaxCrashes)
    BY <1>1, <2>1
  <2>6. /\ ruleHand'[s].phase = phase /\ ruleHand'[s].running = ruleHand[s].running
        /\ ruleHand[s].running \in RuleIds
        /\ ruleHand'[s].todo = left /\ ruleHand'[s].success = yes
        /\ ruleHand'[s].copies = ruleHand[s].copies
        /\ ruleHand[s].phase = "record"
        /\ left <= ruleHand[s].todo
        /\ phase = "record" => ~Mutates(ruleHand[s].copies[ruleHand[s].running])
        /\ ~Counts(s, ruleHand[s].copies[ruleHand[s].running])
    BY <1>1, <1>4, <2>1, <2>2, <2>3
  <2> HIDE DEF h, row
  <2> QED  BY <1>0, <1>1, <2>1, <2>2, <2>4, <2>5, <2>6, QuietStep, ZenonT(60)
<1>5. CASE RecordFails(s)
  <2>1. /\ \/ ruleHand' = [ruleHand EXCEPT ![s].success = no]
           \/ ruleHand' = [ruleHand EXCEPT ![s].todo = 0, ![s].phase = "save"]
        /\ UNCHANGED <<clock, audit, altered>>
        /\ crashes' = crashes \/ (crashes < MaxCrashes /\ crashes' = crashes + 1)
        /\ disputed' = [disputed EXCEPT ![h.running] = TRUE] /\ h.phase = "record"
    BY <1>5 DEF RecordFails, OneMoreCrash
  <2> HIDE DEF no
  <2>2. \/ ruleHand'[s] = [phase |-> "record", copies |-> h.copies, running |-> h.running,
                           todo |-> h.todo, success |-> no]
        \/ ruleHand'[s] = [phase |-> "save", copies |-> h.copies, running |-> h.running,
                           todo |-> 0, success |-> h.success]
    BY <1>1, <2>1 DEF SoundTick
  <2>3. ruleHand' = [ruleHand EXCEPT ![s] = ruleHand'[s]]
    <3>1. CASE ruleHand' = [ruleHand EXCEPT ![s].success = no]
      BY <1>1, <3>1
    <3>2. CASE ruleHand' = [ruleHand EXCEPT ![s].todo = 0, ![s].phase = "save"]
      BY <1>1, <3>2
    <3> QED  BY <2>1, <3>1, <3>2
  <2>4. no \in BOOLEAN /\ ~no /\ h.todo <= h.todo
    BY <1>1 DEF no
  <2>5. (\A u \in RuleIds : disputed[u] => disputed'[u]) /\ disputed'[h.running]
    BY <1>1, <2>1 DEF RulesInv, RulesTyped
  <2>6. crashes' \in {crashes, crashes + 1} \cap (0 .. MaxCrashes)
    BY <1>1, <2>1, SchedulingAssumption
  <2>7. CASE ruleHand'[s] = [phase |-> "record", copies |-> h.copies, running |-> h.running,
                             todo |-> h.todo, success |-> no]
    BY <1>0, <1>1, <2>1, <2>3, <2>4, <2>5, <2>6, <2>7, QuietStep
  <2>8. CASE ruleHand'[s] = [phase |-> "save", copies |-> h.copies, running |-> h.running,
                             todo |-> 0, success |-> h.success]
    BY <1>0, <1>1, <1>2, <2>1, <2>3, <2>5, <2>6, <2>8, QuietStep
  <2> QED  BY <2>2, <2>7, <2>8
<1> QED  BY <1>3, <1>4, <1>5

(* Pausing and resuming change no count; as time passes, what counts of the last day only shrinks. *)
LEMMA NoTickStep ==
    ASSUME RulesInv, RulesInv', RulesCounted,
           \/ UNCHANGED ruleVars \/ RuleTime
           \/ \E r \in RuleIds, active \in BOOLEAN : SetRuleActive(r, active)
    PROVE  RulesCounted'
<1>1. /\ UNCHANGED <<crashes, audit, ruleHand, altered>> /\ clock' \in {clock, clock + 1}
      /\ \A u \in RuleIds : disputed[u] => disputed'[u]
      /\ KeepsRules
  <2>1. CASE UNCHANGED ruleVars \/ RuleTime
    BY <2>1 DEF ruleVars, RuleTime, TimePasses, KeepsRules
  <2>2. ASSUME NEW r \in RuleIds, NEW active \in BOOLEAN, SetRuleActive(r, active)
        PROVE  /\ UNCHANGED <<crashes, audit, ruleHand, altered, clock>>
               /\ \A u \in RuleIds : disputed[u] => disputed'[u]
               /\ \A u \in RuleIds : u # r => rules'[u] = rules[u]
               /\ rules[r] # Absent
    BY <2>2 DEF SetRuleActive, RulesInv, RulesTyped
  <2>3. ASSUME NEW r \in RuleIds, NEW active \in BOOLEAN, SetRuleActive(r, active)
        PROVE  rules'[r] # Absent
    <3> DEFINE old == rules[r]
               next == IF active THEN NextRunFrom(old.period) ELSE old.nextRun
               row == [old EXCEPT !.isActive = active, !.nextRun = next]
    <3>1. old \in RuleRow /\ RulesTyped /\ rules' = [rules EXCEPT ![r] = row]
      BY <2>3 DEF RulesInv, RulesTyped, SetRuleActive
    <3>2. next \in Times
      BY <3>1, NextRunIsLater DEF RulesTyped, RuleRow
    <3> HIDE DEF old, next
    <3>3. row \in RuleRow
      BY <3>1, <3>2 DEF RuleRow
    <3> HIDE DEF row
    <3> QED  BY <3>1, <3>3, RuleRowAssumption DEF RulesTyped
  <2>4. ASSUME NEW r \in RuleIds, NEW active \in BOOLEAN, SetRuleActive(r, active)
        PROVE  KeepsRules
    BY <2>2, <2>3, <2>4 DEF KeepsRules
  <2>5. UNCHANGED ruleVars \/ RuleTime =>
          /\ UNCHANGED <<crashes, audit, ruleHand, altered>> /\ clock' \in {clock, clock + 1}
          /\ \A u \in RuleIds : disputed[u] => disputed'[u]
    BY DEF ruleVars, RuleTime, TimePasses
  <2>6. CASE UNCHANGED ruleVars \/ RuleTime
    BY <2>1, <2>5, <2>6
  <2>7. CASE \E r \in RuleIds, active \in BOOLEAN : SetRuleActive(r, active)
    <3>1. PICK r \in RuleIds, active \in BOOLEAN : SetRuleActive(r, active)
      BY <2>7
    <3> QED  BY <2>2, <2>4, <3>1
  <2> QED  BY <2>6, <2>7
<1>2. clock \in Nat /\ clock' \in Span /\ clock' >= clock
  BY <1>1, SpanFacts DEF RulesInv, RulesTyped, Span
<1>3. CountsTyped'
  <2>1. \A k \in Span : k > clock' => k > clock
    BY <1>2, SpanFacts DEF Span
  <2>2. \A r \in RuleIds, k \in Span : k > clock' => altered'[r][k] = 0
    BY <1>1, <2>1 DEF RulesCounted, CountsTyped
  <2> QED  BY <1>1, <2>2 DEF RulesCounted, CountsTyped
<1>4. \A u \in RuleIds : \A T : Told(u, T)' = Told(u, T) /\ Made(u, T)' = Made(u, T)
  BY <1>1 DEF Told, Made
<1>5. \A u \in RuleIds : /\ Recorders(u)' = Recorders(u)
                         /\ \A s \in Servers : Applying(s, u)' = Applying(s, u)
  BY <1>1 DEF Recorders, Applying
<1>6. \A u \in RuleIds : UsedToday(u)' <= UsedToday(u) /\ UsedToday(u) \in Nat /\ UsedToday(u)' \in Nat
  <2>1. Recent' \subseteq Recent /\ Recent \subseteq Span
    BY <1>1, <1>2, SpanFacts DEF Recent, Span
  <2> SUFFICES ASSUME NEW u \in RuleIds
               PROVE  UsedToday(u)' <= UsedToday(u) /\ UsedToday(u) \in Nat /\ UsedToday(u)' \in Nat
      OBVIOUS
  <2>2. UsedToday(u) = Told(u, Recent) /\ UsedToday(u)' = Told(u, Recent')
    BY <1>1 DEF UsedToday, Told
  <2>3. /\ Told(u, Recent) \in Nat /\ Told(u, Recent') \in Nat
        /\ Told(u, Recent') <= Told(u, Recent)
    BY <2>1, CountsAreNat DEF RulesCounted
  <2> QED  BY <2>2, <2>3
<1>7. ToldWasMade'
  <2> SUFFICES ASSUME NEW u \in RuleIds
               PROVE  Told(u, Span)' + Cardinality(Recorders(u)') <= Made(u, Span)'
      BY DEF ToldWasMade, Span
  <2> QED  BY <1>4, <1>5 DEF RulesCounted, ToldWasMade
<1>8. ASSUME NEW u \in RuleIds, ~disputed'[u] PROVE (MadeIsTold(u) /\ CapKept(u) /\ RoomLeft(u))'
  <2>1. MadeIsTold(u) /\ CapKept(u) /\ RoomLeft(u)
    BY <1>1, <1>8 DEF RulesCounted
  <2>2. MadeIsTold(u)' /\ CapKept(u)'
    BY <1>1, <1>4, <1>5, <1>8, <2>1 DEF MadeIsTold, CapKept, From, Window, Span, KeepsRules
  <2>3. RoomLeft(u)'
    <3> SUFFICES ASSUME NEW s \in Servers, Applying(s, u)'
                 PROVE  UsedToday(u)' + ruleHand'[s].todo <= DailyActionCap
        BY DEF RoomLeft
    <3>1. UsedToday(u) + ruleHand[s].todo <= DailyActionCap /\ ruleHand'[s].todo = ruleHand[s].todo
      BY <1>1, <1>5, <2>1 DEF RoomLeft
    <3>2. ruleHand[s].todo \in Nat /\ DailyActionCap \in Nat
      BY TickFields, SpanFacts
    <3> QED  BY <1>6, <3>1, <3>2
  <2> QED  BY <2>2, <2>3
<1>9. NothingToldOfNone'
  BY <1>1 DEF RulesCounted, NothingToldOfNone, KeepsRules
<1> QED  BY <1>3, <1>7, <1>8, <1>9 DEF RulesCounted

(* A rule that is created starts from nothing, one that is removed takes with it
   what was told of it. *)
LEMMA RuleComesOrGoes ==
    ASSUME RulesInv, RulesInv', RulesCounted, NEW r \in RuleIds,
           \/ \E kind \in RuleKinds, p \in Periods : CreateRule(r, kind, p)
           \/ RemoveRule(r)
    PROVE  RulesCounted'
<1> DEFINE none == NoneYet
<1>1. /\ none \in [Span -> Nat] /\ (\A k \in Span : none[k] = 0)
      /\ audit \in [RuleIds -> [Span -> Nat]] /\ altered \in [RuleIds -> [Span -> Nat]]
      /\ disputed \in [RuleIds -> BOOLEAN] /\ rules \in [RuleIds -> RuleRow \cup {Absent}]
  BY DEF NoneYet, Span, RulesCounted, CountsTyped, RulesInv, RulesTyped
<1>2. /\ UNCHANGED <<clock, crashes, ruleHand>>
      /\ \A u \in RuleIds : disputed[u] => disputed'[u]
      /\ \A u \in RuleIds : u # r => /\ rules'[u] = rules[u] /\ audit'[u] = audit[u]
                                     /\ altered'[u] = altered[u] /\ disputed'[u] = disputed[u]
      /\ audit' \in [RuleIds -> [Span -> Nat]] /\ altered' \in [RuleIds -> [Span -> Nat]]
      /\ audit'[r] = none
  <2>1. CASE \E kind \in RuleKinds, p \in Periods : CreateRule(r, kind, p)
    <3>1. /\ altered' = [altered EXCEPT ![r] = none] /\ UNCHANGED <<clock, crashes, ruleHand, audit, disputed>>
          /\ rules[r] = Absent /\ \A u \in RuleIds : u # r => rules'[u] = rules[u]
      BY <1>1, <2>1 DEF CreateRule
    <3>2. audit[r] = none
      BY <3>1 DEF RulesCounted, NothingToldOfNone
    <3> HIDE DEF none
    <3> QED  BY <1>1, <3>1, <3>2
  <2>2. CASE RemoveRule(r)
    <3>1. /\ audit' = [audit EXCEPT ![r] = none] /\ UNCHANGED <<clock, crashes, ruleHand, altered>>
          /\ disputed' = [disputed EXCEPT ![r] = @ \/ InTick(r)]
          /\ rules' = [rules EXCEPT ![r] = Absent]
      BY <2>2 DEF RemoveRule
    <3> HIDE DEF none
    <3> QED  BY <1>1, <3>1
  <2> QED  BY <2>1, <2>2
<1>3. \/ ~InTick(r) /\ altered'[r] = none
      \/ altered'[r] = altered[r] /\ rules'[r] = Absent /\ (disputed'[r] \/ ~InTick(r))
  BY <1>1 DEF CreateRule, RemoveRule
<1>4. \A u \in RuleIds : /\ Recorders(u)' = Recorders(u)
                         /\ \A s \in Servers : Applying(s, u)' = Applying(s, u)
  BY <1>2 DEF Recorders, Applying
<1>5. ~InTick(r) => Recorders(r) = {} /\ \A s \in Servers : ~Applying(s, r)
  BY DEF InTick, Recorders, Applying, RulesInv, SoundTick
<1>6. \A u \in RuleIds : u # r => /\ \A T : Told(u, T)' = Told(u, T) /\ Made(u, T)' = Made(u, T)
                                  /\ UsedToday(u)' = UsedToday(u)
  BY <1>2 DEF Told, Made, UsedToday, Recent
<1>7. ASSUME NEW T, T \subseteq Span
      PROVE  /\ Told(r, T)' = 0
             /\ altered'[r] = none => Made(r, T)' = 0
             /\ altered'[r] = altered[r] => Made(r, T)' = Made(r, T)
  <2>1. IsFiniteSet(T) /\ \A x \in T : none[x] = 0
    BY <1>1, <1>7, SpanFacts, FS_Subset
  <2>2. SumFunctionOnSet(none, T) = 0
    <3> HIDE DEF none
    <3> QED  BY <2>1, SumOfZeros
  <2> HIDE DEF none
  <2> QED  BY <1>2, <2>2 DEF Told, Made
<1> HIDE DEF none
<1>8. CountsTyped'
  <2>1. \A u \in RuleIds, k \in Span : k > clock => altered'[u][k] = 0
    BY <1>1, <1>2, <1>3 DEF RulesCounted, CountsTyped
  <2> QED  BY <1>2, <2>1 DEF RulesCounted, CountsTyped
<1>9. NothingToldOfNone'
  BY <1>2 DEF RulesCounted, NothingToldOfNone, none
<1>10. ToldWasMade'
  <2> SUFFICES ASSUME NEW u \in RuleIds
               PROVE  Told(u, Span)' + Cardinality(Recorders(u)') <= Made(u, Span)'
      BY DEF ToldWasMade, Span
  <2>1. /\ Told(u, Span) + Cardinality(Recorders(u)) <= Made(u, Span)
        /\ Told(u, Span) \in Nat /\ Cardinality(Recorders(u)) \in Nat /\ Made(u, Span) \in Nat
    BY CountsAreNat, RecordersFinite DEF RulesCounted, ToldWasMade
  <2>2. CASE u # r
    BY <1>4, <1>6, <2>1, <2>2
  <2>3. CASE u = r /\ ~InTick(r) /\ altered'[r] = none
    <3>1. Cardinality(Recorders(r)) = 0
      BY <1>5, <2>3, FS_EmptySet
    <3> QED  BY <1>4, <1>7, <2>3, <3>1
  <2>4. CASE u = r /\ altered'[r] = altered[r]
    BY <1>4, <1>7, <2>1, <2>4
  <2> QED  BY <1>3, <2>2, <2>3, <2>4
<1>11. ASSUME NEW u \in RuleIds, ~disputed'[u] PROVE (MadeIsTold(u) /\ CapKept(u) /\ RoomLeft(u))'
  <2>1. MadeIsTold(u) /\ CapKept(u) /\ RoomLeft(u)
    BY <1>2, <1>11 DEF RulesCounted
  <2>2. CASE u # r
    <3>1. MadeIsTold(u)' /\ CapKept(u)'
      BY <1>2, <1>4, <1>6, <2>1, <2>2 DEF MadeIsTold, CapKept, From, Window, Span
    <3>2. RoomLeft(u)'
      BY <1>2, <1>4, <1>6, <2>1, <2>2 DEF RoomLeft
    <3> QED  BY <3>1, <3>2
  <2>3. CASE u = r
    <3>1. RoomLeft(r)'
      BY <1>3, <1>4, <1>5, <1>11, <2>3 DEF RoomLeft
    <3>2. \A j \in Span : From(j) \subseteq Span /\ Window(j) \subseteq Span
      BY SpanFacts
    <3>3. CapKept(r)'
      <4>1. ASSUME NEW j \in Span PROVE Made(r, Window(j))' <= DailyActionCap
        BY <1>3, <1>7, <2>1, <2>3, <3>2, SpanFacts DEF CapKept
      <4> QED  BY <4>1 DEF CapKept, Window, Span
    <3>4. MadeIsTold(r)'
      <4>1. ASSUME NEW j \in Span, altered'[r] = none, ~InTick(r)
            PROVE  Made(r, From(j))' <= Told(r, From(j))' + Cardinality(Recorders(r)')
        <5>1. Cardinality(Recorders(r)) = 0
          BY <1>5, <4>1, FS_EmptySet
        <5> QED  BY <1>4, <1>7, <3>2, <4>1, <5>1
      <4> QED  BY <1>3, <4>1 DEF MadeIsTold, From, Span
    <3> QED  BY <2>3, <3>1, <3>3, <3>4
  <2> QED  BY <2>2, <2>3
<1> QED  BY <1>8, <1>9, <1>10, <1>11 DEF RulesCounted

LEMMA NextRulesCounted ==
    RulesInv /\ RulesInv' /\ RulesCounted /\ [RulesNext]_ruleVars => RulesCounted'
<1> SUFFICES ASSUME RulesInv, RulesInv', RulesCounted, [RulesNext]_ruleVars PROVE RulesCounted'
    OBVIOUS
<1>1. CASE \/ UNCHANGED ruleVars \/ RuleTime
           \/ \E r \in RuleIds, active \in BOOLEAN : SetRuleActive(r, active)
  BY <1>1, NoTickStep
<1>0. ASSUME NEW r \in RuleIds,
             \/ \E kind \in RuleKinds, p \in Periods : CreateRule(r, kind, p)
             \/ RemoveRule(r)
      PROVE  RulesCounted'
  BY <1>0, RuleComesOrGoes
<1>2. ASSUME NEW s \in Servers,
             \/ RuleTickStart(s) \/ (\E r \in RuleIds : NextRule(s, r))
             \/ SaveRule(s) \/ RuleTickLost(s)
      PROVE  RulesCounted'
  BY <1>2, QuietTick
<1>3. ASSUME NEW s \in Servers, NEW n \in 0 .. MaxBreaches, Measure(s, n) PROVE RulesCounted'
  BY <1>3, MeasureCounted
<1>4. ASSUME NEW s \in Servers, NEW done \in BOOLEAN, Apply(s, done) PROVE RulesCounted'
  <2>1. CASE done
    <3>1. ruleHand[s].running \in RuleIds
      BY <1>4, TickFields DEF Apply
    <3>2. Apply(s, TRUE)
      BY <1>4, <2>1
    <3> QED  BY <3>1, <3>2, ChangeCounted
  <2>2. CASE ~done
    <3>1. Apply(s, FALSE)
      BY <1>4, <2>2
    <3> QED  BY <3>1, QuietRecord
  <2> QED  BY <2>1, <2>2
<1>5. ASSUME NEW s \in Servers, Record(s) PROVE RulesCounted'
  <2>1. ruleHand[s].running \in RuleIds
    BY <1>5, TickFields DEF Record
  <2>2. CASE Counts(s, ruleHand[s].copies[ruleHand[s].running])
    BY <1>5, <2>1, <2>2, RecordCounted
  <2>3. CASE ~Counts(s, ruleHand[s].copies[ruleHand[s].running])
    BY <1>5, <2>3, QuietRecord
  <2> QED  BY <2>2, <2>3
<1>6. ASSUME NEW s \in Servers, RecordFails(s) PROVE RulesCounted'
  BY <1>6, QuietRecord
<1>7. ASSUME NEW s \in Servers, ApplyUnheard(s) PROVE RulesCounted'
  <2>1. ruleHand[s].running \in RuleIds
    BY <1>7, TickFields DEF ApplyUnheard
  <2> QED  BY <1>7, <2>1, UnheardCounted
<1> QED  BY <1>0, <1>1, <1>2, <1>3, <1>4, <1>5, <1>6, <1>7 DEF RulesNext

(* The types of the tables and of what a tick has in memory. *)
THEOREM RulesTypes == RulesSpec => []RulesTypeOK
<1>1. RulesInv /\ RulesCounted => RulesTypeOK
  BY DEF RulesInv, RulesTyped, RulesCounted, CountsTyped, TickHand, RulesTypeOK, Span
<1>2. RulesInit => RulesCounted
  BY InitRulesCounted
<1>3. RulesInv /\ RulesInv' /\ RulesCounted /\ [RulesNext]_ruleVars => RulesCounted'
  BY NextRulesCounted
<1> QED  BY <1>1, <1>2, <1>3, RulesInvariant, PTL DEF RulesSpec

(* The counts, from which the two properties below follow. *)
THEOREM RulesCountsInvariant == RulesSpec => []RulesCounted
<1>1. RulesInit => RulesCounted
  BY InitRulesCounted
<1>2. RulesInv /\ RulesInv' /\ RulesCounted /\ [RulesNext]_ruleVars => RulesCounted'
  BY NextRulesCounted
<1> QED  BY <1>1, <1>2, RulesInvariant, PTL DEF RulesSpec

LEMMA CountsTellTheTruth == RulesInv /\ RulesCounted => AuditTellsTheTruth
<1> SUFFICES ASSUME RulesInv, RulesCounted, NEW r \in RuleIds
             PROVE  LET made == ChangesIn(r, 1, MaxClock)
                        told == SumFunction(audit[r])
                    IN  /\ told <= made
                        /\ (rules[r] # Absent /\ ~disputed[r])
                              => made = told + (IF Recording(r) THEN 1 ELSE 0)
    BY DEF AuditTellsTheTruth
<1>1. audit[r] \in [Span -> Nat]
  BY DEF RulesCounted, CountsTyped
<1>2. ChangesIn(r, 1, MaxClock) = Made(r, Span) /\ SumFunction(audit[r]) = Told(r, Span)
  <2>1. Span \cap (1 .. MaxClock) = Span
    BY DEF Span
  <2> QED  BY <1>1, <2>1 DEF ChangesIn, Made, Told, SumFunction, Span
<1>3. /\ Made(r, Span) \in Nat /\ Told(r, Span) \in Nat
      /\ Told(r, Span) + Cardinality(Recorders(r)) <= Made(r, Span)
      /\ Cardinality(Recorders(r)) \in Nat
  BY CountsAreNat, RecordersFinite DEF RulesCounted, ToldWasMade
<1>4. ASSUME rules[r] # Absent, ~disputed[r]
      PROVE  Made(r, Span) = Told(r, Span) + (IF Recording(r) THEN 1 ELSE 0)
  <2>1. Made(r, Span) <= Told(r, Span) + Cardinality(Recorders(r))
    BY <1>4, SpanFacts DEF RulesCounted, MadeIsTold
  <2>2. CASE Recording(r)
    <3>1. PICK s \in Servers : s \in Recorders(r)
      BY <2>2 DEF Recording, Recorders
    <3>2. Copied(s, r)
      BY <3>1, TickFields DEF Recorders
    <3>3. Recorders(r) = {s}
      BY <1>4, <3>1, <3>2, OneRecorder
    <3>4. Cardinality(Recorders(r)) = 1
      BY <3>3, FS_Singleton
    <3> QED  BY <1>3, <2>1, <2>2, <3>4
  <2>3. CASE ~Recording(r)
    <3>1. Recorders(r) = {}
      BY <2>3 DEF Recording, Recorders
    <3>2. Cardinality(Recorders(r)) = 0
      BY <3>1, FS_EmptySet
    <3> QED  BY <1>3, <2>1, <2>3, <3>2
  <2> QED  BY <2>2, <2>3
<1> QED  BY <1>2, <1>3, <1>4

(* "Recording every action ... for audit": however many servers evaluate a rule and
   whichever of them dies, the audit table never tells of a change that was not
   made, and of an undisputed rule that is there it tells of every change but the
   one a tick is about to record (recordAction); what it told of a deleted rule goes
   with the rule. *)
THEOREM AuditIsTrue == RulesSpec => []AuditTellsTheTruth
BY RulesInvariant, RulesCountsInvariant, CountsTellTheTruth, PTL

LEMMA CountsKeepTheCap == RulesCounted => DailyCapHolds
<1> SUFFICES ASSUME RulesCounted, NEW r \in RuleIds, NEW i \in Span, ~disputed[r]
             PROVE  ChangesIn(r, i, i + Day - 1) <= DailyActionCap
    BY DEF DailyCapHolds, Span
<1> QED  BY DEF RulesCounted, CapKept, Made, Window, ChangesIn, Span

(* In any window of a day an undisputed rule changes no more campaigns than its
   daily cap allows, at any speed of the scheduler (executeMutations). *)
THEOREM DailyCapKept == RulesSpec => []DailyCapHolds
BY RulesCountsInvariant, CountsKeepTheCap, PTL

=============================================================================
