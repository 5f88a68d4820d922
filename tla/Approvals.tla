----------------------------- MODULE Approvals -----------------------------
(***************************************************************************)
(* Gated writes approved with a button in Slack                            *)
(* (src/slack/slack-interactions.service.ts, the end of handleEventCallback*)
(* in slack-events.service.ts, and AiService.executeMetaAdsAction).        *)
(*                                                                         *)
(* A card is one proposed write.  The process that posts it stores a       *)
(* record in Redis under a token, posts the buttons and patches the        *)
(* message's timestamp into the record.  Each click is a request of its    *)
(* own: it reads the record, deletes it, edits the card and, for an        *)
(* approval, executes the write.  All of these are separate calls to       *)
(* Redis, Slack and Meta, so the poster and any number of clicks           *)
(* interleave, and each may die between two calls.                         *)
(***************************************************************************)
EXTENDS Naturals, FiniteSets

CONSTANTS
    Cards,        \* the writes proposed, each with its token
    Clicks,       \* interaction callbacks Slack delivers
    Users,        \* members of the Slack team
    RequesterOf   \* per card, the member whose message proposed it

ASSUME RequesterAssumption == Cards # {} /\ RequesterOf \in [Cards -> Users]

VARIABLES
    poster,     \* per card, where the process that posts it is
    record,     \* per card, its Redis record; messageTs is empty or known
    card,       \* per card, what Slack shows
    click,      \* per click, its request
    executed,   \* per card, the clicks whose approval ran the write
    contested   \* history: per card, a record was deleted that was gone
                \* already, or was written back after it was gone

approvalVars == <<poster, record, card, click, executed, contested>>

RecordStates == {"absent", "untimed", "timed"}
CardStates == {"hidden", "buttons", "approved", "cancelled"}
Buttons == {"approve", "cancel"}

NoClick == [pc |-> "unused", card |-> CHOOSE t \in Cards : TRUE,
            user |-> CHOOSE u \in Users : TRUE, button |-> "cancel", timed |-> FALSE,
            decided |-> FALSE]

ApprovalsInit ==
    /\ poster = [t \in Cards |-> "running"]
    /\ record = [t \in Cards |-> "absent"]
    /\ card = [t \in Cards |-> "hidden"]
    /\ click = [c \in Clicks |-> NoClick]
    /\ executed = [t \in Cards |-> {}]
    /\ contested = [t \in Cards |-> FALSE]

----------------------------------------------------------------------------
(* The process that answers the requester's message. *)

PosterTo(t, from, to) == poster[t] = from /\ poster' = [poster EXCEPT ![t] = to]

(* storePending: SET with a TTL, under a fresh token. *)
StorePending(t) ==
    /\ PosterTo(t, "running", "stored")
    /\ record' = [record EXCEPT ![t] = "untimed"]
    /\ UNCHANGED <<card, click, executed, contested>>

(* chat.postMessage: its timestamp comes back, or it fails, or it was
   posted and only the answer is lost. *)
PostCard(t) ==
    /\ \/ /\ PosterTo(t, "stored", "posted")
          /\ card' = [card EXCEPT ![t] = "buttons"]
       \/ /\ PosterTo(t, "stored", "done")
          /\ card' \in {card, [card EXCEPT ![t] = "buttons"]}
    /\ UNCHANGED <<record, click, executed, contested>>

(* attachMessageTs, the GET. *)
AttachRead(t) ==
    /\ PosterTo(t, "posted", IF record[t] = "absent" THEN "done" ELSE "attaching")
    /\ UNCHANGED <<record, card, click, executed, contested>>

(* attachMessageTs, the SET: it creates the record if it is gone by now. *)
AttachWrite(t) ==
    /\ PosterTo(t, "attaching", "done")
    /\ record' = [record EXCEPT ![t] = "timed"]
    /\ contested' = [contested EXCEPT ![t] = @ \/ record[t] = "absent"]
    /\ UNCHANGED <<card, click, executed>>

(* The process dies, or a call to Redis throws. *)
FailPoster(t) ==
    /\ poster[t] # "done"
    /\ poster' = [poster EXCEPT ![t] = "done"]
    /\ UNCHANGED <<record, card, click, executed, contested>>

(* Redis drops a record APPROVAL_TTL_SECONDS after it was last written. *)
Expire(t) ==
    /\ record[t] # "absent"
    /\ record' = [record EXCEPT ![t] = "absent"]
    /\ UNCHANGED <<poster, card, click, executed, contested>>

----------------------------------------------------------------------------
(* The clicks. *)

At(c, pc) == click[c].pc = pc
ClickTo(c, pc) == click' = [click EXCEPT ![c].pc = pc]
Decisions(t) == {c \in Clicks : click[c].card = t /\ click[c].decided}

(* A member presses a button that is shown; the callback arrives whenever. *)
Press(c, t, user, button) ==
    /\ At(c, "unused")
    /\ card[t] = "buttons"
    /\ click' = [click EXCEPT ![c] = [NoClick EXCEPT !.pc = "sent", !.card = t,
                                                     !.user = user, !.button = button]]
    /\ UNCHANGED <<poster, record, card, executed, contested>>

(* handleInteraction: read the record; without one the approval has expired
   or was handled. *)
Lookup(c) ==
    /\ At(c, "sent")
    /\ LET found == record[click[c].card]
       IN  click' = [click EXCEPT ![c].pc = IF found = "absent" THEN "over" ELSE "seen",
                                  ![c].timed = (found = "timed")]
    /\ UNCHANGED <<poster, record, card, executed, contested>>

(* "Only the original requester may approve": anyone else is told so. *)
Reject(c) ==
    /\ At(c, "seen")
    /\ click[c].button = "approve"
    /\ click[c].user # RequesterOf[click[c].card]
    /\ ClickTo(c, "over")
    /\ UNCHANGED <<poster, record, card, executed, contested>>

(* The DEL that consumes the token; the count it answers is not read.
   Fault: the token is left to its TTL. *)
ConsumeNever(c, pc) ==
    /\ click' = [click EXCEPT ![c].pc = pc, ![c].decided = TRUE]
    /\ UNCHANGED <<poster, record, card, executed, contested>>

Consume(c, pc) ==
    LET t == click[c].card
    IN  /\ click' = [click EXCEPT ![c].pc = pc, ![c].decided = TRUE]
        /\ record' = [record EXCEPT ![t] = "absent"]
        /\ contested' = [contested EXCEPT ![t] = @ \/ record[t] = "absent"]
        /\ UNCHANGED <<poster, card, executed>>

(* Anyone may cancel. *)
Cancel(c) ==
    /\ At(c, "seen")
    /\ click[c].button = "cancel"
    /\ Consume(c, "cancelled")

(* Only the requester's own approval goes on.  Faults: whoever clicks
   approves; the token is consumed by nobody before the write. *)
ApproveAnyone(c) ==
    /\ At(c, "seen")
    /\ click[c].button = "approve"
    /\ Consume(c, "approved")

ApproveUnconsumed(c) ==
    /\ At(c, "seen")
    /\ click[c].button = "approve"
    /\ click[c].user = RequesterOf[click[c].card]
    /\ ClickTo(c, "approved")
    /\ UNCHANGED <<poster, record, card, executed, contested>>

Approve(c) ==
    /\ At(c, "seen")
    /\ click[c].button = "approve"
    /\ click[c].user = RequesterOf[click[c].card]
    /\ Consume(c, "approved")

(* chat.update of the card, when the record the click read had its
   timestamp; it is best effort. *)
EditCard(c, state) ==
    /\ \/ click[c].timed /\ card' = [card EXCEPT ![click[c].card] = state]
       \/ UNCHANGED card
    /\ UNCHANGED <<poster, record, executed, contested>>

ShowCancelled(c) == At(c, "cancelled") /\ ClickTo(c, "over") /\ EditCard(c, "cancelled")
ShowApproved(c) == At(c, "approved") /\ ClickTo(c, "executing") /\ EditCard(c, "approved")

(* executeMetaAdsAction: the write is made, or refused without an effect. *)
Execute(c) ==
    /\ At(c, "executing")
    /\ ClickTo(c, "over")
    /\ \/ executed' = [executed EXCEPT ![click[c].card] = @ \cup {c}]
       \/ UNCHANGED executed
    /\ UNCHANGED <<poster, record, card, contested>>

(* The process dies, Redis throws, or the workspace has no bot token. *)
FailClick(c) ==
    /\ click[c].pc \notin {"unused", "over"}
    /\ ClickTo(c, "over")
    /\ UNCHANGED <<poster, record, card, executed, contested>>

ClickStep(c) ==
    \/ Lookup(c)
    \/ Reject(c)
    \/ Cancel(c)
    \/ Approve(c)
    \/ ShowCancelled(c)
    \/ ShowApproved(c)
    \/ Execute(c)
    \/ FailClick(c)

ApprovalsNext ==
    \/ \E t \in Cards : \/ StorePending(t)
                        \/ PostCard(t)
                        \/ AttachRead(t)
                        \/ AttachWrite(t)
                        \/ FailPoster(t)
                        \/ Expire(t)
    \/ \E c \in Clicks : \/ \E t \in Cards, u \in Users, b \in Buttons : Press(c, t, u, b)
                         \/ ClickStep(c)

ApprovalsSpec == ApprovalsInit /\ [][ApprovalsNext]_approvalVars

----------------------------------------------------------------------------
ClickPCs == {"unused", "sent", "seen", "cancelled", "approved", "executing", "over"}

ApprovalsTypeOK ==
    /\ poster \in [Cards -> {"running", "stored", "posted", "attaching", "done"}]
    /\ record \in [Cards -> RecordStates]
    /\ card \in [Cards -> CardStates]
    /\ click \in [Clicks -> [pc : ClickPCs, card : Cards, user : Users, button : Buttons,
                             timed : BOOLEAN, decided : BOOLEAN]]
    /\ \A c \in Clicks : click[c].pc \in {"cancelled", "approved", "executing"}
                            => click[c].decided
    /\ executed \in [Cards -> SUBSET Clicks]
    /\ contested \in [Cards -> BOOLEAN]

(* Single use, as far as it goes: a card on which every DEL found the record
   and no SET brought it back is decided by one click, whatever else races:
   an expiry, another member's clicks, a crash, the attached timestamp. *)
UncontestedDecidedOnce ==
    \A t \in Cards : ~contested[t] => \A c, d \in Decisions(t) : c = d

(* A write runs only for an approval by its requester that consumed the
   token, so a stray or late click cannot spend money. *)
RequesterDecides ==
    \A t \in Cards : \A c \in executed[t] :
        /\ c \in Decisions(t)
        /\ click[c].button = "approve" /\ click[c].user = RequesterOf[t]

(* What an uncontested card shows is what happened: a card shown as
   cancelled never runs, and one shown as approved was not cancelled. *)
CardTellsTheTruth ==
    \A t \in Cards : ~contested[t] =>
        /\ card[t] = "cancelled" => executed[t] = {}
        /\ card[t] = "approved" => \A c \in Decisions(t) : click[c].button = "approve"

(* "Consume the token first so a double-click can't execute twice." *)
ExecutesAtMostOnce == \A t \in Cards : Cardinality(executed[t]) <= 1

=============================================================================
