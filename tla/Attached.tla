------------------------------ MODULE Attached ------------------------------
(***************************************************************************)
(* Which connected apps a run attaches, and which of their actions         *)
(* (attachServers of src/ai/ai.service.ts, attached-apps.service.ts and    *)
(* tool-router.service.ts of src/ai/providers).                            *)
(*                                                                         *)
(* A conversation remembers in Redis what its turns attached.  Each turn   *)
(* reads the record, asks the router about the rest, reads the record      *)
(* again, folds its own choice in and writes the union back, and may hand  *)
(* what it sends to a thread branching off.  Nothing makes the last read   *)
(* and the write one step, turns of one conversation overlap, and every    *)
(* call to Redis or to the router may fail without failing the turn.       *)
(*                                                                         *)
(* An app is attached whole, or with a list of actions, oldest first.      *)
(***************************************************************************)
EXTENDS Naturals, SequencesExt, Selection

CONSTANTS
    Turns,                \* turns of conversations, each answered by one run
    ThreadsSpoken,        \* the conversations
    ThreadOf,             \* per turn, its conversation
    BranchOf,             \* per turn, the thread a reply to it would open
    NoThread,
    Apps,                 \* the MCP servers of the workspace
    AppActions,           \* the actions of each, named in the router's order
    SERVER_ROUTE_THRESHOLD,
    MAX_ACTIONS_PER_APP,  \* 24
    MaxLosses             \* bound: failed calls and expired records

ASSUME ThreadsAssumption ==
    /\ ThreadOf \in [Turns -> ThreadsSpoken]
    /\ BranchOf \in [Turns -> ThreadsSpoken \cup {NoThread}]
ASSUME ActionsAssumption ==
    /\ AppActions \subseteq Nat /\ IsFiniteSet(AppActions)
    /\ MAX_ACTIONS_PER_APP \in Nat \ {0} /\ MaxLosses \in Nat

VARIABLES
    attachments,   \* Redis: per conversation, the apps it has attached
    turn,          \* per turn, its run: where it is and what it read
    losses,        \* calls that failed and records that expired
    forgot         \* ghost: conversations whose record was lost or overtaken

attachedVars == <<attachments, turn, losses, forgot>>

Whole == <<>>
NoApps == [s \in {} |-> Whole]
IsWhole(actions) == actions = Whole

\* AttachedApps: server name to actions.
IsAttachedApps(f) == DOMAIN f \subseteq Apps /\ \A s \in DOMAIN f : ToSet(f[s]) \subseteq AppActions

WaitingTurn == [pc |-> "waiting", sticky |-> NoApps, picked |-> NoApps,
                previous |-> NoApps, sent |-> NoApps]

AttachedInit ==
    /\ attachments = [c \in ThreadsSpoken |-> NoApps]
    /\ turn = [t \in Turns |-> WaitingTurn]
    /\ losses = 0
    /\ forgot = {}

Here(t) == ThreadOf[t]
LosesOne == losses < MaxLosses /\ losses' = losses + 1

(* GET of a record; a failure reads as an empty one. *)
ReadInto(t, pc, field) ==
    \/ /\ turn' = [turn EXCEPT ![t] = [@ EXCEPT !.pc = pc, ![field] = attachments[Here(t)]]]
       /\ UNCHANGED losses
    \/ /\ turn' = [turn EXCEPT ![t] = [@ EXCEPT !.pc = pc, ![field] = NoApps]]
       /\ LosesOne

ReadSticky(t) ==
    /\ turn[t].pc = "waiting"
    /\ ReadInto(t, "routing", "sticky")
    /\ UNCHANGED <<attachments, forgot>>

----------------------------------------------------------------------------
(* selectRelevantServers: all of a few, or what the router names, which may
   be none; all when it fails. *)
RelevantServers(undecided) ==
    IF Cardinality(undecided) <= SERVER_ROUTE_THRESHOLD THEN {undecided} ELSE SUBSET undecided

(* selectRelevantActions: the named actions in order, or everything. *)
RelevantActions ==
    {Whole} \cup {Ascending(chosen) : chosen \in SUBSET AppActions \ {{}}}

(* What a turn attaches of an app, given what the conversation remembers of
   it and what the router answers: a router that fails does not widen an app
   the conversation has narrowed. *)
Attaching(sticky, s, enabled) ==
    IF s \in DOMAIN sticky /\ (IsWhole(sticky[s]) \/ IsWhole(enabled)) THEN sticky[s] ELSE enabled

Route(t) ==
    LET sticky == turn[t].sticky
        undecided == Apps \ DOMAIN sticky
    IN  /\ turn[t].pc = "routing"
        /\ \E relevant \in RelevantServers(undecided) :
             LET chosen == DOMAIN sticky \cup relevant
             IN  \E enabled \in [chosen -> RelevantActions] :
                   turn' = [turn EXCEPT
                       ![t].picked = [s \in chosen |-> Attaching(sticky, s, enabled[s])],
                       ![t].pc = IF chosen = {} THEN "over" ELSE "merging"]
        /\ UNCHANGED <<attachments, losses, forgot>>

----------------------------------------------------------------------------
(* merge: the record is read again, *)
ReadPrevious(t) ==
    /\ turn[t].pc = "merging"
    /\ ReadInto(t, "writing", "previous")
    /\ UNCHANGED <<attachments, forgot>>

(* [...new Set([...before, ...actions])].  Fault: this turn's actions alone. *)
OnlyThisTurn(before, actions) == actions
UnionOf(before, actions) ==
    before \o Filtered(actions, {k \in DOMAIN actions : actions[k] \notin ToSet(before)})

(* union.slice(-MAX_ACTIONS_PER_APP) *)
KeepTail(union) ==
    SubSeq(union, 1 + Max({0, Len(union) - MAX_ACTIONS_PER_APP}), Len(union))

Folded(previous, picked, s) ==
    CASE s \notin DOMAIN picked -> previous[s]
      [] s \notin DOMAIN previous -> KeepTail(picked[s])
      [] /\ s \in DOMAIN previous \cap DOMAIN picked
         /\ IsWhole(previous[s]) \/ IsWhole(picked[s]) -> Whole
      [] OTHER -> KeepTail(UnionOf(previous[s], picked[s]))

Merged(previous, picked) ==
    [s \in DOMAIN previous \cup DOMAIN picked |-> Folded(previous, picked, s)]

(* and the union is written back and sent.  A failed write is only logged. *)
Sending(t) == Merged(turn[t].previous, turn[t].picked)

WriteRecord(t) ==
    /\ turn[t].pc = "writing"
    /\ turn' = [turn EXCEPT ![t].sent = Sending(t),
                            ![t].pc = IF BranchOf[t] = NoThread THEN "over" ELSE "branching"]
    /\ \/ /\ attachments' = [attachments EXCEPT ![Here(t)] = Sending(t)]
          /\ forgot' = IF turn[t].previous = attachments[Here(t)] THEN forgot
                       ELSE forgot \cup {Here(t)}
          /\ UNCHANGED losses
       \/ LosesOne /\ UNCHANGED <<attachments, forgot>>

(* replace: the branch starts from what this turn sent. *)
SeedBranch(t) ==
    /\ turn[t].pc = "branching"
    /\ turn' = [turn EXCEPT ![t].pc = "over"]
    /\ \/ /\ attachments' = [attachments EXCEPT ![BranchOf[t]] = turn[t].sent]
          /\ forgot' = IF attachments[BranchOf[t]] = NoApps THEN forgot
                       ELSE forgot \cup {BranchOf[t]}
          /\ UNCHANGED losses
       \/ LosesOne /\ UNCHANGED <<attachments, forgot>>

(* ATTACHED_TTL_SECONDS after the last write. *)
ForgetThread(c) ==
    /\ attachments[c] # NoApps
    /\ LosesOne
    /\ attachments' = [attachments EXCEPT ![c] = NoApps]
    /\ forgot' = forgot \cup {c}
    /\ UNCHANGED turn

TurnDies(t) ==
    /\ turn[t].pc \notin {"waiting", "over"}
    /\ LosesOne
    /\ turn' = [turn EXCEPT ![t].pc = "over"]
    /\ UNCHANGED <<attachments, forgot>>

AttachedNext ==
    \/ \E t \in Turns :
        \/ ReadSticky(t) \/ Route(t) \/ ReadPrevious(t) \/ WriteRecord(t) \/ SeedBranch(t)
        \/ TurnDies(t)
    \/ \E c \in ThreadsSpoken : ForgetThread(c)

AttachedSpec == AttachedInit /\ [][AttachedNext]_attachedVars

----------------------------------------------------------------------------
AttachedTypeOK ==
    /\ \A c \in ThreadsSpoken : IsAttachedApps(attachments[c])
    /\ \A t \in Turns :
        /\ turn[t].pc \in {"waiting", "routing", "merging", "writing", "branching", "over"}
        /\ IsAttachedApps(turn[t].sticky) /\ IsAttachedApps(turn[t].picked)
        /\ IsAttachedApps(turn[t].previous) /\ IsAttachedApps(turn[t].sent)
    /\ \A c \in ThreadsSpoken : \A s \in DOMAIN attachments[c] :
        /\ IsInjective(attachments[c][s])
        /\ Len(attachments[c][s]) <= MAX_ACTIONS_PER_APP
    /\ losses \in 0..MaxLosses /\ forgot \subseteq ThreadsSpoken

\* Whoever had `before` finds it in `after`, or finds the app at its ceiling.
Keeps(after, before) ==
    \A s \in DOMAIN before :
        /\ s \in DOMAIN after
        /\ \/ IsWhole(after[s])
           \/ /\ ~IsWhole(before[s])
              /\ \/ ToSet(before[s]) \subseteq ToSet(after[s])
                 \/ Len(after[s]) = MAX_ACTIONS_PER_APP

(* "Attachment is append-only within a conversation": what its record holds
   is never taken away, except by the ceiling, as long as no turn overtook
   another, the record did not expire and no call to Redis failed. *)
AppsStayAttached ==
    [][\A c \in ThreadsSpoken \ forgot' : Keeps(attachments'[c], attachments[c])]_attachedVars

=============================================================================
