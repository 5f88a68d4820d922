----------------------------- MODULE MCPlatform -----------------------------
(***************************************************************************)
(* Accounts, spaces, connections of both kinds, conversations and what the *)
(* super-admins see and do, on one small instance.  They share the server  *)
(* and nothing that a property reads, so each behaviour follows one of     *)
(* them: the states add up instead of multiplying.  The sets each of them  *)
(* treats alike are given the same elements, so that two symmetries serve  *)
(* all.                                                                    *)
(***************************************************************************)
EXTENDS Accounts, Spaces, Connections, Conversation, AppAccounts,
        Seeding, Panel, BugReports, TLC

CONSTANTS n1, n2

VARIABLE focus

MCSymmetry == Permutations(Calls) \cup Permutations(People)

\* What overlapping saves do to the users table is not followed further: the
\* properties of Accounts say nothing of what comes after them.
MCUnraced == ~raced /\ ~miscounted

\* Nor are two decisions on top of a request that died.
MCFewTroubles == failures = 0 \/ decisions <= 1

\* Neither is what follows a disputed save of a connected account, nor a second
\* account whose access level was edited.
MCSettled == loose = {} /\ Cardinality(moved) <= 1

\* Nor, in a Space, what follows a second save of what was read too long ago: the
\* properties of Spaces except what such saves touched.
MCCurrent == Cardinality(outdated) <= 1

\* Nor what follows a lost token, a withdrawn grant or an out-of-date save of a Meta
\* account: nothing is said of that account any more.
MCUndisturbed == upset = {}

\* Nor what follows once every message was forgotten; and a run that proposes a
\* write answers while the other handler is idle.
MCRemembered ==
    /\ Messages \ forgotten # {}
    /\ \A h, g \in Handlers : h # g /\ handler[h].card => handler[g].step = "idle"

\* Users touch one row of a Space at most: one they type, edit or delete, and
\* what was edited twice is not followed further.
MCOneTouched ==
    /\ Cardinality({i \in DOMAIN rows : \/ rows[i].call = 0 \/ ~rows[i].there
                                        \/ Cardinality(rows[i].had) > 1}) <= 1
    /\ \A i \in DOMAIN rows : Cardinality(rows[i].had) <= 2

\* At most one of the teams grows large.
MCModest == people["w1"] + people["w2"] <= 3

\* w1's name sorts before w2's; a team of more than two is a large one.
MCNameRank == ("w1" :> 1) @@ ("w2" :> 2)
MCTeamBounds == <<0, 1, 2>>

\* A Space of people and tasks: a task is owned by a person, or, after a change of
\* the spec, by another task.  The third spec shows an entity it does not have.
MCTitle == [name |-> "title", type |-> "string", required |-> TRUE, refEntity |-> Blank]
MCOwner(e) == [name |-> "owner", type |-> "reference", required |-> FALSE, refEntity |-> e]
MCPeople == [name |-> "Person", fields |-> <<MCTitle>>]
MCTasksOf(e) == [name |-> "Task", fields |-> <<MCOwner(e), MCTitle>>]
MCAppSpecs == {[entities |-> <<MCPeople, MCTasksOf("Person")>>, views |-> <<"Task">>],
               [entities |-> <<MCPeople, MCTasksOf("Task")>>, views |-> <<"Person">>],
               [entities |-> <<MCPeople>>, views |-> <<"Task">>]}
MCPerson(n) == [entity |-> "Person", data |-> ("title" :> n)]
MCTask(n, o) == [entity |-> "Task", data |-> ("title" :> n @@ "owner" :> o)]
MCSeedBatches == {<<>>, <<MCTask(n2, n1)>>, <<MCTask(n1, n1), MCPerson(n1)>>,
                  <<MCTask(n1, Blank), MCPerson(n2)>>,
                  <<[entity |-> "Task", data |-> ("title" :> n1 @@ "z" :> n1)]>>,
                  <<[entity |-> "Task", data |-> ("owner" :> n1)]>>}
MCTyped == {MCPerson(n1), MCPerson(n2)}

PlatformInit ==
    /\ AccountsInit /\ SpacesInit /\ ConnectionsInit /\ ConversationInit
    /\ AppAccountsInit /\ SeedingInit /\ PanelInit /\ BugsInit
    /\ focus \in {"accounts", "spaces", "connections", "conversation", "apps", "seeding",
                  "panel", "bugs"}

PlatformNext ==
    /\ UNCHANGED focus
    /\ \/ /\ focus = "accounts" /\ AccountsNext
          /\ UNCHANGED <<spaceVars, connectionVars, conversationVars, accountsVars,
                         seedingVars, panelVars, bugVars>>
       \/ /\ focus = "spaces" /\ SpacesNext
          /\ UNCHANGED <<accountVars, connectionVars, conversationVars, accountsVars,
                         seedingVars, panelVars, bugVars>>
       \/ /\ focus = "connections" /\ ConnectionsNext
          /\ UNCHANGED <<accountVars, spaceVars, conversationVars, accountsVars,
                         seedingVars, panelVars, bugVars>>
       \/ /\ focus = "conversation" /\ ConversationNext
          /\ UNCHANGED <<accountVars, spaceVars, connectionVars, accountsVars,
                         seedingVars, panelVars, bugVars>>
       \/ /\ focus = "apps" /\ AppAccountsNext
          /\ UNCHANGED <<accountVars, spaceVars, connectionVars, conversationVars,
                         seedingVars, panelVars, bugVars>>
       \/ /\ focus = "seeding" /\ SeedingNext
          /\ UNCHANGED <<accountVars, spaceVars, connectionVars, conversationVars,
                         accountsVars, panelVars, bugVars>>
       \/ /\ focus = "panel" /\ PanelNext
          /\ UNCHANGED <<accountVars, spaceVars, connectionVars, conversationVars,
                         accountsVars, seedingVars, bugVars>>
       \/ /\ focus = "bugs" /\ BugsNext
          /\ UNCHANGED <<accountVars, spaceVars, connectionVars, conversationVars,
                         accountsVars, seedingVars, panelVars>>

PlatformSpec ==
    PlatformInit
      /\ [][PlatformNext]_<<focus, accountVars, spaceVars, connectionVars, conversationVars,
                            accountsVars, seedingVars, panelVars, bugVars>>

\* What is not followed stays as it started.
PlatformTypeOK ==
    CASE focus = "accounts"     -> AccountsTypeOK
      [] focus = "spaces"       -> SpacesTypeOK
      [] focus = "connections"  -> ConnectionsTypeOK
      [] focus = "conversation" -> ConversationTypeOK
      [] focus = "apps"         -> AppAccountsTypeOK
      [] focus = "seeding"      -> SeedingTypeOK
      [] focus = "panel"        -> PanelTypeOK
      [] focus = "bugs"         -> BugsTypeOK

(* An account that was connected can be used by those it was connected for,
   for as long as it was. *)
ConnectionsHold ==
    CASE focus = "connections" -> ConnectionSurvives
      [] focus = "apps"        -> PrivateStaysPrivate /\ DisconnectedIsGone
      [] OTHER                 -> TRUE

(* What the users of a Space and the assistant wrote in it is there, and the
   assistant's rows point where it meant them to. *)
SpacesKeepWork ==
    CASE focus = "spaces"  -> WorkIsKept
      [] focus = "seeding" -> LinkedAsNamed
      [] OTHER             -> TRUE

(* What the super-admins read of the platform is what is in its tables, and
   what they write of a bug report agrees with itself. *)
SuperAdminTellsTheTruth ==
    CASE focus = "panel" -> PanelTellsTheTruth
      [] focus = "bugs"  -> ClosedIffStamped
      [] OTHER           -> TRUE

=============================================================================
