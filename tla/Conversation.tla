---------------------------- MODULE Conversation ----------------------------
(***************************************************************************)
(* Messages to the bot (slack-events.service.ts) and the memory of the     *)
(* conversation (messages.service.ts).  Slack may deliver an event several *)
(* times, to any server, and is answered before the event is handled.  A   *)
(* message outside a thread belongs to the rolling history of its DM and   *)
(* opens a thread of its own, where its turns are mirrored; any other      *)
(* message belongs to its thread.                                          *)
(***************************************************************************)
EXTENDS Naturals, Sequences, FiniteSets

CONSTANTS
    Messages,       \* Slack events, each with an event_id
    Instances,      \* instances of the API process
    Handlers,       \* events handled concurrently, in all instances
    MaxSeen,        \* event ids an instance remembers (1000)
    HistoryLimit,   \* HISTORY_TURN_LIMIT
    MaxDeliveries,  \* bound: deliveries of an event; one event only is delivered
                    \*        more than once
    MaxFaults,      \* bound: instances that die and calls that fail
    Dm,             \* the key of the DM channel
    Nothing         \* no event, no instance, no thread

ASSUME ConversationAssumption ==
    /\ {MaxSeen, HistoryLimit, MaxDeliveries, MaxFaults} \subseteq Nat
    /\ MaxSeen > 0
    /\ Dm \notin Messages
    /\ Nothing \notin Messages \cup {Dm} \cup Instances

VARIABLES
    sent,           \* the thread each message was written in, or Nothing
    deliveries,     \* how often Slack has delivered it
    seen,           \* seenEventIds of each instance, oldest first
    handler,        \* what each handler has in memory
    turns,          \* the messages table: the turns of each thread
    posted,         \* answers in Slack to each message
    apologies,      \* "Sorry, something went wrong" in Slack to each message
    reacting,       \* messages wearing the processing reaction
    faults,         \* instances that died and calls that failed
    unstamped,      \* ghost: messages answered by a card whose timestamp could
                    \*        not be kept
    forgotten       \* ghost: messages accepted a second time, or whose
                    \*        instance died

conversationVars == <<sent, deliveries, seen, handler, turns, posted, apologies, reacting, faults,
                      unstamped, forgotten>>

Threads == Messages \cup {Dm}
Turn == [message : Messages, role : {"user", "assistant"}]
Steps == {"idle", "read", "ask", "think", "tell", "store", "post", "stamp", "sorry", "clear"}
Free == [step |-> "idle", message |-> Nothing, instance |-> Nothing, todo |-> {}, history |-> << >>,
         card |-> FALSE]

\* conversationKeys: sent directly in the DM, m is also the thread it opens.
MemoryThread(m) == sent[m]
BranchThreads(m) == IF sent[m] = Dm THEN {m} ELSE {}
ThreadsOf(m) == {MemoryThread(m)} \cup BranchThreads(m)

ConversationTypeOK ==
    /\ sent \in [Messages -> Threads \cup {Nothing}]
    /\ deliveries \in [Messages -> 0 .. MaxDeliveries]
    /\ \A i \in Instances : seen[i] \in Seq(Messages) /\ Len(seen[i]) <= MaxSeen
    /\ \A h \in Handlers :
        /\ handler[h].step \in Steps
        /\ handler[h].message \in Messages \cup {Nothing}
        /\ handler[h].instance \in Instances \cup {Nothing}
        /\ handler[h].todo \subseteq Threads
        /\ handler[h].history \in Seq(Turn) /\ Len(handler[h].history) <= HistoryLimit
        /\ handler[h].card \in BOOLEAN
    /\ turns \in [Threads -> Seq(Turn)]
    /\ {posted, apologies} \subseteq [Messages -> Nat]
    /\ reacting \cup unstamped \cup forgotten \subseteq Messages
    /\ faults \in 0 .. MaxFaults

ConversationInit ==
    /\ sent = [m \in Messages |-> Nothing]
    /\ deliveries = [m \in Messages |-> 0]
    /\ seen = [i \in Instances |-> << >>]
    /\ handler = [h \in Handlers |-> Free]
    /\ turns = [k \in Threads |-> << >>]
    /\ posted = [m \in Messages |-> 0]
    /\ apologies = [m \in Messages |-> 0]
    /\ reacting = {}
    /\ faults = 0
    /\ unstamped = {}
    /\ forgotten = {}

-----------------------------------------------------------------------------
\* A member writes to the bot: in the DM, in a thread, or by a mention that
\* opens its own thread.
Send(m, thread) ==
    /\ sent[m] = Nothing
    /\ thread \in {Dm, m} \cup {k \in Messages : sent[k] \in {Dm, k}}
    /\ sent' = [sent EXCEPT ![m] = thread]
    /\ UNCHANGED <<deliveries, seen, handler, turns, posted, apologies, reacting, faults,
                   unstamped, forgotten>>

Elements(s) == {s[n] : n \in DOMAIN s}

\* rememberEventId: the oldest id makes room.
Remembered(s, m) == IF Len(s) = MaxSeen THEN Append(Tail(s), m) ELSE Append(s, m)

\* An event seen before is dropped; any other is remembered and handled, its
\* message marked with the processing reaction.
Deliver(h, i, m) ==
    LET dropped == m \in Elements(seen[i])
    IN  /\ sent[m] # Nothing /\ deliveries[m] < MaxDeliveries
        /\ deliveries[m] > 0 => \A other \in Messages \ {m} : deliveries[other] <= 1
        /\ handler[h].step = "idle"
        /\ deliveries' = [deliveries EXCEPT ![m] = @ + 1]
        /\ IF dropped THEN UNCHANGED <<seen, handler, reacting, forgotten>>
           ELSE /\ seen' = [seen EXCEPT ![i] = Remembered(@, m)]
                /\ handler' = [handler EXCEPT ![h] =
                        [Free EXCEPT !.step = "read", !.message = m, !.instance = i]]
                /\ reacting' = reacting \cup {m}
                /\ forgotten' = IF deliveries[m] > 0 THEN forgotten \cup {m} ELSE forgotten
        /\ UNCHANGED <<sent, turns, posted, apologies, faults, unstamped>>

Becomes(h, next) == handler' = [handler EXCEPT ![h] = next]
Quiet == UNCHANGED <<sent, deliveries, seen, forgotten>>
\* Nothing is written in Slack.
Silent == UNCHANGED <<posted, apologies, unstamped>>
\* A call of the handler works, or fails.
Works(ok) == IF ok THEN UNCHANGED faults ELSE faults < MaxFaults /\ faults' = faults + 1

\* getThread: the most recent turns; nothing when they cannot be read.
LastTurns(s) == SubSeq(s, IF Len(s) > HistoryLimit THEN Len(s) - HistoryLimit + 1 ELSE 1, Len(s))

\* Fault: the prompt is recorded before the history is read.
ReadHistoryLate(h, ok) ==
    LET m == handler[h].message
        asked == Append(turns[MemoryThread(m)], [message |-> m, role |-> "user"])
    IN  /\ handler[h].step = "read"
        /\ turns' = [turns EXCEPT ![MemoryThread(m)] = asked]
        /\ Becomes(h, [handler[h] EXCEPT !.step = "ask", !.todo = BranchThreads(m),
                                         !.history = IF ok THEN LastTurns(asked) ELSE << >>])
        /\ UNCHANGED reacting /\ Silent /\ Quiet /\ Works(ok)

ReadHistory(h, ok) ==
    LET m == handler[h].message
    IN  /\ handler[h].step = "read"
        /\ Becomes(h, [handler[h] EXCEPT !.step = "ask", !.todo = ThreadsOf(m),
                       !.history = IF ok THEN LastTurns(turns[MemoryThread(m)]) ELSE << >>])
        /\ UNCHANGED <<turns, reacting>> /\ Silent /\ Quiet /\ Works(ok)

\* Asking and telling visit the thread of the message first, then its branch.
NextThread(h) ==
    LET m == handler[h].message
    IN  IF MemoryThread(m) \in handler[h].todo THEN MemoryThread(m) ELSE m

\* The answer is posted, a pending action as a card that is stored first.
AnswerStep(w) == IF w.card THEN "store" ELSE "post"

\* appendTurn; a turn that cannot be saved is given up.
AppendTurn(h, ok) ==
    LET m == handler[h].message
        k == NextThread(h)
        left == handler[h].todo \ {k}
        role == IF handler[h].step = "ask" THEN "user" ELSE "assistant"
    IN  /\ handler[h].step \in {"ask", "tell"}
        /\ handler[h].todo # {}
        /\ turns' = IF ok THEN [turns EXCEPT ![k] = Append(@, [message |-> m, role |-> role])] ELSE turns
        /\ Becomes(h, [handler[h] EXCEPT !.todo = left,
                       !.step = IF left # {} THEN @
                                ELSE IF role = "user" THEN "think" ELSE AnswerStep(handler[h])])
        /\ UNCHANGED reacting /\ Silent /\ Quiet /\ Works(ok)

\* AiService.run answers, or has nothing to say (the fallback is posted, and no
\* turn recorded); a gated write it proposes is put on a card.
Think(h, answered, card) ==
    /\ handler[h].step = "think"
    /\ LET after == [handler[h] EXCEPT !.card = card]
       IN  Becomes(h, IF answered
                      THEN [after EXCEPT !.step = "tell", !.todo = ThreadsOf(handler[h].message)]
                      ELSE [after EXCEPT !.step = AnswerStep(after)])
    /\ UNCHANGED <<turns, reacting>> /\ Silent /\ Quiet /\ UNCHANGED faults

\* storePending: the card waits in Redis before it is posted.
StorePending(h) ==
    /\ handler[h].step = "store"
    /\ Becomes(h, [handler[h] EXCEPT !.step = "post"])
    /\ UNCHANGED <<turns, reacting>> /\ Silent /\ Quiet /\ UNCHANGED faults

\* postMessage gives up silently when Slack does not take the message; a card
\* that is there is stamped next.
Post(h, delivered) ==
    /\ handler[h].step = "post"
    /\ posted' = IF delivered THEN [posted EXCEPT ![handler[h].message] = @ + 1] ELSE posted
    /\ Becomes(h, [handler[h] EXCEPT !.step =
                        IF handler[h].card /\ delivered THEN "stamp" ELSE "clear"])
    /\ UNCHANGED <<turns, apologies, unstamped, reacting>> /\ Quiet /\ Works(delivered)

\* attachMessageTs: the pending card learns where it was posted.
AttachMessageTs(h) ==
    /\ handler[h].step = "stamp"
    /\ Becomes(h, [handler[h] EXCEPT !.step = "clear"])
    /\ UNCHANGED <<turns, reacting>> /\ Silent /\ Quiet /\ UNCHANGED faults

\* The lookup of the sender, the run, storePending or attachMessageTs throws.
Throws(h) ==
    /\ handler[h].step \in {"read", "think", "store", "stamp"}
    /\ Becomes(h, [handler[h] EXCEPT !.step = "sorry"])
    /\ unstamped' = IF handler[h].step = "stamp" THEN unstamped \cup {handler[h].message}
                    ELSE unstamped
    /\ UNCHANGED <<turns, posted, apologies, reacting>> /\ Quiet /\ Works(FALSE)

\* The catch block, also after the card it could not stamp.
SaySorry(h, delivered) ==
    /\ handler[h].step = "sorry"
    /\ apologies' = IF delivered THEN [apologies EXCEPT ![handler[h].message] = @ + 1]
                    ELSE apologies
    /\ Becomes(h, [handler[h] EXCEPT !.step = "clear"])
    /\ UNCHANGED <<turns, posted, unstamped, reacting>> /\ Quiet /\ Works(delivered)

\* The finally block.
ClearReaction(h) ==
    /\ handler[h].step = "clear"
    /\ reacting' = reacting \ {handler[h].message}
    /\ Becomes(h, Free)
    /\ UNCHANGED turns /\ Silent /\ Quiet /\ UNCHANGED faults

\* The process dies, and what it had seen and was handling with it.
InstanceDies(i) ==
    /\ faults < MaxFaults
    /\ faults' = faults + 1
    /\ seen' = [seen EXCEPT ![i] = << >>]
    /\ handler' = [h \in Handlers |-> IF handler[h].instance = i THEN Free ELSE handler[h]]
    /\ forgotten' = forgotten \cup Elements(seen[i]) \cup
            {handler[h].message : h \in {g \in Handlers : handler[g].instance = i}}
    /\ UNCHANGED <<sent, deliveries, turns, posted, apologies, unstamped, reacting>>

ConversationNext ==
    \/ \E m \in Messages, k \in Threads : Send(m, k)
    \/ \E h \in Handlers :
        \/ \E i \in Instances, m \in Messages : Deliver(h, i, m)
        \/ \E ok \in BOOLEAN :
            ReadHistory(h, ok) \/ AppendTurn(h, ok) \/ Post(h, ok) \/ SaySorry(h, ok)
        \/ \E answered, card \in BOOLEAN : Think(h, answered, card)
        \/ StorePending(h) \/ AttachMessageTs(h) \/ Throws(h) \/ ClearReaction(h)
    \/ \E i \in Instances : InstanceDies(i)

ConversationSpec == ConversationInit /\ [][ConversationNext]_conversationVars

-----------------------------------------------------------------------------
(* Properties.                                                             *)

\* A message is one turn of the conversation, however often it is delivered:
\* recorded once a side in the thread it belongs to and in the one it opens,
\* never shown in its own history, wearing the reaction only while it is handled,
\* and answered once, or given one apology.  It gets both only when the card was
\* posted and could not be stamped.  Exempt is a message that came to an instance
\* that could not know it (another one, one that restarted, one that had
\* forgotten), which Slack's redelivery can bring about, or died with one.
OneTurnPerMessage ==
    \A m \in Messages \ forgotten :
        /\ posted[m] <= 1 /\ apologies[m] <= 1
        /\ posted[m] > 0 /\ apologies[m] > 0 => m \in unstamped
        /\ \A k \in Threads, role \in {"user", "assistant"} :
            LET told == {n \in DOMAIN turns[k] : turns[k][n] = [message |-> m, role |-> role]}
            IN  Cardinality(told) <= (IF sent[m] # Nothing /\ k \in ThreadsOf(m) THEN 1 ELSE 0)
        /\ \A h \in Handlers : handler[h].message = m =>
            \A n \in DOMAIN handler[h].history : handler[h].history[n].message # m
        /\ m \in reacting => \E h \in Handlers : handler[h].message = m

=============================================================================
