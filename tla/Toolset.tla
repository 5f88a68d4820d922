------------------------------ MODULE Toolset ------------------------------
(***************************************************************************)
(* The tools of connected apps, for providers that cannot reach the apps   *)
(* themselves (src/ai/providers/mcp-bridge.service.ts, selectRelevant of   *)
(* tool-router.service.ts, and their use in AiService.run).                *)
(*                                                                         *)
(* A run lists each app's tools, from a cache or live, deals them out in   *)
(* turns into one list of candidates under names of its own, lets the      *)
(* router narrow the list and caps it.  What the provider asks for by one  *)
(* of these names goes back to the app it came from.                       *)
(*                                                                         *)
(* A name is a sequence of at most MAX_TOOL_NAME_LENGTH characters; what   *)
(* is left of a tool's name after sanitizing and cutting is its BaseName.  *)
(***************************************************************************)
EXTENDS Naturals, SequencesExt, Selection

CONSTANTS
    AppsInOrder,             \* the connected apps, in the order they are read
    Surfaces,             \* per app, the lists of tools it may come to offer
    BaseName,             \* per app and tool, the name to start from
    MAX_TOOL_NAME_LENGTH, \* 64
    MAX_CANDIDATE_TOOLS,  \* 200
    MAX_BRIDGED_TOOLS,    \* 60
    ROUTE_THRESHOLD       \* below it the router is not asked

ASSUME NamesAssumption ==
    /\ MAX_TOOL_NAME_LENGTH \in Nat \ {0, 1}
    /\ \A p \in DOMAIN BaseName :
         BaseName[p] \in Seq(ToSet(BaseName[p])) /\ Len(BaseName[p]) <= MAX_TOOL_NAME_LENGTH
\* An app is read once, and calls each of its tools something else.
ASSUME SurfacesAssumption ==
    /\ AppsInOrder \in Seq(ToSet(AppsInOrder)) /\ IsInjective(AppsInOrder)
    /\ \A s \in ToSet(AppsInOrder) : \A list \in Surfaces[s] :
         /\ list \in Seq(ToSet(list)) /\ IsInjective(list)
         /\ \A tool \in ToSet(list) : <<s, tool>> \in DOMAIN BaseName
ASSUME CapsAssumption ==
    MAX_CANDIDATE_TOOLS \in Nat /\ MAX_BRIDGED_TOOLS \in Nat /\ ROUTE_THRESHOLD \in Nat

VARIABLES
    surface,   \* per app, the tools it offers now
    cached,    \* Redis: per app, a list it offered once; empty for none
    listed,    \* per app, what this run knows of it
    dealing,   \* where the run is, and whose turn it is
    tools,     \* the run's tools: the names sent to the provider, in order
    routes     \* name -> app and tool

toolsetVars == <<surface, cached, listed, dealing, tools, routes>>

Unlisted == <<"unlisted">>
NoRoutes == [n \in {} |-> <<>>]
Turn(k) == AppsInOrder[((k - 1) % Len(AppsInOrder)) + 1]

ToolsetInit ==
    /\ surface \in [ToSet(AppsInOrder) -> UNION {Surfaces[s] : s \in ToSet(AppsInOrder)}]
    /\ \A s \in ToSet(AppsInOrder) : surface[s] \in Surfaces[s]
    /\ cached = [s \in ToSet(AppsInOrder) |-> <<>>]
    /\ listed = [s \in ToSet(AppsInOrder) |-> Unlisted]
    /\ dealing = [pc |-> "listing", next |-> 1]
    /\ tools = <<>> /\ routes = NoRoutes

(* An app changes its tools. *)
ChangeSurface ==
    /\ \E s \in ToSet(AppsInOrder) : \E list \in Surfaces[s] : surface' = [surface EXCEPT ![s] = list]
    /\ UNCHANGED <<cached, listed, dealing, tools, routes>>

CacheExpires ==
    /\ \E s \in ToSet(AppsInOrder) : cached[s] # <<>> /\ cached' = [cached EXCEPT ![s] = <<>>]
    /\ UNCHANGED <<surface, listed, dealing, tools, routes>>

----------------------------------------------------------------------------
(* listTools, for every app at once. *)

Listing(s) == dealing.pc = "listing" /\ listed[s] = Unlisted

ListCached(s) ==
    /\ Listing(s) /\ cached[s] # <<>>
    /\ listed' = [listed EXCEPT ![s] = cached[s]]
    /\ UNCHANGED <<surface, cached, dealing, tools, routes>>

\* Redis may fail both ways; the list is kept if it can be.
ListLive(s) ==
    /\ Listing(s)
    /\ listed' = [listed EXCEPT ![s] = surface[s]]
    /\ cached' \in {cached, [cached EXCEPT ![s] = surface[s]]}
    /\ UNCHANGED <<surface, dealing, tools, routes>>

\* An app that cannot be reached is left out.
ListFails(s) ==
    /\ Listing(s)
    /\ listed' = [listed EXCEPT ![s] = <<>>]
    /\ UNCHANGED <<surface, cached, dealing, tools, routes>>

StartDealing ==
    /\ dealing.pc = "listing" /\ \A s \in ToSet(AppsInOrder) : listed[s] # Unlisted
    /\ dealing' = [dealing EXCEPT !.pc = "dealing"]
    /\ UNCHANGED <<surface, cached, listed, tools, routes>>

----------------------------------------------------------------------------
(* buildToolset: one tool of each app in turn. *)

\* The suffix goes at the end, over what no longer fits.
WithSuffix(name, k) == Append(SubSeq(name, 1, Min({Len(name), MAX_TOOL_NAME_LENGTH - 1})), k)

\* The k-th name tried: a suffix goes on the name that was tried before.
Tried(base, k) ==
    IF k = 1 THEN base ELSE WithSuffix(base \o [i \in 1..(k - 2) |-> i + 1], k)

(* exposedName: suffixes 2, 3, ... until the name is free.
   Fault: a name that is taken is used all the same. *)
ExposedTwice(base, taken) == base
Exposed(base, taken) ==
    Tried(base, CHOOSE k \in 1..(Cardinality(taken) + 2) :
                   /\ Tried(base, k) \notin taken
                   /\ \A j \in 1..(k - 1) : Tried(base, j) \in taken)

\* remaining.shift(), as a count: how many of an app's tools have been dealt.
DealtOf(s) == Cardinality({n \in DOMAIN routes : routes[n].app = s})

(* Fault: the first app is dealt out before the next. *)
UpDrained ==
    CHOOSE s \in ToSet(AppsInOrder) : DealtOf(s) < Len(listed[s])
Up == Turn(dealing.next)

Deal ==
    /\ dealing.pc = "dealing"
    /\ Len(tools) < MAX_CANDIDATE_TOOLS
    /\ \E s \in ToSet(AppsInOrder) : DealtOf(s) < Len(listed[s])
    /\ dealing' = [dealing EXCEPT !.next = (@ % Len(AppsInOrder)) + 1]
    /\ IF DealtOf(Up) = Len(listed[Up]) THEN UNCHANGED <<tools, routes>>
       ELSE LET tool == listed[Up][DealtOf(Up) + 1]
                name == Exposed(BaseName[<<Up, tool>>], DOMAIN routes)
            IN  /\ tools' = Append(tools, name)
                /\ routes' = [n \in DOMAIN routes \cup {name} |->
                                 IF n = name THEN [app |-> Up, tool |-> tool] ELSE routes[n]]
    /\ UNCHANGED <<surface, cached, listed>>

StartRouting ==
    /\ dealing.pc = "dealing"
    /\ \/ Len(tools) = MAX_CANDIDATE_TOOLS
       \/ \A s \in ToSet(AppsInOrder) : DealtOf(s) = Len(listed[s])
    /\ dealing' = [dealing EXCEPT !.pc = "dealt"]
    /\ UNCHANGED <<surface, cached, listed, tools, routes>>

----------------------------------------------------------------------------
(* selectRelevant: the tools the router names, in their order; all of them
   when there are few, when it fails, and when it names none. *)
Relevant ==
    {tools} \cup (IF Len(tools) <= ROUTE_THRESHOLD THEN {}
                  ELSE {Filtered(tools, named) : named \in SUBSET DOMAIN tools \ {{}}})

\* narrowTo: the list is capped, the routes follow.
Narrow ==
    /\ dealing.pc = "dealt"
    /\ \E keep \in Relevant :
         LET sent == SubSeq(keep, 1, Min({MAX_BRIDGED_TOOLS, Len(keep)}))
         IN  /\ tools' = sent
             /\ routes' = Restrict(routes, ToSet(sent))
             /\ dealing' = [dealing EXCEPT !.pc = IF keep = tools THEN "whole" ELSE "narrowed"]
    /\ UNCHANGED <<surface, cached, listed>>

NextRun ==
    /\ dealing.pc \in {"whole", "narrowed"}
    /\ dealing' = [pc |-> "listing", next |-> 1]
    /\ listed' = [s \in ToSet(AppsInOrder) |-> Unlisted]
    /\ tools' = <<>> /\ routes' = NoRoutes
    /\ UNCHANGED <<surface, cached>>

ToolsetNext ==
    \/ ChangeSurface \/ CacheExpires
    \/ \E s \in ToSet(AppsInOrder) : ListCached(s) \/ ListLive(s) \/ ListFails(s)
    \/ StartDealing \/ Deal \/ StartRouting \/ Narrow \/ NextRun

ToolsetSpec == ToolsetInit /\ [][ToolsetNext]_toolsetVars

----------------------------------------------------------------------------
ToolsetTypeOK ==
    /\ \A s \in ToSet(AppsInOrder) :
         /\ surface[s] \in Surfaces[s] /\ cached[s] \in Surfaces[s] \cup {<<>>}
         /\ listed[s] \in Surfaces[s] \cup {<<>>, Unlisted}
    /\ dealing.pc \in {"listing", "dealing", "dealt", "whole", "narrowed"}
    /\ \A k \in DOMAIN tools : Len(tools[k]) <= MAX_TOOL_NAME_LENGTH

Sent(s) == {n \in ToSet(tools) : routes[n].app = s}

(* What the model is sent and what it can execute stay in agreement: every
   name sent is one tool's, whatever names the apps share or lose by being
   cut, and goes back to that tool; and an app's share is never smaller than
   another's by two as long as it has tools left, unless the router chose,
   so that no app uses up the room of the others. *)
ToolsetAgrees ==
    /\ IsInjective(tools) /\ DOMAIN routes = ToSet(tools)
    /\ \A m, n \in DOMAIN routes : routes[m] = routes[n] => m = n
    /\ dealing.pc \in {"dealing", "dealt", "whole"} =>
         \A s, t \in ToSet(AppsInOrder) :
            Cardinality(Sent(s)) + 1 < Cardinality(Sent(t)) => Cardinality(Sent(s)) = Len(listed[s])

=============================================================================
