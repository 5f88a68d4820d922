------------------------- MODULE CreditLedgerProofs -------------------------
(***************************************************************************)
(* Theorems about the credit ledger, for any number of runs, grants and    *)
(* prices.  LedgerInv is the inductive invariant: besides the types it     *)
(* says that a snapshot only names grants that exist, that it only names   *)
(* grants that were live when it was taken, that an id not granted yet has *)
(* nothing spent against it, and that grants are overdrawn only after an   *)
(* overtaken save.                                                         *)
(*                                                                         *)
(* That the ledger adds up needs more (LedgerSums): what each run has paid *)
(* and when, and that the rows of the events sum to what was spent of the  *)
(* grants.  Both rest on what planAllocations comes to (PlanPays): the     *)
(* equations of its loop have one solution, and it pays the charge, or all *)
(* there is to pay it with.                                                *)
(***************************************************************************)
EXTENDS CreditLedger, Sums, TLAPS

SnapshotsNameGrants == \A r \in Runs : DOMAIN run[r].live \subseteq Granted

SnapshotsWereLive ==
    \A r \in Runs : run[r].pc = "planned" =>
        \A g \in DOMAIN run[r].live :
            grants[g].expiresAt = Never \/ grants[g].expiresAt > run[r].readAt

UngrantedIsUnspent == \A g \in GrantIds : g > Len(grants) => spent[g] = 0

LedgerInv ==
    /\ LedgerTypeOK
    /\ SnapshotsNameGrants
    /\ SnapshotsWereLive
    /\ UngrantedIsUnspent
    /\ OverdrawNeedsOvertaking

----------------------------------------------------------------------------
(* planAllocations pays from the grants it was given and never more than
   the snapshot says is left on them. *)
LEMMA PlanTakes ==
    ASSUME NEW gs, NEW live, NEW remaining \in [live -> Nat], NEW credits \in Nat,
           NEW take \in planAllocations(gs, live, remaining, credits)
    PROVE  /\ DOMAIN take = live
           /\ take \in [live -> Nat]
           /\ \A g \in live : take[g] <= remaining[g]
<1>1. PICK outstanding \in [live -> 0..credits] :
         take = [g \in live |-> Take(outstanding[g], remaining[g])]
  BY DEF planAllocations
<1>2. \A g \in live : outstanding[g] \in Nat /\ remaining[g] \in Nat
  BY <1>1
<1>3. \A g \in live : Take(outstanding[g], remaining[g]) \in Nat
                      /\ Take(outstanding[g], remaining[g]) <= remaining[g]
  BY <1>2 DEF Take, Lesser
<1> QED  BY <1>1, <1>3

(* The credits and the expiry of a granted row. *)
LEMMA GrantRowFields ==
    ASSUME LedgerTypeOK
    PROVE  /\ Len(grants) \in Nat /\ Granted \subseteq GrantIds
           /\ \A g \in Granted : grants[g].credits \in Nat /\ grants[g].expiresAt \in Nat
<1>1. Len(grants) \in Nat /\ DOMAIN grants = 1..Len(grants)
  BY DEF LedgerTypeOK
<1>2. \A g \in Granted : grants[g] \in CreditGrant
  BY DEF LedgerTypeOK, Granted
<1>3. Granted \subseteq GrantIds
  BY <1>1, BoundsAssumption DEF LedgerTypeOK, Granted, GrantIds
<1> QED  BY <1>1, <1>2, <1>3 DEF CreditGrant

----------------------------------------------------------------------------
(* indexOf finds every bucket. *)
LEMMA SpendRankType == \A b \in Buckets : SpendRank(b) \in 1..4
<1> SUFFICES ASSUME NEW b \in Buckets PROVE SpendRank(b) \in 1..4
    OBVIOUS
<1>1. \E k \in 1..4 : SPEND_ORDER[k] = b
  <2>1. SPEND_ORDER[1] = "rollover" /\ SPEND_ORDER[2] = "plan"
        /\ SPEND_ORDER[3] = "topup" /\ SPEND_ORDER[4] = "reward"
    BY DEF SPEND_ORDER
  <2>2. 1 \in 1..4 /\ 2 \in 1..4 /\ 3 \in 1..4 /\ 4 \in 1..4
    OBVIOUS
  <2> QED  BY <2>1, <2>2 DEF Buckets
<1> QED  BY <1>1 DEF SpendRank

(* The order the loop drains the grants in, as a set of pairs. *)
DrainOrder(gs, live) == {p \in live \X live : DrainsBefore(gs, p[1], p[2])}

(* Grants that may be drained: ids, with buckets there is a rank for. *)
Drainable(gs, live) ==
    /\ IsFiniteSet(live) /\ live \subseteq Nat
    /\ \A g \in live : gs[g].bucket \in Buckets

(* The drain order has no ties. *)
LEMMA DrainOrderIsTotal ==
    ASSUME NEW gs, NEW live, Drainable(gs, live)
    PROVE  InOrder(DrainOrder(gs, live), live)
<1>1. \A g \in live : SpendRank(gs[g].bucket) \in Int /\ g \in Int
  BY SpendRankType DEF Drainable
<1> QED  BY <1>1 DEF InOrder, DrainOrder, DrainsBefore

(* What is outstanding when the loop reaches g. *)
DueAt(gs, live, remaining, cost, g) ==
    Greater(0, cost - SumFunctionOnSet(remaining, Preceding(DrainOrder(gs, live), live, g)))

(* The grant the loop has just left when it reaches g. *)
Previous(gs, live, g) ==
    CHOOSE h \in {k \in live : DrainsBefore(gs, k, g)} :
        \A k \in {j \in live : DrainsBefore(gs, j, g)} : k = h \/ DrainsBefore(gs, k, h)

(* The grant drained just before g, and what precedes it. *)
LEMMA PreviousPrecedes ==
    ASSUME NEW gs, NEW live, Drainable(gs, live), NEW g \in live,
           {k \in live : DrainsBefore(gs, k, g)} # {}
    PROVE  LET h == Previous(gs, live, g)
               R == DrainOrder(gs, live)
           IN  /\ h \in Preceding(R, live, g)
               /\ Preceding(R, live, h) = Preceding(R, live, g) \ {h}
<1> DEFINE R == DrainOrder(gs, live)
           E == {k \in live : DrainsBefore(gs, k, g)}
           Latest(h) == \A k \in E : k = h \/ DrainsBefore(gs, k, h)
<1>1. InOrder(R, live) /\ IsFiniteSet(live)
  BY DrainOrderIsTotal DEF Drainable
<1>2. E = Preceding(R, live, g)
  BY DEF Preceding, DrainOrder
<1>3. \E h \in E : Latest(h)
  <2>1. Preceding(R, live, g) # {}
    BY <1>2
  <2> HIDE DEF R, E
  <2>2. PICK h \in Preceding(R, live, g) : \A k \in Preceding(R, live, g) : k = h \/ <<k, h>> \in R
    BY <1>1, <2>1, JustBefore
  <2> QED  BY <1>2, <2>2 DEF R, DrainOrder
<1>4. Previous(gs, live, g) \in E /\ Latest(Previous(gs, live, g))
  BY <1>3 DEF Previous
<1> DEFINE h == Previous(gs, live, g)
<1>5. h \in E /\ Latest(h)
  BY <1>4
<1> HIDE DEF h
<1>6. h \in Preceding(R, live, g) /\ \A k \in Preceding(R, live, g) : k = h \/ <<k, h>> \in R
  BY <1>2, <1>5 DEF DrainOrder, Preceding
<1>7. Preceding(R, live, h) = Preceding(R, live, g) \ {h}
  <2> HIDE DEF R, E
  <2> QED  BY <1>1, <1>6 DEF Preceding, InOrder
<1> QED  BY <1>6, <1>7 DEF h

(* The equations of planAllocations, for one function of the grants. *)
PlanLoops(gs, live, remaining, cost, o) ==
    \A g \in live :
        o[g] = IF {k \in live : DrainsBefore(gs, k, g)} = {} THEN cost
               ELSE o[Previous(gs, live, g)]
                      - Take(o[Previous(gs, live, g)], remaining[Previous(gs, live, g)])

(* planAllocations, by the names above. *)
LEMMA PlanIsLoops ==
    ASSUME NEW gs, NEW live, NEW remaining, NEW cost
    PROVE  planAllocations(gs, live, remaining, cost)
             = { [g \in live |-> Take(o[g], remaining[g])] :
                   o \in {p \in [live -> 0..cost] : PlanLoops(gs, live, remaining, cost, p)} }
  BY Zenon DEF planAllocations, PlanLoops, Previous

(* One step of the loop: what is due after h is what was due before it, less
   what h holds. *)
LEMMA DueStep ==
    ASSUME NEW gs, NEW live, Drainable(gs, live), NEW remaining \in [live -> Nat],
           NEW cost \in Nat, NEW g \in live
    PROVE  LET h == Previous(gs, live, g)
               Due(k) == DueAt(gs, live, remaining, cost, k)
           IN  /\ Due(g) \in 0..cost
               /\ {k \in live : DrainsBefore(gs, k, g)} = {} => Due(g) = cost
               /\ {k \in live : DrainsBefore(gs, k, g)} # {} =>
                    /\ h \in live /\ <<h, g>> \in DrainOrder(gs, live)
                    /\ Due(g) = Due(h) - Take(Due(h), remaining[h])
<1> DEFINE R == DrainOrder(gs, live)
           h == Previous(gs, live, g)
           Sum(s) == SumFunctionOnSet(remaining, s)
<1>0. {k \in live : DrainsBefore(gs, k, g)} = Preceding(R, live, g)
  BY DEF Preceding, DrainOrder
<1>1. ASSUME NEW k \in live
      PROVE  Sum(Preceding(R, live, k)) \in Nat /\ IsFiniteSet(Preceding(R, live, k))
  <2>1. IsFiniteSet(Preceding(R, live, k)) /\ \A x \in Preceding(R, live, k) : remaining[x] \in Nat
    BY FS_Subset DEF Preceding, Drainable
  <2> QED  BY <2>1, SumIsNat
<1>2. DueAt(gs, live, remaining, cost, g) \in 0..cost
  BY <1>1 DEF DueAt, Greater
<1>3. CASE Preceding(R, live, g) = {}
  <2>1. Sum(Preceding(R, live, g)) = 0
    BY <1>3, SumOfNone
  <2>2. DueAt(gs, live, remaining, cost, g) = cost
    BY <2>1 DEF DueAt, Greater
  <2> QED  BY <1>0, <1>2, <1>3, <2>2
<1>4. CASE Preceding(R, live, g) # {}
  <2>1. h \in Preceding(R, live, g) /\ Preceding(R, live, h) = Preceding(R, live, g) \ {h}
    BY <1>0, <1>4, PreviousPrecedes
  <2>2. h \in live /\ <<h, g>> \in R
    BY <2>1 DEF Preceding
  <2> HIDE DEF h
  <2>3. Sum(Preceding(R, live, g)) = remaining[h] + Sum(Preceding(R, live, h))
    <3>1. IsFiniteSet(Preceding(R, live, g)) /\ \A x \in Preceding(R, live, g) : remaining[x] \in Int
      BY <1>1 DEF Preceding
    <3> HIDE DEF R
    <3> QED  BY <2>1, <3>1, SumWithout
  <2>4. Sum(Preceding(R, live, h)) \in Nat /\ remaining[h] \in Nat
    BY <1>1, <2>2
  <2>5. DueAt(gs, live, remaining, cost, g)
          = DueAt(gs, live, remaining, cost, h)
              - Take(DueAt(gs, live, remaining, cost, h), remaining[h])
    <3> HIDE DEF Sum
    <3>1. DueAt(gs, live, remaining, cost, g) = Greater(0, cost - Sum(Preceding(R, live, g)))
          /\ DueAt(gs, live, remaining, cost, h) = Greater(0, cost - Sum(Preceding(R, live, h)))
      BY DEF DueAt, Sum
    <3> HIDE DEF R
    <3> QED  BY <2>3, <2>4, <3>1 DEF Greater, Take, Lesser
  <2> QED  BY <1>0, <1>2, <1>4, <2>2, <2>5 DEF h
<1> QED  BY <1>3, <1>4

(* Exactly one function satisfies the equations: what is due at each grant. *)
LEMMA PlanIsDue ==
    ASSUME NEW gs, NEW live, Drainable(gs, live), NEW remaining \in [live -> Nat], NEW cost \in Nat
    PROVE  planAllocations(gs, live, remaining, cost)
             = {[g \in live |-> Take(DueAt(gs, live, remaining, cost, g), remaining[g])]}
<1> DEFINE Due(g) == DueAt(gs, live, remaining, cost, g)
           R == DrainOrder(gs, live)
           d == [g \in live |-> Due(g)]
<1>1. d \in [live -> 0..cost] /\ PlanLoops(gs, live, remaining, cost, d)
  <2> SUFFICES ASSUME NEW g \in live
               PROVE  /\ Due(g) \in 0..cost
                      /\ d[g] = IF {k \in live : DrainsBefore(gs, k, g)} = {} THEN cost
                                ELSE d[Previous(gs, live, g)]
                                       - Take(d[Previous(gs, live, g)], remaining[Previous(gs, live, g)])
    BY DEF PlanLoops
  <2> HIDE DEF Due
  <2>1. d[g] = Due(g) /\ \A h \in live : d[h] = Due(h)
    OBVIOUS
  <2> DEFINE h == Previous(gs, live, g)
             E == {k \in live : DrainsBefore(gs, k, g)}
  <2>2. /\ Due(g) \in 0..cost
        /\ E = {} => Due(g) = cost
        /\ E # {} => /\ h \in live /\ <<h, g>> \in R
                     /\ Due(g) = Due(h) - Take(Due(h), remaining[h])
    <3> HIDE DEF d
    <3> QED  BY DueStep DEF Due, R
  <2> HIDE DEF h, E, d
  <2>3. d[g] = IF E = {} THEN cost ELSE d[h] - Take(d[h], remaining[h])
    BY <2>1, <2>2
  <2> QED  BY <2>2, <2>3 DEF h, E
<1>2. ASSUME NEW o, PlanLoops(gs, live, remaining, cost, o)  PROVE \A g \in live : o[g] = Due(g)
  <2> DEFINE P == {s \in SUBSET live : ClosedDown(R, live, s) => \A g \in s : o[g] = Due(g)}
  <2>0. InOrder(R, live) /\ IsFiniteSet(live)
    BY DrainOrderIsTotal DEF Drainable
  <2>1. ASSUME NEW s \in SUBSET live, \A x \in s : s \ {x} \in P  PROVE s \in P
    <3> SUFFICES ASSUME ClosedDown(R, live, s), s # {}  PROVE \A g \in s : o[g] = Due(g)
      OBVIOUS
    <3> HIDE DEF R, Due
    <3>1. PICK m \in s : Preceding(R, live, m) = s \ {m} /\ ClosedDown(R, live, s \ {m})
      BY <2>0, LastOfPart
    <3>2. \A g \in s \ {m} : o[g] = Due(g)
      BY <2>1, <3>1
    <3> DEFINE h == Previous(gs, live, m)
               E == {k \in live : DrainsBefore(gs, k, m)}
    <3>3. o[m] = IF E = {} THEN cost ELSE o[h] - Take(o[h], remaining[h])
      BY <1>2 DEF PlanLoops
    <3>4. /\ E = {} => Due(m) = cost
          /\ E # {} => h \in live /\ <<h, m>> \in R /\ Due(m) = Due(h) - Take(Due(h), remaining[h])
      BY DueStep DEF Due, R
    <3> HIDE DEF h, E
    <3>5. E # {} => h \in s \ {m}
      BY <3>1, <3>4 DEF Preceding
    <3>6. o[m] = Due(m)
      BY <3>2, <3>3, <3>4, <3>5
    <3> QED  BY <3>2, <3>6
  <2>2. live \in P
    <3> HIDE DEF P
    <3> QED  BY <2>0, <2>1, SubsetsUp
  <2>3. ClosedDown(R, live, live)
    BY DEF ClosedDown, Preceding
  <2> QED  BY <2>2, <2>3
<1> DEFINE Plan(o) == [g \in live |-> Take(o[g], remaining[g])]
           Os == {p \in [live -> 0..cost] : PlanLoops(gs, live, remaining, cost, p)}
<1>3. \A o \in Os : o = d
  BY <1>2
<1>4. d \in Os
  BY <1>1
<1>5. planAllocations(gs, live, remaining, cost) = {Plan(o) : o \in Os}
  BY PlanIsLoops
<1>6. Plan(d) = [g \in live |-> Take(Due(g), remaining[g])]
  OBVIOUS
<1>7. {Plan(o) : o \in Os} = {Plan(d)}
  <2> HIDE DEF Plan, Os, d
  <2> QED  BY <1>3, <1>4
<1> QED  BY <1>5, <1>6, <1>7

(* The plan, known by what each grant pays. *)
LEMMA PlanIsUnique ==
    ASSUME NEW gs, NEW live, Drainable(gs, live), NEW remaining \in [live -> Nat], NEW cost \in Nat,
           NEW paid \in [live -> Nat],
           \A g \in live : paid[g] = Take(DueAt(gs, live, remaining, cost, g), remaining[g])
    PROVE  planAllocations(gs, live, remaining, cost) = {paid}
<1> DEFINE plan == [g \in live |-> Take(DueAt(gs, live, remaining, cost, g), remaining[g])]
<1>1. planAllocations(gs, live, remaining, cost) = {plan}
  BY PlanIsDue
<1>2. paid = plan
  OBVIOUS
<1> HIDE DEF plan
<1> QED  BY <1>1, <1>2

(* planAllocations pays the charge, or all there is to pay it with. *)
LEMMA PlanPays ==
    ASSUME NEW gs, NEW live, Drainable(gs, live), NEW remaining \in [live -> Nat],
           NEW cost \in Nat, NEW paid \in planAllocations(gs, live, remaining, cost)
    PROVE  SumFunction(paid) = Lesser(cost, SumFunction(remaining))
<1> DEFINE R == DrainOrder(gs, live)
<1>1. InOrder(R, live) /\ IsFiniteSet(live) /\ DOMAIN remaining = live
      /\ \A g \in live : remaining[g] \in Nat
  BY DrainOrderIsTotal DEF Drainable
<1>2. paid = [g \in live |-> Take(DueAt(gs, live, remaining, cost, g), remaining[g])]
  BY PlanIsDue
<1>3. ASSUME NEW g \in live
      PROVE  LET left == cost - SumFunctionOnSet(remaining, Preceding(R, live, g))
             IN  paid[g] = IF left <= 0 THEN 0 ELSE IF left < remaining[g] THEN left ELSE remaining[g]
  <2> DEFINE left == cost - SumFunctionOnSet(remaining, Preceding(R, live, g))
  <2>1. SumFunctionOnSet(remaining, Preceding(R, live, g)) \in Nat
    <3>1. IsFiniteSet(Preceding(R, live, g)) /\ \A x \in Preceding(R, live, g) : remaining[x] \in Nat
      BY <1>1, FS_Subset DEF Preceding
    <3> QED  BY <3>1, SumIsNat
  <2>2. paid[g] = Take(Greater(0, left), remaining[g]) /\ left \in Int /\ remaining[g] \in Nat
    BY <1>1, <1>2, <2>1 DEF DueAt
  <2> HIDE DEF left
  <2>3. paid[g] = IF left <= 0 THEN 0 ELSE IF left < remaining[g] THEN left ELSE remaining[g]
    BY <2>2 DEF Take, Greater, Lesser
  <2> QED  BY <2>3 DEF left
<1>4. DOMAIN paid = live
  BY <1>2
<1> HIDE DEF R
<1>5. SumFunctionOnSet(paid, live) = IF cost <= SumFunctionOnSet(remaining, live) THEN cost
                                     ELSE SumFunctionOnSet(remaining, live)
  BY <1>1, <1>3, TakenInOrder
<1> QED  BY <1>1, <1>4, <1>5 DEF SumFunction, Lesser

----------------------------------------------------------------------------
LEMMA InitLedgerInv == LedgerInit => LedgerInv
<1> SUFFICES ASSUME LedgerInit PROVE LedgerInv
    OBVIOUS
<1> USE DEF LedgerInit
<1>1. Len(grants) = 0 /\ Granted = {} /\ grants \in Seq(CreditGrant)
  BY DEF Granted
<1>2. IsRows(NoRows) /\ DOMAIN NoRows = {}
  BY DEF IsRows, NoRows
<1>3. LedgerTypeOK
  <2>1. now \in 1..MaxTime /\ Len(grants) <= MaxGrants
    BY <1>1, BoundsAssumption
  <2>2. \A r \in Runs : IsRunState(run[r]) /\ IsRows(allocated[r])
    BY <1>2 DEF IsRunState, PCs, Ended
  <2> QED  BY <1>1, <2>1, <2>2 DEF LedgerTypeOK
<1>4. SnapshotsNameGrants /\ SnapshotsWereLive
  BY <1>2 DEF SnapshotsNameGrants, SnapshotsWereLive
<1>5. UngrantedIsUnspent /\ OverdrawNeedsOvertaking
  BY <1>1 DEF UngrantedIsUnspent, OverdrawNeedsOvertaking, NoOverdraw
<1> QED  BY <1>3, <1>4, <1>5 DEF LedgerInv

(* A step that only moves a run's program counter, and not to "planned". *)
LEMMA GotoLedgerInv ==
    ASSUME LedgerInv, NEW r \in Runs, NEW pc \in PCs \ {"planned"},
           run' = [run EXCEPT ![r].pc = pc], charge' \in [Runs -> Nat],
           UNCHANGED <<now, grants, spent, allocated, overtaken>>
    PROVE  LedgerInv'
<1> USE DEF LedgerInv
<1>1. \A s \in Runs : IsRunState(run[s])
  BY DEF LedgerTypeOK
<1>2. \A s \in Runs : /\ run'[s].live = run[s].live /\ run'[s].readAt = run[s].readAt
                      /\ run'[s] = [pc |-> run'[s].pc, live |-> run[s].live,
                                    readAt |-> run[s].readAt]
                      /\ run'[s].pc \in {run[s].pc, pc} /\ (s = r => run'[s].pc = pc)
                      /\ (s # r => run'[s] = run[s])
  BY <1>1 DEF LedgerTypeOK, IsRunState
<1>3. LedgerTypeOK'
  <2>1. \A s \in Runs : IsRunState(run'[s])
    BY <1>1, <1>2 DEF IsRunState
  <2> QED  BY <2>1 DEF LedgerTypeOK
<1>4. SnapshotsNameGrants' /\ SnapshotsWereLive'
  BY <1>2 DEF SnapshotsNameGrants, SnapshotsWereLive, Granted
<1>5. UngrantedIsUnspent' /\ OverdrawNeedsOvertaking'
  BY DEF UngrantedIsUnspent, OverdrawNeedsOvertaking, NoOverdraw, Granted
<1> QED  BY <1>3, <1>4, <1>5

LEMMA ReadLedgerInv ==
    ASSUME LedgerInv, NEW r \in Runs, ReadLiveGrants(r)
    PROVE  LedgerInv'
<1> DEFINE ids == {g \in Granted : Spendable(g)}
<1> USE DEF LedgerInv
<1>1. /\ run' = [run EXCEPT ![r] = [pc     |-> IF ids = {} THEN "over" ELSE "planned",
                                    live   |-> [g \in ids |-> Remaining(g)],
                                    readAt |-> now]]
      /\ UNCHANGED <<now, grants, spent, allocated, charge, overtaken>>
  BY DEF ReadLiveGrants
<1>2. /\ Len(grants) \in Nat /\ Granted \subseteq GrantIds
      /\ \A g \in Granted : grants[g].credits \in Nat /\ grants[g].expiresAt \in Nat
  BY GrantRowFields
<1>3. \A g \in ids : Remaining(g) \in Nat /\ g \in Granted /\ g \in GrantIds
  BY <1>2 DEF Spendable, Remaining, LedgerTypeOK
<1>4. \A g \in ids : grants[g].expiresAt = Never \/ grants[g].expiresAt > now
  BY DEF Spendable, IsLive
<1> HIDE DEF ids
<1>5. IsRows([g \in ids |-> Remaining(g)])
  BY <1>3 DEF IsRows
<1>6. /\ run'[r].live = [g \in ids |-> Remaining(g)] /\ run'[r].readAt = now
      /\ run'[r].pc \in {"over", "planned"}
      /\ run'[r] = [pc |-> run'[r].pc, live |-> run'[r].live, readAt |-> run'[r].readAt]
      /\ \A s \in Runs : s # r => run'[s] = run[s]
  BY <1>1 DEF LedgerTypeOK
<1>7. LedgerTypeOK'
  <2>1. IsRunState(run'[r])
    BY <1>5, <1>6 DEF IsRunState, PCs, Ended, LedgerTypeOK
  <2>2. \A s \in Runs : IsRunState(run'[s])
    BY <1>6, <2>1 DEF LedgerTypeOK
  <2> QED  BY <1>1, <2>2 DEF LedgerTypeOK
<1>8. SnapshotsNameGrants' /\ SnapshotsWereLive'
  BY <1>1, <1>3, <1>4, <1>6 DEF SnapshotsNameGrants, SnapshotsWereLive, Granted
<1>9. UngrantedIsUnspent' /\ OverdrawNeedsOvertaking'
  BY <1>1 DEF UngrantedIsUnspent, OverdrawNeedsOvertaking, NoOverdraw, Granted
<1> QED  BY <1>7, <1>8, <1>9

LEMMA SaveLedgerInv ==
    ASSUME LedgerInv, NEW r \in Runs, SaveAllocations(r)
    PROVE  LedgerInv'
<1> DEFINE live == run[r].live
<1> USE DEF LedgerInv
<1>1. IsRows(live) /\ live \in [DOMAIN live -> Nat] /\ charge[r] \in Nat
      /\ DOMAIN live \subseteq Granted
  BY DEF LedgerTypeOK, IsRunState, IsRows, SnapshotsNameGrants
<1>2. PICK take \in planAllocations(grants, DOMAIN live, live, charge[r]) :
         /\ allocated' = [allocated EXCEPT ![r] = take]
         /\ spent' = [g \in GrantIds |-> IF g \in DOMAIN take THEN spent[g] + take[g]
                                                              ELSE spent[g]]
  BY DEF SaveAllocations
<1>3. /\ run' = [run EXCEPT ![r].pc = "over"] /\ overtaken' = (overtaken \/ OutOfDate(r))
      /\ UNCHANGED <<now, grants, charge>>
  BY DEF SaveAllocations, Goto
<1>4. /\ DOMAIN take = DOMAIN live /\ take \in [DOMAIN live -> Nat]
      /\ \A g \in DOMAIN live : take[g] <= live[g]
  BY <1>1, PlanTakes
<1>5. /\ Len(grants) \in Nat /\ Granted \subseteq GrantIds
      /\ \A g \in Granted : grants[g].credits \in Nat
  BY GrantRowFields
<1>6. \A s \in Runs : IsRunState(run[s])
  BY DEF LedgerTypeOK
<1>7. \A s \in Runs : /\ run'[s].live = run[s].live /\ run'[s].readAt = run[s].readAt
                      /\ run'[s] = [pc |-> run'[s].pc, live |-> run[s].live,
                                    readAt |-> run[s].readAt]
                      /\ (s = r => run'[s].pc = "over") /\ (s # r => run'[s] = run[s])
  <2> SUFFICES ASSUME NEW s \in Runs
               PROVE  /\ run'[s].live = run[s].live /\ run'[s].readAt = run[s].readAt
                      /\ run'[s] = [pc |-> run'[s].pc, live |-> run[s].live,
                                    readAt |-> run[s].readAt]
                      /\ (s = r => run'[s].pc = "over") /\ (s # r => run'[s] = run[s])
    OBVIOUS
  <2>1. run[s] = [pc |-> run[s].pc, live |-> run[s].live, readAt |-> run[s].readAt]
    BY <1>6 DEF IsRunState
  <2>2. DOMAIN run = Runs
    BY DEF LedgerTypeOK
  <2>3. CASE s = r
    <3>1. run'[s] = [run[s] EXCEPT !.pc = "over"]
      BY <1>3, <2>2, <2>3
    <3> QED  BY <2>1, <2>3, <3>1
  <2>4. CASE s # r
    <3>1. run'[s] = run[s]
      BY <1>3, <2>2, <2>4
    <3> QED  BY <2>1, <2>4, <3>1
  <2> QED  BY <2>3, <2>4
<1>8. IsRows(take)
  BY <1>1, <1>4, <1>5 DEF IsRows
<1> HIDE DEF live
<1>9. LedgerTypeOK'
  <2>1. spent' \in [GrantIds -> Nat]
    BY <1>2, <1>4 DEF LedgerTypeOK
  <2>2. DOMAIN allocated' = Runs /\ \A s \in Runs : IsRows(allocated'[s])
    BY <1>2, <1>8 DEF LedgerTypeOK
  <2>3. \A s \in Runs : IsRunState(run'[s])
    BY <1>6, <1>7 DEF IsRunState, PCs, Ended
  <2>4. overtaken' \in BOOLEAN
    BY <1>3 DEF LedgerTypeOK
  <2> QED  BY <1>3, <2>1, <2>2, <2>3, <2>4 DEF LedgerTypeOK
<1>10. SnapshotsNameGrants' /\ SnapshotsWereLive'
  BY <1>3, <1>7 DEF SnapshotsNameGrants, SnapshotsWereLive, Granted
<1>11. UngrantedIsUnspent'
  <2>1. \A g \in GrantIds : g > Len(grants) => g \notin DOMAIN live
    BY <1>1, <1>5 DEF Granted
  <2> QED  BY <1>2, <1>3, <1>4, <2>1 DEF UngrantedIsUnspent
<1>12. OverdrawNeedsOvertaking'
  <2> SUFFICES ASSUME ~overtaken, ~OutOfDate(r), NEW g \in Granted
               PROVE  spent'[g] <= grants[g].credits
      BY <1>3 DEF OverdrawNeedsOvertaking, NoOverdraw, Granted
  <2>1. spent[g] <= grants[g].credits /\ spent[g] \in Nat /\ grants[g].credits \in Nat
    BY <1>5 DEF OverdrawNeedsOvertaking, NoOverdraw, LedgerTypeOK
  <2>2. CASE g \in DOMAIN live
    <3>1. live[g] = grants[g].credits - spent[g]
      BY <2>2 DEF OutOfDate, Remaining, live
    <3>2. spent'[g] = spent[g] + take[g] /\ take[g] \in Nat /\ take[g] <= live[g]
      BY <1>2, <1>4, <1>5, <2>2
    <3> QED  BY <2>1, <3>1, <3>2
  <2>3. CASE g \notin DOMAIN live
    BY <1>2, <1>4, <1>5, <2>1, <2>3
  <2> QED  BY <2>2, <2>3
<1> QED  BY <1>9, <1>10, <1>11, <1>12

(* Inserting grants, alone or several in a transaction. *)
LEMMA InsertLedgerInv ==
    ASSUME LedgerInv, NEW rows \in Seq(CreditGrant), InsertGrants(rows),
           UNCHANGED <<now, spent, allocated, charge, run, overtaken>>
    PROVE  LedgerInv'
<1> USE DEF LedgerInv
<1>1. grants' = grants \o rows /\ Len(grants) + Len(rows) <= MaxGrants
  BY DEF InsertGrants
<1>2. /\ grants' \in Seq(CreditGrant) /\ Len(grants') = Len(grants) + Len(rows)
      /\ Len(grants) \in Nat /\ Len(rows) \in Nat
      /\ \A g \in 1..Len(grants) : grants'[g] = grants[g]
  BY <1>1 DEF LedgerTypeOK
<1>3. Granted \subseteq Granted' /\ \A g \in Granted : grants'[g] = grants[g]
  BY <1>2 DEF Granted
<1>4. LedgerTypeOK'
  BY <1>1, <1>2 DEF LedgerTypeOK
<1>5. SnapshotsNameGrants' /\ SnapshotsWereLive'
  BY <1>3 DEF SnapshotsNameGrants, SnapshotsWereLive
<1>6. UngrantedIsUnspent'
  BY <1>2 DEF UngrantedIsUnspent, GrantIds
<1>7. OverdrawNeedsOvertaking'
  <2> SUFFICES ASSUME ~overtaken, NEW g \in Granted' PROVE spent[g] <= grants'[g].credits
      BY DEF OverdrawNeedsOvertaking, NoOverdraw
  <2>1. g \in GrantIds /\ grants'[g].credits \in Nat
    <3>1. g \in 1..Len(grants') /\ Len(grants') <= MaxGrants /\ Len(grants') \in Nat
      BY <1>2, <1>4 DEF Granted, LedgerTypeOK
    <3>2. grants'[g] \in CreditGrant
      BY <1>2, <3>1
    <3> QED  BY <3>1, <3>2, BoundsAssumption DEF CreditGrant, GrantIds
  <2>2. CASE g \in Granted
    BY <1>3, <2>2 DEF OverdrawNeedsOvertaking, NoOverdraw
  <2>3. CASE g \notin Granted
    BY <1>2, <2>1, <2>3 DEF UngrantedIsUnspent, Granted, GrantIds
  <2> QED  BY <2>2, <2>3
<1> QED  BY <1>4, <1>5, <1>6, <1>7

LEMMA TickLedgerInv ==
    ASSUME LedgerInv, Tick
    PROVE  LedgerInv'
<1> USE DEF LedgerInv, Tick
<1>1. now' \in 1..MaxTime
  BY BoundsAssumption DEF LedgerTypeOK
<1>2. LedgerTypeOK'
  BY <1>1 DEF LedgerTypeOK
<1> QED  BY <1>2 DEF SnapshotsNameGrants, SnapshotsWereLive, UngrantedIsUnspent,
                     OverdrawNeedsOvertaking, NoOverdraw, Granted

LEMMA RunStepLedgerInv ==
    ASSUME LedgerInv, NEW r \in Runs, RunStep(r)
    PROVE  LedgerInv'
<1>1. charge \in [Runs -> Nat]
  BY DEF LedgerInv, LedgerTypeOK
<1>2. {"admitted", "metered", "over", "lost"} \subseteq PCs \ {"planned"}
  BY DEF PCs, Ended
<1>3. CASE Admit(r)
  BY <1>1, <1>2, <1>3, GotoLedgerInv DEF Admit, Goto
<1>4. CASE Refuse(r)
  BY <1>1, <1>2, <1>4, GotoLedgerInv DEF Refuse, Goto
<1>5. CASE EndUnmetered(r)
  BY <1>1, <1>2, <1>5, GotoLedgerInv DEF EndUnmetered, Goto
<1>6. CASE RecordEvent(r)
  <2>1. charge' \in [Runs -> Nat]
    BY <1>1, <1>6, CostsAssumption DEF RecordEvent
  <2> QED  BY <1>2, <1>6, <2>1, GotoLedgerInv DEF RecordEvent, Goto
<1>7. CASE LoseRun(r)
  BY <1>1, <1>2, <1>7, GotoLedgerInv DEF LoseRun, Goto
<1> QED  BY <1>3, <1>4, <1>5, <1>6, <1>7, ReadLedgerInv, SaveLedgerInv DEF RunStep

LEMMA NextLedgerInv == LedgerInv /\ [LedgerNext]_ledgerVars => LedgerInv'
<1> SUFFICES ASSUME LedgerInv, [LedgerNext]_ledgerVars PROVE LedgerInv'
    OBVIOUS
<1>1. CASE \E r \in Runs : RunStep(r)
  BY <1>1, RunStepLedgerInv
<1>2. CASE GrantCredits
  <2>1. PICK row \in NewGrants : InsertGrants(<<row>>)
    BY <1>2 DEF GrantCredits
  <2>2. <<row>> \in Seq(CreditGrant)
    BY NewGrantsAssumption
  <2> QED  BY <1>2, <2>1, <2>2, InsertLedgerInv DEF GrantCredits
<1>3. CASE Tick
  BY <1>3, TickLedgerInv
<1>4. CASE UNCHANGED ledgerVars
  BY <1>4 DEF ledgerVars, LedgerInv, LedgerTypeOK, SnapshotsNameGrants, SnapshotsWereLive,
              UngrantedIsUnspent, OverdrawNeedsOvertaking, NoOverdraw, Granted
<1> QED  BY <1>1, <1>2, <1>3, <1>4 DEF LedgerNext

THEOREM LedgerInvariant == LedgerSpec => []LedgerInv
  BY InitLedgerInv, NextLedgerInv, PTL DEF LedgerSpec

----------------------------------------------------------------------------
(* The tables and the runs' snapshots keep their types: in particular no
   allocation ever makes a spent total negative. *)
THEOREM LedgerTypes == LedgerSpec => []LedgerTypeOK
<1>1. LedgerInv => LedgerTypeOK
  BY DEF LedgerInv
<1> QED  BY <1>1, LedgerInvariant, PTL

(* recordEvent overdraws a grant only when the read of liveGrantsForSpending
   was out of date by the time its plan was saved. *)
THEOREM LedgerOverdraw == LedgerSpec => []OverdrawNeedsOvertaking
<1>1. LedgerInv => OverdrawNeedsOvertaking
  BY DEF LedgerInv
<1> QED  BY <1>1, LedgerInvariant, PTL

(* Only a save of allocations spends, and only from grants that had not
   expired when the run read them. *)
LEMMA StepSpendsLiveCredits ==
    ASSUME LedgerInv, [LedgerNext]_ledgerVars, NEW g \in Granted, spent'[g] > spent[g]
    PROVE  \E r \in Runs : /\ run[r].pc = "planned" /\ run'[r].pc = "over"
                           /\ \/ grants[g].expiresAt = Never
                              \/ grants[g].expiresAt > run[r].readAt
<1>1. spent[g] \in Nat /\ g \in GrantIds
  BY GrantRowFields DEF LedgerInv, LedgerTypeOK
<1>2. spent' # spent
  BY <1>1
<1>3. PICK r \in Runs : SaveAllocations(r)
  BY <1>2 DEF LedgerNext, RunStep, ledgerVars, Admit, Refuse, EndUnmetered, RecordEvent,
              ReadLiveGrants, LoseRun, GrantCredits, Tick
<1>4. run[r].pc = "planned" /\ run' = [run EXCEPT ![r].pc = "over"]
  BY <1>3 DEF SaveAllocations, Goto
<1>5. run'[r].pc = "over"
  <2>1. run[r] = [pc |-> run[r].pc, live |-> run[r].live, readAt |-> run[r].readAt]
        /\ DOMAIN run = Runs
    BY DEF LedgerInv, LedgerTypeOK, IsRunState
  <2> QED  BY <1>4, <2>1
<1>6. g \in DOMAIN run[r].live
  <2> DEFINE live == run[r].live
  <2>1. live \in [DOMAIN live -> Nat] /\ charge[r] \in Nat
    BY DEF LedgerInv, LedgerTypeOK, IsRunState, IsRows
  <2>2. PICK take \in planAllocations(grants, DOMAIN live, live, charge[r]) :
           spent' = [h \in GrantIds |-> IF h \in DOMAIN take THEN spent[h] + take[h]
                                                              ELSE spent[h]]
    BY <1>3 DEF SaveAllocations
  <2> HIDE DEF live
  <2>3. DOMAIN take = DOMAIN live
    BY <2>1, PlanTakes
  <2>4. g \in DOMAIN live
    BY <1>1, <2>2, <2>3
  <2> QED  BY <2>4 DEF live
<1> QED  BY <1>4, <1>5, <1>6 DEF LedgerInv, SnapshotsWereLive

(* Expired credits are never drawn, in any interleaving of runs and clock. *)
THEOREM LedgerExpiry == LedgerSpec => ExpiredCreditsStayUnspent
<1>1. LedgerInv /\ [LedgerNext]_ledgerVars =>
        [\A g \in Granted : spent'[g] > spent[g] =>
           \E r \in Runs : /\ run[r].pc = "planned" /\ run'[r].pc = "over"
                           /\ \/ grants[g].expiresAt = Never
                              \/ grants[g].expiresAt > run[r].readAt]_ledgerVars
  BY StepSpendsLiveCredits
<1> QED  BY <1>1, LedgerInvariant, PTL DEF LedgerSpec, ExpiredCreditsStayUnspent

----------------------------------------------------------------------------
(* What a run has paid: nothing before it saves its allocations, and then
   its charge, or all it saw. *)
RunPaid(r) ==
    /\ run[r].pc \in {"idle", "admitted"} => charge[r] = 0
    /\ run[r].pc \in {"metered", "planned"} => charge[r] > 0
    /\ run[r].pc # "over" \/ charge[r] = 0 => allocated[r] = NoRows
    /\ run[r].pc = "over" /\ charge[r] > 0 =>
         SumFunction(allocated[r]) = Lesser(charge[r], SumFunction(run[r].live))

(* The rows the events have are the rows the grants are drawn down by. *)
DrawnIsSpent == Drawn = SumFunctionOnSet(spent, GrantIds)

LedgerSums == (\A r \in Runs : RunPaid(r)) /\ DrawnIsSpent

(* The tables are finite. *)
LEMMA GrantIdsFinite ==
    ASSUME LedgerTypeOK
    PROVE  IsFiniteSet(GrantIds) /\ IsFiniteSet(Granted) /\ Granted \subseteq GrantIds
           /\ DOMAIN grants = Granted
<1>1. Len(grants) \in Nat /\ MaxGrants \in Nat /\ DOMAIN grants = 1..Len(grants)
  BY BoundsAssumption DEF LedgerTypeOK
<1>2. IsFiniteSet(GrantIds) /\ IsFiniteSet(Granted)
  BY <1>1, FS_Interval DEF GrantIds, Granted
<1> QED  BY <1>1, <1>2, GrantRowFields DEF Granted

(* A run's rows add up to a natural number. *)
LEMMA RowsSum ==
    ASSUME NEW f, IsRows(f)
    PROVE  IsFiniteSet(DOMAIN f) /\ SumFunction(f) \in Nat
<1>1. MaxGrants \in Nat /\ DOMAIN f \subseteq GrantIds /\ \A g \in DOMAIN f : f[g] \in Nat
  BY BoundsAssumption DEF IsRows
<1>2. IsFiniteSet(DOMAIN f)
  <2>1. IsFiniteSet(GrantIds)
    BY <1>1, FS_Interval DEF GrantIds
  <2> QED  BY <1>1, <2>1, FS_Subset
<1>3. SumFunctionOnSet(f, DOMAIN f) \in Nat
  BY <1>1, <1>2, SumIsNat
<1> QED  BY <1>2, <1>3 DEF SumFunction

(* No rows add up to nothing. *)
LEMMA NoRowsSum == SumFunction(NoRows) = 0 /\ IsRows(NoRows)
<1>1. DOMAIN NoRows = {}
  BY DEF NoRows
<1>2. IsRows(NoRows)
  BY DEF NoRows, IsRows
<1> QED  BY <1>1, <1>2, SumOfNone DEF SumFunction

(* At the start nothing is charged, drawn or spent. *)
LEMMA InitLedgerSums == LedgerInit => LedgerSums
<1> SUFFICES ASSUME LedgerInit PROVE LedgerSums
    OBVIOUS
<1>1. ASSUME NEW r \in Runs  PROVE RunPaid(r)
  BY DEF LedgerInit, RunPaid
<1>2. DrawnIsSpent
  <2> DEFINE F == [r \in Runs |-> SumFunction(allocated[r])]
  <2>1. DOMAIN F = Runs /\ \A r \in Runs : F[r] = 0
    BY NoRowsSum DEF LedgerInit
  <2>2. SumFunctionOnSet(F, Runs) = 0
    <3> HIDE DEF F
    <3> QED  BY <2>1, RunsAssumption, SumOfZeros
  <2>3. SumFunctionOnSet(spent, GrantIds) = 0
    <3>1. IsFiniteSet(GrantIds)
      BY BoundsAssumption, FS_Interval DEF GrantIds
    <3>2. \A g \in GrantIds : spent[g] = 0
      BY DEF LedgerInit
    <3> QED  BY <3>1, <3>2, SumOfZeros
  <2>4. Drawn = SumFunctionOnSet(F, Runs)
    BY <2>1 DEF Drawn, SumFunction
  <2> QED  BY <2>2, <2>3, <2>4 DEF DrawnIsSpent
<1> QED  BY <1>1, <1>2 DEF LedgerSums

(* A step of one run that draws nothing. *)
LEMMA UndrawnLedgerSums ==
    ASSUME LedgerSums, NEW r \in Runs, UNCHANGED <<spent, allocated>>,
           \A s \in Runs \ {r} : run'[s] = run[s] /\ charge'[s] = charge[s],
           RunPaid(r)'
    PROVE  LedgerSums'
<1>1. \A s \in Runs : RunPaid(s)'
  <2> SUFFICES ASSUME NEW s \in Runs, s # r  PROVE RunPaid(s)'
    OBVIOUS
  <2>1. RunPaid(s) /\ run'[s] = run[s] /\ charge'[s] = charge[s] /\ allocated' = allocated
    BY DEF LedgerSums
  <2> QED  BY <2>1 DEF RunPaid
<1>2. DrawnIsSpent'
  BY DEF LedgerSums, DrawnIsSpent, Drawn
<1> QED  BY <1>1, <1>2 DEF LedgerSums

(* Saving the planned rows: the run's own rows and the grants' totals grow by
   the same amount. *)
LEMMA SaveLedgerSums ==
    ASSUME LedgerInv, LedgerSums, NEW r \in Runs, SaveAllocations(r)
    PROVE  LedgerSums'
<1> DEFINE live == run[r].live
<1>1. IsRows(live) /\ live \in [DOMAIN live -> Nat] /\ charge[r] \in Nat
      /\ DOMAIN live \subseteq Granted
  BY DEF LedgerInv, LedgerTypeOK, IsRunState, IsRows, SnapshotsNameGrants
<1>2. PICK paid \in planAllocations(grants, DOMAIN live, live, charge[r]) :
         /\ allocated' = [allocated EXCEPT ![r] = paid]
         /\ spent' = [g \in GrantIds |-> IF g \in DOMAIN paid THEN spent[g] + paid[g]
                                                              ELSE spent[g]]
  BY DEF SaveAllocations
<1>3. run[r].pc = "planned" /\ run' = [run EXCEPT ![r].pc = "over"] /\ charge' = charge
  BY DEF SaveAllocations, Goto
<1>4. /\ DOMAIN paid = DOMAIN live /\ paid \in [DOMAIN live -> Nat]
  <2> HIDE DEF live
  <2> QED  BY <1>1, <1>2, PlanTakes
<1>5. Drainable(grants, DOMAIN live)
  <2>1. IsFiniteSet(DOMAIN live)
    BY <1>1, RowsSum
  <2>2. \A g \in Granted : grants[g] \in CreditGrant
    BY DEF LedgerInv, LedgerTypeOK, Granted
  <2>3. \A g \in Granted : grants[g].bucket \in Buckets
    BY <2>2 DEF CreditGrant
  <2>4. Granted \subseteq Nat
    BY DEF Granted
  <2> QED  BY <1>1, <2>1, <2>3, <2>4 DEF Drainable
<1>6. SumFunction(paid) = Lesser(charge[r], SumFunction(live))
  <2> HIDE DEF live
  <2> QED  BY <1>1, <1>2, <1>5, PlanPays
<1>7. /\ run'[r].pc = "over" /\ run'[r].live = live
      /\ \A s \in Runs \ {r} : run'[s] = run[s]
  <2>1. DOMAIN run = Runs /\ run[r] = [pc |-> run[r].pc, live |-> run[r].live, readAt |-> run[r].readAt]
    BY DEF LedgerInv, LedgerTypeOK, IsRunState
  <2>2. run'[r] = [run[r] EXCEPT !.pc = "over"] /\ \A s \in Runs \ {r} : run'[s] = run[s]
    BY <1>3, <2>1
  <2> QED  BY <2>1, <2>2
<1>8. DOMAIN allocated = Runs /\ allocated[r] = NoRows /\ IsRows(paid)
      /\ \A s \in Runs : IsRows(allocated[s])
  BY <1>1, <1>3, <1>4 DEF LedgerSums, RunPaid, LedgerInv, LedgerTypeOK, IsRows
<1> HIDE DEF live
<1>9. \A s \in Runs : RunPaid(s)'
  <2> SUFFICES ASSUME NEW s \in Runs  PROVE RunPaid(s)'
    OBVIOUS
  <2>1. RunPaid(s) /\ charge' = charge
    BY <1>3 DEF LedgerSums
  <2>2. CASE s = r
    <3>1. allocated'[r] = paid /\ charge[r] > 0
      BY <1>2, <1>3, <1>8, <2>1, <2>2 DEF RunPaid
    <3> QED  BY <1>1, <1>6, <1>7, <2>1, <2>2, <3>1 DEF RunPaid
  <2>3. CASE s # r
    <3>1. allocated'[s] = allocated[s] /\ run'[s] = run[s]
      BY <1>2, <1>7, <1>8, <2>3
    <3> QED  BY <2>1, <3>1 DEF RunPaid
  <2> QED  BY <2>2, <2>3
<1>10. DrawnIsSpent'
  <2> DEFINE F == [s \in Runs |-> SumFunction(allocated[s])]
             G == [s \in Runs |-> SumFunction(allocated'[s])]
             P == [g \in GrantIds |-> IF g \in DOMAIN paid THEN paid[g] ELSE 0]
  <2>1. IsFiniteSet(GrantIds) /\ IsFiniteSet(DOMAIN paid) /\ SumFunction(paid) \in Nat
        /\ DOMAIN paid \subseteq GrantIds
    BY <1>8, GrantIdsFinite, RowsSum DEF IsRows, LedgerInv
  <2>2. /\ \A s \in Runs : F[s] \in Int /\ G[s] \in Int
        /\ F[r] = 0 /\ G[r] = SumFunction(paid)
        /\ \A s \in Runs \ {r} : G[s] = F[s]
    <3>1. \A s \in Runs : IsRows(allocated'[s])
      BY <1>2, <1>8
    <3> QED  BY <1>2, <1>8, <3>1, RowsSum, NoRowsSum
  <2>3. Drawn = SumFunctionOnSet(F, Runs) /\ Drawn' = SumFunctionOnSet(G, Runs)
    BY DEF Drawn, SumFunction
  <2>4. SumFunctionOnSet(G, Runs) = SumFunctionOnSet(F, Runs) + (G[r] - F[r])
        /\ SumFunctionOnSet(F, Runs) \in Int
    <3> HIDE DEF F, G
    <3> QED  BY <2>2, RunsAssumption, SumChanged, SumIsInt
  <2>5. \A g \in GrantIds : spent[g] \in Int /\ P[g] \in Int /\ spent'[g] = spent[g] + P[g]
    BY <1>2, <1>8 DEF LedgerInv, LedgerTypeOK, IsRows
  <2>6. SumFunctionOnSet(P, GrantIds) = SumFunction(paid)
    <3>1. SumFunctionOnSet(P, GrantIds) = SumFunctionOnSet(P, DOMAIN paid)
      <4>1. \A g \in GrantIds : P[g] \in Int /\ (g \notin DOMAIN paid => P[g] = 0)
        BY <2>5
      <4> HIDE DEF P
      <4> QED  BY <2>1, <4>1, SumOfPart
    <3>2. \A g \in DOMAIN paid : P[g] = paid[g]
      BY <2>1
    <3> HIDE DEF P
    <3>3. SumFunctionOnSet(P, DOMAIN paid) = SumFunctionOnSet(paid, DOMAIN paid)
      BY <2>1, <3>2, SumAgrees
    <3> QED  BY <3>1, <3>3 DEF SumFunction
  <2>7. SumFunctionOnSet(spent', GrantIds)
          = SumFunctionOnSet(spent, GrantIds) + SumFunctionOnSet(P, GrantIds)
    <3> HIDE DEF P
    <3> QED  BY <2>1, <2>5, SumOfBoth
  <2> HIDE DEF F, G, P
  <2> QED  BY <2>1, <2>2, <2>3, <2>4, <2>6, <2>7 DEF LedgerSums, DrawnIsSpent, GrantIds
<1> QED  BY <1>9, <1>10 DEF LedgerSums

(* Every other step draws nothing. *)
LEMMA NextLedgerSums == LedgerInv /\ LedgerSums /\ [LedgerNext]_ledgerVars => LedgerSums'
<1> SUFFICES ASSUME LedgerInv, LedgerSums, [LedgerNext]_ledgerVars  PROVE LedgerSums'
    OBVIOUS
<1>0. /\ DOMAIN run = Runs /\ charge \in [Runs -> Nat]
      /\ \A r \in Runs : RunPaid(r) /\ run[r] = [pc |-> run[r].pc, live |-> run[r].live, readAt |-> run[r].readAt]
  BY DEF LedgerInv, LedgerTypeOK, IsRunState, LedgerSums
<1>1. CASE UNCHANGED <<spent, allocated, charge, run>>
  BY <1>1 DEF LedgerSums, RunPaid, DrawnIsSpent, Drawn
<1>2. CASE UNCHANGED ledgerVars \/ GrantCredits \/ Tick
  BY <1>1, <1>2 DEF ledgerVars, GrantCredits, Tick
<1>3. ASSUME NEW r \in Runs, RunStep(r)  PROVE LedgerSums'
  <2>1. ASSUME NEW pc, Goto(r, run[r].pc, pc), UNCHANGED charge, UNCHANGED <<spent, allocated>>,
               \/ run[r].pc = "idle" /\ pc \in {"admitted", "over"}
               \/ run[r].pc = "admitted" /\ pc = "over"
               \/ run[r].pc \in {"metered", "planned"} /\ pc = "lost"
        PROVE  LedgerSums'
    <3>1. run'[r].pc = pc /\ run'[r].live = run[r].live /\ \A s \in Runs \ {r} : run'[s] = run[s]
      BY <1>0, <2>1 DEF Goto
    <3>2. RunPaid(r)'
      BY <1>0, <2>1, <3>1 DEF RunPaid
    <3> QED  BY <2>1, <3>1, <3>2, UndrawnLedgerSums
  <2>2. CASE RecordEvent(r)
    <3>1. PICK c \in Costs : charge' = [charge EXCEPT ![r] = c]
      BY <2>2 DEF RecordEvent
    <3>2. run'[r].pc = "metered" /\ \A s \in Runs \ {r} : run'[s] = run[s]
      BY <1>0, <2>2 DEF RecordEvent, Goto
    <3>3. charge'[r] > 0 /\ \A s \in Runs \ {r} : charge'[s] = charge[s]
      BY <1>0, <3>1, CostsAssumption
    <3>4. RunPaid(r)'
      BY <1>0, <2>2, <3>2, <3>3 DEF RunPaid, RecordEvent, Goto
    <3> QED  BY <2>2, <3>2, <3>3, <3>4, UndrawnLedgerSums DEF RecordEvent
  <2>3. CASE ReadLiveGrants(r)
    <3> DEFINE ids == {g \in Granted : Spendable(g)}
    <3>1. /\ run'[r] = [pc |-> IF ids = {} THEN "over" ELSE "planned",
                        live |-> [g \in ids |-> Remaining(g)], readAt |-> now]
          /\ run[r].pc = "metered" /\ UNCHANGED <<spent, allocated, charge>>
          /\ \A s \in Runs \ {r} : run'[s] = run[s]
      BY <1>0, <2>3 DEF ReadLiveGrants
    <3>2. charge[r] > 0 /\ charge[r] \in Nat /\ allocated[r] = NoRows
      BY <1>0, <3>1 DEF RunPaid
    <3> HIDE DEF ids
    <3>3. ids = {} => SumFunction(run'[r].live) = 0
      BY <3>1, SumOfNone DEF SumFunction
    <3>4. RunPaid(r)'
      BY <3>1, <3>2, <3>3, NoRowsSum DEF RunPaid, Lesser
    <3> QED  BY <3>1, <3>4, UndrawnLedgerSums
  <2> QED  BY <1>3, <2>1, <2>2, <2>3, SaveLedgerSums
             DEF RunStep, Admit, Refuse, EndUnmetered, LoseRun, Goto
<1> QED  BY <1>2, <1>3 DEF LedgerNext

----------------------------------------------------------------------------
(* What is left on the grants, as integers. *)
LEMMA RemaindersAreNats ==
    ASSUME LedgerTypeOK
    PROVE  \A g \in Granted : /\ grants[g].bucket \in Buckets
                              /\ Remainders[g] \in Nat /\ spent[g] \in Nat
                              /\ Remainders[g] = Greater(0, grants[g].credits - spent[g])
<1> SUFFICES ASSUME NEW g \in Granted
             PROVE  /\ grants[g].bucket \in Buckets
                    /\ Remainders[g] \in Nat /\ spent[g] \in Nat
                    /\ Remainders[g] = Greater(0, grants[g].credits - spent[g])
  OBVIOUS
<1>1. grants[g] \in CreditGrant
  BY DEF LedgerTypeOK, Granted
<1>2. grants[g].bucket \in Buckets /\ grants[g].credits \in Nat
  BY <1>1 DEF CreditGrant
<1>3. spent[g] \in Nat
  BY GrantRowFields DEF LedgerTypeOK
<1> QED  BY <1>2, <1>3 DEF Remainders, RowRemaining, Remaining, Greater

(* The rows getBalance adds up. *)
LiveGrants == {g \in Granted : IsLive(grants[g].expiresAt, now)}

(* The balance, bucket by bucket, is what is left on the live grants. *)
LEMMA BalanceIsLive ==
    ASSUME LedgerTypeOK
    PROVE  Balance = SumFunctionOnSet(Remainders, LiveGrants)
<1> DEFINE part == [g \in Granted |-> grants[g].bucket]
           B == [bucket \in Buckets |-> BalanceOf(bucket)]
<1>1. IsFiniteSet(Granted) /\ IsFiniteSet(LiveGrants) /\ LiveGrants \subseteq Granted
  BY GrantIdsFinite, FS_Subset DEF LiveGrants
<1>2. IsFiniteSet(Buckets)
  <2>1. IsFiniteSet({"rollover"}) /\ IsFiniteSet({"plan"}) /\ IsFiniteSet({"topup"})
        /\ IsFiniteSet({"reward"})
    BY FS_Singleton
  <2>2. IsFiniteSet({"rollover"} \cup {"plan"})
    BY <2>1, FS_Union
  <2>3. IsFiniteSet({"topup"} \cup {"reward"})
    BY <2>1, FS_Union
  <2>4. IsFiniteSet(({"rollover"} \cup {"plan"}) \cup ({"topup"} \cup {"reward"}))
    BY <2>2, <2>3, FS_Union
  <2>5. Buckets = ({"rollover"} \cup {"plan"}) \cup ({"topup"} \cup {"reward"})
    BY DEF Buckets
  <2> QED  BY <2>4, <2>5
<1>3. \A g \in LiveGrants : part[g] \in Buckets /\ Remainders[g] \in Int
  BY <1>1, RemaindersAreNats
<1>4. \A bucket \in Buckets :
        B[bucket] = SumFunctionOnSet(Remainders, {g \in LiveGrants : part[g] = bucket})
  <2> SUFFICES ASSUME NEW bucket \in Buckets
               PROVE  {g \in Granted : grants[g].bucket = bucket /\ IsLive(grants[g].expiresAt, now)}
                        = {g \in LiveGrants : part[g] = bucket}
    BY DEF BalanceOf
  <2> QED  BY DEF LiveGrants
<1>5. Balance = SumFunctionOnSet(B, Buckets)
  BY DEF Balance, SumFunction
<1> HIDE DEF part, B
<1>6. SumFunctionOnSet(B, Buckets) = SumFunctionOnSet(Remainders, LiveGrants)
  <2>1. IsFiniteSet(LiveGrants) /\ \A g \in LiveGrants : Remainders[g] \in Int
    BY <1>1, <1>3
  <2>2. \A g \in LiveGrants : part[g] \in Buckets
    BY <1>3
  <2> QED  BY <1>2, <1>4, <2>1, <2>2, SumOfParts
<1> QED  BY <1>5, <1>6

(* The panel's row and the workspace's own balance are one sum. *)
LEMMA PanelAgrees == LedgerTypeOK => PanelBalance = Balance
<1> SUFFICES ASSUME LedgerTypeOK  PROVE PanelBalance = Balance
    OBVIOUS
<1> DEFINE F == [g \in Granted |-> IF IsLive(grants[g].expiresAt, now)
                                   THEN Greater(0, grants[g].credits - spent[g]) ELSE 0]
<1>1. IsFiniteSet(Granted) /\ IsFiniteSet(LiveGrants) /\ LiveGrants \subseteq Granted
  BY GrantIdsFinite, FS_Subset DEF LiveGrants
<1>2. /\ \A g \in LiveGrants : F[g] = Remainders[g]
      /\ \A g \in Granted : F[g] \in Int
      /\ \A g \in Granted \ LiveGrants : F[g] = 0
  BY RemaindersAreNats DEF LiveGrants
<1>3. PanelBalance = SumFunctionOnSet(F, Granted)
  BY DEF PanelBalance, SumFunction
<1> HIDE DEF F
<1>4. SumFunctionOnSet(F, Granted) = SumFunctionOnSet(F, LiveGrants)
  BY <1>1, <1>2, SumOfPart
<1>5. SumFunctionOnSet(F, LiveGrants) = SumFunctionOnSet(Remainders, LiveGrants)
  BY <1>1, <1>2, SumAgrees
<1> QED  BY <1>3, <1>4, <1>5, BalanceIsLive

(* No run draws more than it was charged. *)
LEMMA DrawnWithinCharges == LedgerInv /\ LedgerSums => Drawn <= PanelUsed
<1> SUFFICES ASSUME LedgerInv, LedgerSums  PROVE Drawn <= PanelUsed
    OBVIOUS
<1> DEFINE F == [r \in Runs |-> SumFunction(allocated[r])]
<1>1. ASSUME NEW r \in Runs  PROVE F[r] \in Int /\ charge[r] \in Int /\ F[r] <= charge[r]
  <2>1. /\ IsRows(allocated[r]) /\ IsRows(run[r].live) /\ charge[r] \in Nat /\ RunPaid(r)
    BY DEF LedgerInv, LedgerTypeOK, LedgerSums, IsRunState
  <2>2. SumFunction(allocated[r]) \in Nat /\ SumFunction(run[r].live) \in Nat
    BY <2>1, RowsSum
  <2> QED  BY <2>1, <2>2, NoRowsSum DEF RunPaid, Lesser
<1>2. Drawn = SumFunctionOnSet(F, Runs) /\ PanelUsed = SumFunctionOnSet(charge, Runs)
  BY DEF Drawn, PanelUsed, SumFunction, LedgerInv, LedgerTypeOK
<1> HIDE DEF F
<1>3. SumFunctionOnSet(F, Runs) <= SumFunctionOnSet(charge, Runs)
  BY <1>1, RunsAssumption, SumGrows
<1> QED  BY <1>2, <1>3

(* What was granted is left, expired, or drawn. *)
LEMMA NothingIsLost == LedgerInv /\ LedgerSums /\ ~overtaken => PanelGranted = Balance + Expired + Drawn
<1> SUFFICES ASSUME LedgerInv, LedgerSums, ~overtaken
             PROVE  PanelGranted = Balance + Expired + Drawn
    OBVIOUS
<1> DEFINE C == [g \in Granted |-> grants[g].credits]
           Dead == {g \in Granted : ~IsLive(grants[g].expiresAt, now)}
<1>0. LedgerTypeOK /\ NoOverdraw /\ UngrantedIsUnspent
  BY DEF LedgerInv, OverdrawNeedsOvertaking
<1>1. /\ IsFiniteSet(Granted) /\ IsFiniteSet(GrantIds) /\ Granted \subseteq GrantIds
      /\ IsFiniteSet(LiveGrants) /\ IsFiniteSet(Dead)
      /\ LiveGrants \cap Dead = {} /\ LiveGrants \cup Dead = Granted
  BY <1>0, GrantIdsFinite, FS_Subset DEF LiveGrants
<1>2. \A g \in Granted : /\ Remainders[g] \in Int /\ spent[g] \in Int
                         /\ C[g] = Remainders[g] + spent[g]
  <2> SUFFICES ASSUME NEW g \in Granted
               PROVE  /\ Remainders[g] \in Int /\ spent[g] \in Int
                      /\ C[g] = Remainders[g] + spent[g]
    OBVIOUS
  <2>1. grants[g].credits \in Nat /\ spent[g] <= grants[g].credits
    BY <1>0, GrantRowFields DEF NoOverdraw
  <2> QED  BY <1>0, <2>1, RemaindersAreNats DEF Greater
<1>3. PanelGranted = SumFunctionOnSet(C, Granted)
  BY DEF PanelGranted, SumFunction
<1>4. Expired = SumFunctionOnSet(Remainders, Dead)
  BY DEF Expired
<1> HIDE DEF C, Dead
<1>5. SumFunctionOnSet(C, Granted)
        = SumFunctionOnSet(Remainders, Granted) + SumFunctionOnSet(spent, Granted)
  BY <1>1, <1>2, SumOfBoth
<1>6. SumFunctionOnSet(Remainders, Granted)
        = SumFunctionOnSet(Remainders, LiveGrants) + SumFunctionOnSet(Remainders, Dead)
  <2>1. SumFunctionOnSet(Remainders, LiveGrants \cup Dead)
          = SumFunctionOnSet(Remainders, LiveGrants) + SumFunctionOnSet(Remainders, Dead)
    BY <1>1, <1>2, SumApart
  <2> QED  BY <1>1, <2>1
<1>7. SumFunctionOnSet(spent, GrantIds) = SumFunctionOnSet(spent, Granted)
  <2>1. \A g \in GrantIds : spent[g] \in Int
    BY <1>0 DEF LedgerTypeOK
  <2>2. \A g \in GrantIds \ Granted : spent[g] = 0
    BY <1>0, BoundsAssumption DEF UngrantedIsUnspent, Granted, GrantIds, LedgerTypeOK
  <2> QED  BY <1>1, <2>1, <2>2, SumOfPart
<1> QED  BY <1>0, <1>3, <1>4, <1>5, <1>6, <1>7, BalanceIsLive DEF LedgerSums, DrawnIsSpent

(* Every run pays what it costs or all it saw, and the ledger adds up. *)
LEMMA LedgerSumsAddUp == LedgerInv /\ LedgerSums => PaysWhatItCan /\ Reconciles
<1> SUFFICES ASSUME LedgerInv, LedgerSums  PROVE PaysWhatItCan /\ Reconciles
    OBVIOUS
<1>1. PaysWhatItCan
  BY DEF LedgerSums, RunPaid, PaysWhatItCan
<1>2. Reconciles
  BY PanelAgrees, NothingIsLost, DrawnWithinCharges DEF Reconciles, LedgerInv
<1> QED  BY <1>1, <1>2

(* Without a new grant no row can come back to life or grow. *)
LEMMA StepLowersBalance ==
    ASSUME LedgerInv, LedgerInv', [LedgerNext]_ledgerVars, grants' = grants
    PROVE  Balance' <= Balance
<1> DEFINE Row(g, sp, t) == IF IsLive(grants[g].expiresAt, t)
                            THEN Greater(0, grants[g].credits - sp) ELSE 0
           F == [g \in Granted |-> Row(g, spent[g], now)]
           G == [g \in Granted |-> Row(g, spent'[g], now')]
<1>1. LedgerTypeOK /\ LedgerTypeOK' /\ Granted' = Granted
  BY DEF LedgerInv, Granted
<1>2. now' >= now /\ now \in Int /\ now' \in Int
  <2>1. now' = now \/ now' = now + 1
    BY DEF LedgerNext, ledgerVars, RunStep, Admit, Refuse, EndUnmetered, RecordEvent,
           ReadLiveGrants, SaveAllocations, LoseRun, GrantCredits, Tick
  <2> QED  BY <1>1, <2>1 DEF LedgerTypeOK
<1>3. \A g \in Granted : spent'[g] >= spent[g]
  <2>1. CASE spent' = spent
    BY <1>1, <2>1, RemaindersAreNats
  <2>2. CASE \E r \in Runs : SaveAllocations(r)
    <3>1. PICK r \in Runs : SaveAllocations(r)
      BY <2>2
    <3> DEFINE live == run[r].live
    <3>2. live \in [DOMAIN live -> Nat] /\ charge[r] \in Nat
      BY <1>1 DEF LedgerTypeOK, IsRunState, IsRows
    <3>3. PICK paid \in planAllocations(grants, DOMAIN live, live, charge[r]) :
             spent' = [g \in GrantIds |-> IF g \in DOMAIN paid THEN spent[g] + paid[g]
                                                                ELSE spent[g]]
      BY <3>1 DEF SaveAllocations
    <3>4. DOMAIN paid = DOMAIN live /\ paid \in [DOMAIN live -> Nat]
      <4> HIDE DEF live
      <4> QED  BY <3>2, <3>3, PlanTakes
    <3> HIDE DEF live
    <3> QED  BY <1>1, <3>3, <3>4, GrantRowFields, RemaindersAreNats
  <2> QED  BY <2>1, <2>2 DEF LedgerNext, ledgerVars, RunStep, Admit, Refuse, EndUnmetered,
                             RecordEvent, ReadLiveGrants, LoseRun, GrantCredits, Tick
<1>4. ASSUME NEW g \in Granted
      PROVE  F[g] \in Int /\ G[g] \in Int /\ G[g] <= F[g]
  <2>1. /\ grants[g].credits \in Nat /\ grants[g].expiresAt \in Nat
        /\ spent[g] \in Nat /\ spent'[g] \in Nat
    BY <1>1, GrantRowFields DEF LedgerTypeOK
  <2>2. IsLive(grants[g].expiresAt, now') => IsLive(grants[g].expiresAt, now)
    BY <1>2, <2>1 DEF IsLive
  <2> DEFINE a == grants[g].credits - spent[g]
             b == grants[g].credits - spent'[g]
  <2>4. a \in Int /\ b \in Int /\ a >= b
    BY <1>3, <2>1
  <2>5. F[g] = (IF IsLive(grants[g].expiresAt, now) THEN Greater(0, a) ELSE 0)
        /\ G[g] = (IF IsLive(grants[g].expiresAt, now') THEN Greater(0, b) ELSE 0)
    OBVIOUS
  <2> HIDE DEF a, b, F, G, Row
  <2>6. /\ IsLive(grants[g].expiresAt, now) \in BOOLEAN
        /\ IsLive(grants[g].expiresAt, now') \in BOOLEAN
    BY DEF IsLive
  <2> QED  BY <2>2, <2>4, <2>5 DEF Greater
<1>5. PanelBalance = SumFunctionOnSet(F, Granted) /\ PanelBalance' = SumFunctionOnSet(G, Granted)
  BY <1>1 DEF PanelBalance, SumFunction
<1>6. IsFiniteSet(Granted)
  BY <1>1, GrantIdsFinite
<1> HIDE DEF F, G
<1>7. SumFunctionOnSet(G, Granted) <= SumFunctionOnSet(F, Granted)
  BY <1>4, <1>6, SumGrows
<1>8. (LedgerTypeOK => PanelBalance = Balance) /\ (LedgerTypeOK => PanelBalance = Balance)'
  BY PanelAgrees, PTL
<1> QED  BY <1>1, <1>5, <1>7, <1>8

(* The sums are kept by every step of every run. *)
THEOREM LedgerSumsInvariant == LedgerSpec => [](LedgerInv /\ LedgerSums)
<1>1. LedgerInit => LedgerInv /\ LedgerSums
  BY InitLedgerInv, InitLedgerSums
<1>2. (LedgerInv /\ LedgerSums) /\ [LedgerNext]_ledgerVars => (LedgerInv /\ LedgerSums)'
  BY NextLedgerInv, NextLedgerSums
<1> QED  BY <1>1, <1>2, PTL DEF LedgerSpec

(* recordEvent charges a run what it cost or all it saw, and every credit
   granted is in the balance, expired, or on some event. *)
THEOREM LedgerReconciles == LedgerSpec => [](PaysWhatItCan /\ Reconciles)
  BY LedgerSumsInvariant, LedgerSumsAddUp, PTL

(* getBalance never reports more than before unless credits were granted:
   neither a run nor the clock raises it. *)
THEOREM LedgerBalanceClimbs == LedgerSpec => BalanceClimbsOnlyByGrant
<1>1. LedgerInv /\ LedgerInv' /\ [LedgerNext]_ledgerVars =>
        [grants' = grants /\ <<spent, now>>' # <<spent, now>> => Balance' <= Balance]_ledgerVars
  BY StepLowersBalance
<1> QED  BY <1>1, LedgerInvariant, PTL DEF LedgerSpec, BalanceClimbsOnlyByGrant

=============================================================================
