---------------------- MODULE TriggerFlowPermitsProofs ----------------------
(***************************************************************************)
(* The concurrency limit, for any number of handlers and permits, as long  *)
(* as every handler so far awaited one dispatch at a time and none raised  *)
(* or was cancelled (`plain`): the cases in which the model checker shows  *)
(* it broken.                                                              *)
(*                                                                         *)
(* The argument: a permit is either in the semaphore or with a holder, and *)
(* a holder is a running handler or one that awaits a branch which has not *)
(* given the permit back yet, or has taken one again.                      *)
(*                                                                         *)
(* Without `plain`, permits are counted against the branches that owe one  *)
(* (Balanced): so whatever fans out, raises or is cancelled, they are back *)
(* when nobody is at work, but for those that a cancelled acquire lost.    *)
(***************************************************************************)
EXTENDS TriggerFlowPermits, FiniteSetTheorems, TLAPS

Yielded(p) == \E b \in Handlers : parent[b] = p /\ branch[b] \in {"inside", "regain"}

Holders == {h \in Handlers : pc[h] = "running" \/ (pc[h] = "fanned" /\ ~Yielded(h))}

Calm ==
    /\ doomed = {}
    /\ \A h \in Handlers : pc[h] \in {"unborn", "waiting", "running", "fanned", "done"}

OneBranch ==
    \A b, c \in Handlers : parent[b] = parent[c] /\ parent[b] # NoHandler => b = c

BranchesFit ==
    \A b \in Handlers :
        /\ branch[b] = "none" <=> parent[b] = NoHandler
        /\ branch[b] # "none" => pc[parent[b]] = "fanned"
        /\ branch[b] = "ready" => pc[b] = "unborn"
        /\ branch[b] = "inside" => pc[b] \in {"waiting", "running", "fanned"}
        /\ branch[b] \in {"regain", "back"} => pc[b] = "done"
        /\ branch[b] # "lost"

Conserved == permits + Cardinality(Holders) = Permits

IInv == TypeOK /\ Calm /\ OneBranch /\ BranchesFit /\ Conserved

PlainInv == plain => IInv

-----------------------------------------------------------------------------
(* Counting the holders *)

\* The holders are finitely many, as the handlers are.
LEMMA HoldersFinite ==
  /\ IsFiniteSet(Holders)
  /\ Cardinality(Holders) \in Nat
<1>1. IsFiniteSet(Handlers)  BY PermitsAssumption
<1>2. Holders \subseteq Handlers  BY DEF Holders
<1>3. IsFiniteSet(Holders)  BY <1>1, <1>2, FS_Subset
<1> QED  BY <1>3, FS_CardinalityType

\* An acquire moves one permit from the semaphore to a new holder.
LEMMA TakeOne ==
  ASSUME NEW h, h \notin Holders, Holders' = Holders \cup {h},
         permits \in Nat, permits > 0, permits' = permits - 1, Conserved
  PROVE  Conserved'
<1>1. Cardinality(Holders') = Cardinality(Holders) + 1
  BY HoldersFinite, FS_AddElement
<1> QED  BY <1>1, HoldersFinite DEF Conserved

\* A release moves it back.
LEMMA GiveOne ==
  ASSUME NEW h, h \in Holders, Holders' = Holders \ {h},
         permits \in Nat, permits' = permits + 1, Conserved
  PROVE  Conserved'
<1>1. Cardinality(Holders') = Cardinality(Holders) - 1
  BY HoldersFinite, FS_RemoveElement
<1> QED  BY <1>1, HoldersFinite DEF Conserved

\* A fan-out in a chain creates exactly one branch.
LEMMA OneAtATime ==
  ASSUME NEW B \in SUBSET Handlers, Cardinality(B) = 1
  PROVE  \E b \in Handlers : B = {b}
<1>1. IsFiniteSet(B)  BY PermitsAssumption, FS_Subset
<1> QED  BY <1>1, FS_Singleton

-----------------------------------------------------------------------------
(* The invariant holds at first and is kept *)

LEMMA InitHolds == Init => IInv
<1> SUFFICES ASSUME Init PROVE IInv  OBVIOUS
<1>1. TypeOK /\ Calm /\ OneBranch /\ BranchesFit
  BY PermitsAssumption DEF Init, TypeOK, Calm, OneBranch, BranchesFit, Places, BranchPlaces
<1>2. Holders = {}  BY DEF Holders, Init
<1>3. Conserved
  BY <1>2, FS_EmptySet, PermitsAssumption DEF Conserved, Init
<1> QED  BY <1>1, <1>3 DEF IInv

\* What all actions but Regain of a failed dispatch leave in shape.
Shape == TypeOK /\ Calm /\ OneBranch /\ BranchesFit

LEMMA EmitKeeps ==
  ASSUME IInv, NEW h \in Free, Emit(h)
  PROVE  IInv'
<1> USE DEF Free, Unborn
<1>1. Shape'
  BY PermitsAssumption
  DEF IInv, Emit, Shape, TypeOK, Calm, OneBranch, BranchesFit, Places, BranchPlaces
<1>2. Holders' = Holders
  BY DEF IInv, Emit, Holders, Yielded, TypeOK
<1>3. Conserved'  BY <1>2 DEF Conserved, IInv, Emit
<1> QED  BY <1>1, <1>3 DEF IInv, Shape

LEMMA AcquireKeeps ==
  ASSUME IInv, NEW h \in Handlers, Acquire(h)
  PROVE  IInv'
<1>1. Shape'
  BY PermitsAssumption
  DEF IInv, Acquire, Shape, TypeOK, Calm, OneBranch, BranchesFit, Places, BranchPlaces
<1>2. h \notin Holders /\ Holders' = Holders \cup {h}
  BY DEF IInv, Acquire, Holders, Yielded, TypeOK
<1>3. Conserved'  BY <1>2, TakeOne DEF Acquire, IInv, TypeOK
<1> QED  BY <1>1, <1>3 DEF IInv, Shape

\* A running handler has no branch of its own, so nothing else holds its permit.
LEMMA ReturnKeeps ==
  ASSUME IInv, NEW h \in Handlers, HandlerReturns(h)
  PROVE  IInv'
<1> USE DEF HandlerReturns, Leave, DispatchOver
<1>1. Shape'
  BY PermitsAssumption
  DEF IInv, Shape, TypeOK, Calm, OneBranch, BranchesFit, Places, BranchPlaces
<1>2. \A p \in Handlers : Yielded(p)' <=> Yielded(p)
  BY DEF IInv, Yielded, TypeOK
<1>3. h \in Holders /\ Holders' = Holders \ {h}
  BY <1>2 DEF IInv, Holders, TypeOK
<1>4. Conserved'  BY <1>3, GiveOne DEF IInv, TypeOK
<1> QED  BY <1>1, <1>4 DEF IInv, Shape

LEMMA FanOutKeeps ==
  ASSUME IInv, NEW p \in Handlers, NEW b \in Free, FanOut(p, {b})
  PROVE  IInv'
<1> USE DEF Free, Unborn, FanOut
<1>0. b # p  BY DEF IInv, TypeOK
<1>1. \A c \in Handlers : parent[c] # p
  BY PermitsAssumption DEF IInv, BranchesFit, TypeOK
<1>2. TypeOK' /\ Calm'
  BY PermitsAssumption DEF IInv, TypeOK, Calm, Places, BranchPlaces
<1>3. OneBranch'
  BY <1>1, PermitsAssumption DEF IInv, OneBranch, TypeOK
<1>4. BranchesFit'
  BY <1>0, <1>1, PermitsAssumption DEF IInv, BranchesFit, TypeOK
<1>5. \A q \in Handlers : Yielded(q)' <=> Yielded(q)
  BY <1>1 DEF IInv, Yielded, TypeOK
<1>6. Holders' = Holders
  BY <1>1, <1>5 DEF IInv, Holders, Yielded, TypeOK
<1>7. Conserved'  BY <1>6 DEF Conserved, IInv
<1> QED  BY <1>2, <1>3, <1>4, <1>7 DEF IInv

\* The handler stops being a holder when its only branch gives the permit back,
LEMMA YieldKeeps ==
  ASSUME IInv, NEW b \in Handlers, YieldPermit(b)
  PROVE  IInv'
<1> USE DEF YieldPermit
<1> DEFINE p == parent[b]
<1>1. p \in Handlers /\ pc[p] = "fanned" /\ p # b
  BY PermitsAssumption DEF IInv, BranchesFit, TypeOK
<1>2. Shape'
  BY <1>1, PermitsAssumption
  DEF IInv, Shape, TypeOK, Calm, OneBranch, BranchesFit, Places, BranchPlaces
<1>3. ~Yielded(p) /\ Yielded(p)'
  BY <1>1, PermitsAssumption DEF IInv, OneBranch, Yielded, TypeOK
<1>4. \A q \in Handlers \ {p} : Yielded(q)' <=> Yielded(q)
  BY DEF IInv, Yielded, TypeOK
<1>5. p \in Holders /\ Holders' = Holders \ {p}
  BY <1>1, <1>3, <1>4 DEF IInv, Holders, TypeOK
<1>6. Conserved'  BY <1>5, GiveOne DEF IInv, TypeOK
<1> QED  BY <1>2, <1>6 DEF IInv, Shape

\* and is one again when that branch has acquired.
LEMMA RegainKeeps ==
  ASSUME IInv, NEW b \in Handlers, Regain(b)
  PROVE  IInv'
<1> DEFINE p == parent[b]
<1>0. /\ branch[b] = "regain" /\ pc[b] = "done" /\ permits > 0 /\ permits' = permits - 1
      /\ branch' = [branch EXCEPT ![b] = "back"]
      /\ UNCHANGED <<pc, parent, doomed, drains, plain>>
  BY DEF Regain, IInv, BranchesFit
<1>1. p \in Handlers /\ pc[p] = "fanned" /\ p # b
  BY <1>0, PermitsAssumption DEF IInv, BranchesFit, TypeOK
<1>2. Shape'
  BY <1>0, <1>1, PermitsAssumption
  DEF IInv, Shape, TypeOK, Calm, OneBranch, BranchesFit, Places, BranchPlaces
<1>3. Yielded(p) /\ ~Yielded(p)'
  BY <1>0, <1>1, PermitsAssumption DEF IInv, OneBranch, Yielded, TypeOK
<1>4. \A q \in Handlers \ {p} : Yielded(q)' <=> Yielded(q)
  BY <1>0 DEF IInv, Yielded, TypeOK
<1>5. p \notin Holders /\ Holders' = Holders \cup {p}
  BY <1>0, <1>1, <1>3, <1>4 DEF IInv, Holders, TypeOK
<1>6. Conserved'  BY <1>0, <1>5, TakeOne DEF IInv, TypeOK
<1> QED  BY <1>2, <1>6 DEF IInv, Shape

LEMMA GoOnKeeps ==
  ASSUME IInv, NEW p \in Handlers, GoOn(p)
  PROVE  IInv'
<1> USE DEF GoOn, BranchesOver, Children
<1>1. TypeOK' /\ Calm'
  BY PermitsAssumption DEF IInv, TypeOK, Calm, Places, BranchPlaces
<1>2. OneBranch'
  BY PermitsAssumption DEF IInv, OneBranch, TypeOK
<1>3. BranchesFit'
  BY PermitsAssumption DEF IInv, BranchesFit, TypeOK
<1>4. ~Yielded(p)  BY DEF Yielded
<1>5. \A q \in Handlers \ {p} : Yielded(q)' <=> Yielded(q)
  BY PermitsAssumption DEF IInv, Yielded, TypeOK
<1>6. Holders' = Holders
  BY <1>4, <1>5 DEF IInv, Holders, TypeOK
<1>7. Conserved'  BY <1>6 DEF Conserved, IInv
<1> QED  BY <1>1, <1>2, <1>3, <1>7 DEF IInv

LEMMA NextKeeps ==
  ASSUME PlainInv, plain, [Next]_vars, plain'
  PROVE  IInv'
<1>0. IInv  BY DEF PlainInv
<1>1. CASE \E h \in Free : Emit(h)
  BY <1>0, <1>1, EmitKeeps
<1>2. ASSUME NEW p \in Handlers, NEW B \in SUBSET Free, FanOut(p, B)
      PROVE  IInv'
  <2>1. B \in SUBSET Handlers  BY DEF Free, Unborn
  <2>2. Cardinality(B) = 1  BY <1>2 DEF FanOut
  <2>3. PICK b \in Handlers : B = {b}  BY <2>1, <2>2, OneAtATime
  <2>4. b \in Free  BY <2>3
  <2> QED  BY <1>0, <1>2, <2>3, <2>4, FanOutKeeps
<1>3. ASSUME NEW h \in Handlers, HandlerRaises(h) PROVE IInv'
  BY <1>3 DEF HandlerRaises
<1>4. CASE DrainTimesOut
  BY <1>4 DEF DrainTimesOut
<1>5. ASSUME NEW h \in Handlers, Step(h) PROVE IInv'
  <2>1. ~CancelWaiting(h) /\ ~CancelRunning(h) /\ ~CancelFanned(h) /\ ~Unwind(h)
    BY <1>0 DEF IInv, Calm, CancelWaiting, CancelRunning, CancelFanned, Unwind
  <2> QED
    BY <1>0, <1>5, <2>1, AcquireKeeps, ReturnKeeps, YieldKeeps, RegainKeeps, GoOnKeeps DEF Step
<1>6. CASE UNCHANGED vars
  BY <1>0, <1>6 DEF vars, IInv, TypeOK, Calm, OneBranch, BranchesFit, Conserved, Holders, Yielded
<1> QED  BY <1>1, <1>2, <1>3, <1>4, <1>5, <1>6 DEF Next

\* The history variable never becomes true again.
LEMMA PlainNeverReturns ==
  ASSUME plain \in BOOLEAN, [Next]_vars, plain'
  PROVE  plain
<1> USE DEF Emit, FanOut, HandlerRaises, DrainTimesOut, Acquire, HandlerReturns, YieldPermit,
            Regain, GoOn, CancelWaiting, CancelRunning, CancelFanned, Unwind, vars
<1>1. ASSUME NEW p \in Handlers, NEW B \in SUBSET Free, FanOut(p, B) PROVE plain
  BY <1>1
<1>2. ASSUME NEW h \in Handlers, Step(h) PROVE plain
  BY <1>2 DEF Step
<1>3. CASE UNCHANGED vars
  BY <1>3
<1> QED  BY <1>1, <1>2, <1>3 DEF Next

-----------------------------------------------------------------------------
(* Types, in every state *)

LEMMA TypesKept ==
  ASSUME TypeOK, [Next]_vars
  PROVE  TypeOK'
<1> USE PermitsAssumption DEF TypeOK, Places, BranchPlaces
<1>1. CASE \E h \in Free : Emit(h)
  BY <1>1 DEF Free, Unborn, Emit
<1>2. ASSUME NEW p \in Handlers, NEW B \in SUBSET Free, FanOut(p, B) PROVE TypeOK'
  BY <1>2 DEF FanOut, Free, Unborn
<1>0. Live \subseteq Handlers
  BY DEF Live
<1>3. ASSUME NEW h \in Handlers, HandlerRaises(h) PROVE TypeOK'
  <2>1. PICK D \in SUBSET Live : doomed' = doomed \cup D
    BY <1>3 DEF HandlerRaises
  <2>2. doomed' \subseteq Handlers
    BY <1>0, <2>1
  <2>3. parent' = parent /\ drains' = drains /\ plain' = FALSE
    BY <1>3 DEF HandlerRaises
  <2>4. pc' \in [Handlers -> Places] /\ branch' \in [Handlers -> BranchPlaces] /\ permits' \in Nat
    BY <1>3 DEF HandlerRaises, Leave, DispatchOver
  <2> QED  BY <2>2, <2>3, <2>4
<1>4. CASE DrainTimesOut
  <2>1. doomed' \subseteq Handlers
    BY <1>0, <1>4 DEF DrainTimesOut
  <2>2. UNCHANGED <<pc, parent, branch, permits>> /\ plain' = FALSE
    BY <1>4 DEF DrainTimesOut
  <2>3. drains' \in Nat
    BY <1>4 DEF DrainTimesOut
  <2> QED  BY <2>1, <2>2, <2>3
<1>5. ASSUME NEW h \in Handlers, Step(h) PROVE TypeOK'
  <2>1. CASE Acquire(h)  BY <2>1 DEF Acquire
  <2>2. CASE HandlerReturns(h)  BY <2>2 DEF HandlerReturns, Leave, DispatchOver
  <2>3. CASE YieldPermit(h)  BY <2>3 DEF YieldPermit
  <2>4. CASE Regain(h)  BY <2>4 DEF Regain, CancelledBranches, Children
  <2>5. CASE GoOn(h)  BY <2>5 DEF GoOn
  <2>6. CASE CancelWaiting(h)  BY <2>6 DEF CancelWaiting, DispatchOver
  <2>7. CASE CancelRunning(h)  BY <2>7 DEF CancelRunning, Leave, DispatchOver
  <2>8. CASE CancelFanned(h)  BY <2>8 DEF CancelFanned, CancelledBranches, Children
  <2>9. CASE Unwind(h)  BY <2>9 DEF Unwind, Leave, DispatchOver
  <2> QED  BY <1>5, <2>1, <2>2, <2>3, <2>4, <2>5, <2>6, <2>7, <2>8, <2>9 DEF Step
<1>6. CASE UNCHANGED vars
  BY <1>6 DEF vars
<1> QED  BY <1>1, <1>2, <1>3, <1>4, <1>5, <1>6 DEF Next

-----------------------------------------------------------------------------
(* The theorems *)

LEMMA ConservedIsEnough == IInv => LimitKept
<1> SUFFICES ASSUME IInv PROVE LimitKept  OBVIOUS
<1>1. Running \subseteq Holders  BY DEF Running, Holders
<1>2. Cardinality(Running) <= Cardinality(Holders)  BY <1>1, HoldersFinite, FS_Subset
<1>3. IsFiniteSet(Running)  BY <1>1, HoldersFinite, FS_Subset
<1>4. Cardinality(Running) \in Nat  BY <1>3, FS_CardinalityType
<1> QED
  BY <1>2, <1>4, HoldersFinite, PermitsAssumption DEF IInv, TypeOK, Conserved, LimitKept

\* The semaphore never goes below zero and every task stays in a known place,
\* errors, cancellation and fan-outs included.
THEOREM PermitTypes == Spec => []TypeOK
<1>1. Init => TypeOK  BY InitHolds DEF IInv
<1> QED  BY <1>1, TypesKept, PTL DEF Spec

\* set_concurrency bounds the handlers at work whatever the number of handlers and
\* permits and however chains nest, until a handler fans out, raises or is cancelled.
THEOREM ChainsStayWithinLimit == Spec => []ChainsWithinLimit
<1>1. Init => PlainInv /\ TypeOK
  BY InitHolds DEF PlainInv, IInv
<1>2. PlainInv /\ TypeOK /\ [Next]_vars => (PlainInv /\ TypeOK)'
  BY NextKeeps, PlainNeverReturns, TypesKept DEF PlainInv, TypeOK
<1>3. PlainInv => ChainsWithinLimit
  BY ConservedIsEnough DEF PlainInv, ChainsWithinLimit
<1> QED  BY <1>1, <1>2, <1>3, PTL DEF Spec

-----------------------------------------------------------------------------
(***************************************************************************)
(* The balance of the semaphore, in every state: fan-outs, failed          *)
(* dispatches and cancellation included.  A handler between its acquire    *)
(* and its `finally` has taken one permit; a branch between the release of *)
(* the yielding dispatch and the acquire of its `finally` has lent one     *)
(* out, and never brings it back if it is cancelled in that acquire.       *)
(***************************************************************************)
AtWork == {h \in Handlers : pc[h] \in {"running", "fanned", "cancelling"}}

Owing == {b \in Handlers : branch[b] \in {"inside", "regain", "lost"}}

Balanced == permits + Cardinality(AtWork) = Permits + Cardinality(Owing)

\* What a branch tells of its handler, and of the handler that awaits it.
Family ==
    \A b \in Handlers :
        /\ parent[b] = NoHandler <=> branch[b] = "none"
        /\ branch[b] = "ready" => pc[b] = "unborn" /\ pc[parent[b]] = "fanned"
        /\ branch[b] = "inside" => b \in Live
        /\ branch[b] \in {"inside", "regain"} => pc[parent[b]] \in {"fanned", "cancelling"}
        /\ branch[b] # "none" => pc[parent[b]] \in {"fanned", "cancelling", "cancelled"}
        /\ branch[b] = "lost" => pc[parent[b]] # "fanned"

BInv == Balanced /\ Family

LEMMA CountsFinite ==
  /\ IsFiniteSet(AtWork) /\ Cardinality(AtWork) \in Nat
  /\ IsFiniteSet(Owing) /\ Cardinality(Owing) \in Nat
<1>1. AtWork \subseteq Handlers /\ Owing \subseteq Handlers  BY DEF AtWork, Owing
<1>2. IsFiniteSet(AtWork) /\ IsFiniteSet(Owing)  BY <1>1, PermitsAssumption, FS_Subset
<1> QED  BY <1>2, FS_CardinalityType

\* A handler takes a permit, or gives the one it took back.
LEMMA WorkTakesOne ==
  ASSUME TypeOK, Balanced, NEW h, h \notin AtWork, AtWork' = AtWork \cup {h},
         permits' = permits - 1, Owing' = Owing
  PROVE  Balanced'
<1>1. Cardinality(AtWork') = Cardinality(AtWork) + 1  BY CountsFinite, FS_AddElement
<1> QED  BY <1>1, CountsFinite, PermitsAssumption DEF Balanced, TypeOK

LEMMA WorkGivesOne ==
  ASSUME TypeOK, Balanced, NEW h \in AtWork, AtWork' = AtWork \ {h},
         permits' = permits + 1, Owing' = Owing
  PROVE  Balanced'
<1>1. Cardinality(AtWork') = Cardinality(AtWork) - 1  BY CountsFinite, FS_RemoveElement
<1> QED  BY <1>1, CountsFinite, PermitsAssumption DEF Balanced, TypeOK

\* A branch lends one out, or brings it back.
LEMMA BranchLendsOne ==
  ASSUME TypeOK, Balanced, NEW b, b \notin Owing, Owing' = Owing \cup {b},
         permits' = permits + 1, AtWork' = AtWork
  PROVE  Balanced'
<1>1. Cardinality(Owing') = Cardinality(Owing) + 1  BY CountsFinite, FS_AddElement
<1> QED  BY <1>1, CountsFinite, PermitsAssumption DEF Balanced, TypeOK

LEMMA BranchBringsOne ==
  ASSUME TypeOK, Balanced, NEW b \in Owing, Owing' = Owing \ {b},
         permits' = permits - 1, AtWork' = AtWork
  PROVE  Balanced'
<1>1. Cardinality(Owing') = Cardinality(Owing) - 1  BY CountsFinite, FS_RemoveElement
<1> QED  BY <1>1, CountsFinite, PermitsAssumption DEF Balanced, TypeOK

\* A handler that awaits nothing ends, or stops waiting for a permit.
LEMMA EndKeepsFamily ==
  ASSUME TypeOK, Family, NEW h \in Handlers, NEW how \in {"done", "failed", "cancelled"},
         pc[h] \in {"waiting", "running"} \/ (pc[h] = "cancelling" /\ BranchesOver(h) /\ how = "cancelled"),
         pc' = [pc EXCEPT ![h] = how], DispatchOver(h), parent' = parent
  PROVE  Family' /\ Owing' = Owing
<1>1. pc'[h] = how /\ \A b \in Handlers \ {h} : pc'[b] = pc[b]  BY DEF TypeOK
<1>2. /\ branch'[h] = IF branch[h] = "inside" THEN "regain" ELSE branch[h]
      /\ \A b \in Handlers \ {h} : branch'[b] = branch[b]
  BY DEF DispatchOver, TypeOK
<1>3. branch[h] # "ready"  BY DEF Family
<1>4. ASSUME NEW b \in Handlers, parent[b] = h
      PROVE  branch[b] \in {"back", "lost"} /\ how = "cancelled"
  <2>1. branch[b] # "none"  BY <1>4, PermitsAssumption DEF Family
  <2>2. pc[h] = "cancelling" /\ BranchesOver(h) /\ how = "cancelled"  BY <1>4, <2>1 DEF Family
  <2> QED  BY <1>4, <2>2 DEF BranchesOver, Children
<1>5. Family'
  <2> SUFFICES ASSUME NEW b \in Handlers
               PROVE  /\ parent'[b] = NoHandler <=> branch'[b] = "none"
                      /\ branch'[b] = "ready" => pc'[b] = "unborn" /\ pc'[parent'[b]] = "fanned"
                      /\ branch'[b] = "inside" => b \in Live'
                      /\ branch'[b] \in {"inside", "regain"} => pc'[parent'[b]] \in {"fanned", "cancelling"}
                      /\ branch'[b] # "none" => pc'[parent'[b]] \in {"fanned", "cancelling", "cancelled"}
                      /\ branch'[b] = "lost" => pc'[parent'[b]] # "fanned"
    BY DEF Family
  <2>1. branch'[b] = "ready" => branch[b] = "ready" /\ b # h  BY <1>2, <1>3
  <2>2. branch'[b] = "inside" => branch[b] = "inside" /\ b # h  BY <1>2
  <2>3. branch'[b] \in {"inside", "regain"} => branch[b] \in {"inside", "regain"}  BY <1>2
  <2>4. (branch'[b] = "none" <=> branch[b] = "none") /\ (branch'[b] = "lost" <=> branch[b] = "lost")
    BY <1>2
  <2>5. branch[b] # "none" => parent[b] \in Handlers  BY DEF Family, TypeOK
  <2>6. CASE parent[b] = h
    <3>1. branch[b] \in {"back", "lost"} /\ how = "cancelled"  BY <1>4, <2>6
    <3> QED  BY <1>1, <2>1, <2>2, <2>3, <2>4, <2>6, <3>1 DEF Family
  <2>7. CASE parent[b] # h
    <3>1. branch[b] # "none" => pc'[parent[b]] = pc[parent[b]]  BY <1>1, <2>5, <2>7
    <3>2. b # h => (b \in Live' <=> b \in Live)  BY <1>1 DEF Live
    <3> QED  BY <1>1, <2>1, <2>2, <2>3, <2>4, <3>1, <3>2 DEF Family
  <2> QED  BY <2>6, <2>7
<1>6. Owing' = Owing  BY <1>2 DEF Owing
<1> QED  BY <1>5, <1>6

LEMMA LeaveKeeps ==
  ASSUME TypeOK, BInv, NEW h \in Handlers, NEW how \in {"done", "failed", "cancelled"},
         pc[h] = "running" \/ (pc[h] = "cancelling" /\ BranchesOver(h) /\ how = "cancelled"),
         Leave(h, how), parent' = parent
  PROVE  BInv'
<1>1. pc' = [pc EXCEPT ![h] = how] /\ permits' = permits + 1 /\ DispatchOver(h)  BY DEF Leave
<1>2. Family' /\ Owing' = Owing  BY <1>1, EndKeepsFamily DEF BInv
<1>3. h \in AtWork /\ AtWork' = AtWork \ {h}  BY <1>1 DEF AtWork, TypeOK
<1>4. Balanced'  BY <1>1, <1>2, <1>3, WorkGivesOne DEF BInv
<1> QED  BY <1>2, <1>4 DEF BInv

\* Branches of one handler are back, are lost or go on, as that handler unwinds.
LEMMA CancelKeeps ==
  ASSUME TypeOK, Family, NEW p \in Handlers, pc[p] \in {"fanned", "cancelling"},
         pc' = [pc EXCEPT ![p] = "cancelling"], parent' = parent,
         \A b \in Handlers :
             IF parent[b] = p
               THEN /\ branch'[b] = "inside" => branch[b] = "inside"
                    /\ branch'[b] = "regain" => branch[b] \in {"inside", "regain"}
                    /\ branch'[b] \notin {"ready", "none"}
               ELSE branch'[b] = branch[b]
  PROVE  Family' /\ AtWork' = AtWork
<1>1. pc'[p] = "cancelling" /\ \A b \in Handlers \ {p} : pc'[b] = pc[b]  BY DEF TypeOK
<1>2. AtWork' = AtWork  BY <1>1 DEF AtWork
<1>3. \A b \in Handlers : (b \in Live' <=> b \in Live) /\ (pc'[b] = "unborn" <=> pc[b] = "unborn")
  BY <1>1 DEF Live
<1>4. Family'
  <2> SUFFICES ASSUME NEW b \in Handlers
               PROVE  /\ parent'[b] = NoHandler <=> branch'[b] = "none"
                      /\ branch'[b] = "ready" => pc'[b] = "unborn" /\ pc'[parent'[b]] = "fanned"
                      /\ branch'[b] = "inside" => b \in Live'
                      /\ branch'[b] \in {"inside", "regain"} => pc'[parent'[b]] \in {"fanned", "cancelling"}
                      /\ branch'[b] # "none" => pc'[parent'[b]] \in {"fanned", "cancelling", "cancelled"}
                      /\ branch'[b] = "lost" => pc'[parent'[b]] # "fanned"
    BY DEF Family
  <2>1. CASE parent[b] = p
    BY <1>1, <1>3, <2>1, PermitsAssumption DEF Family
  <2>2. CASE parent[b] # p
    <3>1. branch'[b] = branch[b]  BY <2>2
    <3>2. branch[b] # "none" => parent[b] \in Handlers  BY DEF Family, TypeOK
    <3>3. branch[b] # "none" => pc'[parent[b]] = pc[parent[b]]  BY <1>1, <2>2, <3>2
    <3> QED  BY <1>3, <3>1, <3>3 DEF Family
  <2> QED  BY <2>1, <2>2
<1> QED  BY <1>2, <1>4

\* A dispatch is over and its branch takes the permit again.
LEMMA RegainBalances ==
  ASSUME TypeOK, BInv, NEW b \in Handlers, Regain(b)
  PROVE  BInv'
<1>0. PICK p : p = parent[b]  OBVIOUS
<1>1. branch[b] = "regain" /\ permits' = permits - 1 /\ parent' = parent  BY DEF Regain
<1>2. p \in Handlers /\ pc[p] \in {"fanned", "cancelling"}
  BY <1>0, <1>1 DEF BInv, Family, TypeOK
<1>3. b \in Owing  BY <1>1 DEF Owing
<1>4. CASE branch' = [branch EXCEPT ![b] = "back"] /\ pc' = pc
  <2>1. branch'[b] = "back" /\ \A c \in Handlers \ {b} : branch'[c] = branch[c]
    BY <1>4 DEF TypeOK
  <2>2. AtWork' = AtWork /\ Owing' = Owing \ {b}  BY <1>4, <2>1 DEF AtWork, Owing
  <2>3. Balanced'  BY <1>1, <1>3, <2>2, BranchBringsOne DEF BInv
  <2>4. Live' = Live  BY <1>4 DEF Live
  <2>5. Family'  BY <1>0, <1>1, <1>2, <1>4, <2>1, <2>4 DEF BInv, Family
  <2> QED  BY <2>3, <2>5 DEF BInv
<1>5. CASE /\ pc' = [pc EXCEPT ![p] = "cancelling"]
           /\ branch' = CancelledBranches(Children(p) \ {b}, [branch EXCEPT ![b] = "back"])
  <2>1. branch'[b] = "back"  BY <1>5 DEF CancelledBranches, TypeOK
  <2>2. ASSUME NEW c \in Handlers \ {b}
        PROVE  branch'[c] = IF parent[c] # p THEN branch[c]
                            ELSE CASE branch[c] = "ready" -> "back"
                                   [] branch[c] = "regain" -> "lost"
                                   [] OTHER -> branch[c]
    <3>1. [branch EXCEPT ![b] = "back"][c] = branch[c]  BY DEF TypeOK
    <3> QED  BY <1>5, <3>1 DEF CancelledBranches, Children
  <2>3. \A c \in Handlers :
             IF parent[c] = p
               THEN /\ branch'[c] = "inside" => branch[c] = "inside"
                    /\ branch'[c] = "regain" => branch[c] \in {"inside", "regain"}
                    /\ branch'[c] \notin {"ready", "none"}
               ELSE branch'[c] = branch[c]
    <3> SUFFICES ASSUME NEW c \in Handlers
                 PROVE  IF parent[c] = p
                          THEN /\ branch'[c] = "inside" => branch[c] = "inside"
                               /\ branch'[c] = "regain" => branch[c] \in {"inside", "regain"}
                               /\ branch'[c] \notin {"ready", "none"}
                          ELSE branch'[c] = branch[c]
      OBVIOUS
    <3>1. parent[c] = p => branch[c] # "none"  BY <1>2, PermitsAssumption DEF BInv, Family
    <3>2. CASE c = b  BY <1>0, <2>1, <3>2
    <3>3. CASE c # b  BY <2>2, <3>1, <3>3
    <3> QED  BY <3>2, <3>3
  <2>4. Family' /\ AtWork' = AtWork  BY <1>1, <1>2, <1>5, <2>3, CancelKeeps DEF BInv
  <2>5. Owing' = Owing \ {b}  BY <2>1, <2>2 DEF Owing
  <2>6. Balanced'  BY <1>1, <1>3, <2>4, <2>5, BranchBringsOne DEF BInv
  <2> QED  BY <2>4, <2>6 DEF BInv
<1> QED  BY <1>0, <1>4, <1>5 DEF Regain

LEMMA CancelFannedBalances ==
  ASSUME TypeOK, BInv, NEW p \in Handlers, CancelFanned(p)
  PROVE  BInv'
<1>1. /\ pc[p] \in {"fanned", "cancelling"} /\ pc' = [pc EXCEPT ![p] = "cancelling"]
      /\ branch' = CancelledBranches(Children(p), branch) /\ UNCHANGED <<parent, permits>>
  BY DEF CancelFanned
<1>2. ASSUME NEW c \in Handlers
      PROVE  branch'[c] = IF parent[c] # p THEN branch[c]
                          ELSE CASE branch[c] = "ready" -> "back"
                                 [] branch[c] = "regain" -> "lost"
                                 [] OTHER -> branch[c]
  BY <1>1 DEF CancelledBranches, Children
<1>3. \A c \in Handlers : parent[c] = p => branch[c] # "none"
  BY PermitsAssumption DEF BInv, Family
<1>4. \A c \in Handlers :
           IF parent[c] = p
             THEN /\ branch'[c] = "inside" => branch[c] = "inside"
                  /\ branch'[c] = "regain" => branch[c] \in {"inside", "regain"}
                  /\ branch'[c] \notin {"ready", "none"}
             ELSE branch'[c] = branch[c]
  BY <1>2, <1>3
<1>5. Family' /\ AtWork' = AtWork  BY <1>1, <1>4, CancelKeeps DEF BInv
<1>6. Owing' = Owing  BY <1>2 DEF Owing
<1> QED  BY <1>1, <1>5, <1>6 DEF BInv, Balanced

\* The steps of a handler that has no branch of its own over: it starts, waits for a
\* permit, begins branches, or one of them lends its permit out.
LEMMA BeginBalances ==
  ASSUME TypeOK, BInv, NEW h \in Handlers,
         \/ (h \in Free /\ Emit(h)) \/ Acquire(h) \/ YieldPermit(h) \/ CancelWaiting(h)
         \/ \E B \in SUBSET Free : FanOut(h, B)
  PROVE  BInv'
<1>0. Balanced /\ Family  BY DEF BInv
<1>1. CASE h \in Free /\ Emit(h)
  <2>1. /\ pc[h] = "unborn" /\ branch[h] = "none" /\ pc' = [pc EXCEPT ![h] = "waiting"]
        /\ UNCHANGED <<parent, branch, permits>>
    BY <1>1 DEF Free, Unborn, Emit
  <2>2. pc'[h] = "waiting" /\ \A b \in Handlers \ {h} : pc'[b] = pc[b]  BY <2>1 DEF TypeOK
  <2>3. Family'
    <3>1. \A b \in Handlers : branch[b] # "none" => parent[b] \in Handlers /\ parent[b] # h
      BY <1>0, <2>1 DEF Family, TypeOK
    <3>2. \A b \in Handlers : b \in Live => b \in Live'  BY <2>1, <2>2 DEF Live
    <3> QED  BY <1>0, <2>1, <2>2, <3>1, <3>2 DEF Family
  <2>4. AtWork' = AtWork /\ Owing' = Owing  BY <2>1, <2>2 DEF AtWork, Owing
  <2> QED  BY <1>0, <2>1, <2>3, <2>4 DEF BInv, Balanced
<1>2. CASE Acquire(h)
  <2>1. /\ pc[h] = "waiting" /\ pc' = [pc EXCEPT ![h] = "running"] /\ permits' = permits - 1
        /\ UNCHANGED <<parent, branch>>
    BY <1>2 DEF Acquire
  <2>2. pc'[h] = "running" /\ \A b \in Handlers \ {h} : pc'[b] = pc[b]  BY <2>1 DEF TypeOK
  <2>3. Family'
    <3>1. \A b \in Handlers : branch[b] # "none" => parent[b] \in Handlers /\ parent[b] # h
      BY <1>0, <2>1 DEF Family, TypeOK
    <3>2. \A b \in Handlers : b \in Live => b \in Live'  BY <2>1, <2>2 DEF Live
    <3> QED  BY <1>0, <2>1, <2>2, <3>1, <3>2 DEF Family
  <2>4. h \notin AtWork /\ AtWork' = AtWork \cup {h} /\ Owing' = Owing
    BY <2>1, <2>2 DEF AtWork, Owing
  <2> QED  BY <1>0, <2>1, <2>3, <2>4, WorkTakesOne DEF BInv
<1>3. CASE YieldPermit(h)
  <2>1. /\ branch[h] = "ready" /\ pc[h] = "unborn" /\ permits' = permits + 1
        /\ branch' = [branch EXCEPT ![h] = "inside"] /\ pc' = [pc EXCEPT ![h] = "waiting"]
        /\ parent' = parent
    BY <1>3 DEF YieldPermit
  <2>2. /\ pc'[h] = "waiting" /\ \A b \in Handlers \ {h} : pc'[b] = pc[b]
        /\ branch'[h] = "inside" /\ \A b \in Handlers \ {h} : branch'[b] = branch[b]
    BY <2>1 DEF TypeOK
  <2>3. Family'
    <3>1. \A b \in Handlers : branch[b] # "none" => parent[b] \in Handlers /\ parent[b] # h
      BY <1>0, <2>1 DEF Family, TypeOK
    <3>2. \A b \in Handlers : b \in Live => b \in Live'  BY <2>1, <2>2 DEF Live
    <3>3. h \in Live'  BY <2>2 DEF Live
    <3> QED  BY <1>0, <2>1, <2>2, <3>1, <3>2, <3>3 DEF Family
  <2>4. h \notin Owing /\ Owing' = Owing \cup {h} /\ AtWork' = AtWork
    BY <2>1, <2>2 DEF AtWork, Owing
  <2> QED  BY <1>0, <2>1, <2>3, <2>4, BranchLendsOne DEF BInv
<1>4. CASE CancelWaiting(h)
  <2>1. /\ pc[h] = "waiting" /\ pc' = [pc EXCEPT ![h] = "cancelled"] /\ DispatchOver(h)
        /\ UNCHANGED <<parent, permits>>
    BY <1>4 DEF CancelWaiting
  <2>2. Family' /\ Owing' = Owing  BY <1>0, <2>1, EndKeepsFamily
  <2>3. AtWork' = AtWork  BY <2>1 DEF AtWork, TypeOK
  <2> QED  BY <1>0, <2>1, <2>2, <2>3 DEF BInv, Balanced
<1>5. ASSUME NEW B \in SUBSET Free, FanOut(h, B) PROVE BInv'
  <2>1. /\ pc[h] = "running" /\ pc' = [pc EXCEPT ![h] = "fanned"] /\ UNCHANGED permits
        /\ \A b \in Handlers : parent'[b] = (IF b \in B THEN h ELSE parent[b])
        /\ \A b \in Handlers : branch'[b] = (IF b \in B THEN "ready" ELSE branch[b])
    BY <1>5 DEF FanOut
  <2>2. pc'[h] = "fanned" /\ \A b \in Handlers \ {h} : pc'[b] = pc[b]  BY <2>1 DEF TypeOK
  <2>3. \A b \in B : b \in Handlers /\ pc[b] = "unborn" /\ branch[b] = "none" /\ b # h
    BY <2>1 DEF Free, Unborn
  <2>4. \A b \in Handlers : branch[b] # "none" => parent[b] \in Handlers /\ parent[b] # h
    BY <1>0, <2>1 DEF Family, TypeOK
  <2>5. Family'
    <3> SUFFICES ASSUME NEW b \in Handlers
                 PROVE  /\ parent'[b] = NoHandler <=> branch'[b] = "none"
                        /\ branch'[b] = "ready" => pc'[b] = "unborn" /\ pc'[parent'[b]] = "fanned"
                        /\ branch'[b] = "inside" => b \in Live'
                        /\ branch'[b] \in {"inside", "regain"} => pc'[parent'[b]] \in {"fanned", "cancelling"}
                        /\ branch'[b] # "none" => pc'[parent'[b]] \in {"fanned", "cancelling", "cancelled"}
                        /\ branch'[b] = "lost" => pc'[parent'[b]] # "fanned"
      BY DEF Family
    <3>1. CASE b \in B  BY <2>1, <2>2, <2>3, <3>1, PermitsAssumption
    <3>2. CASE b \notin B
      <4>1. b \in Live => b \in Live'  BY <2>1, <2>2 DEF Live
      <4>2. pc[b] = "unborn" => pc'[b] = "unborn"  BY <2>1, <2>2
      <4> QED  BY <1>0, <2>1, <2>2, <2>4, <3>2, <4>1, <4>2 DEF Family
    <3> QED  BY <3>1, <3>2
  <2>6. AtWork' = AtWork  BY <2>1, <2>2 DEF AtWork
  <2>7. Owing' = Owing  BY <2>1, <2>3 DEF Owing
  <2> QED  BY <1>0, <2>1, <2>5, <2>6, <2>7 DEF BInv, Balanced
<1> QED  BY <1>1, <1>2, <1>3, <1>4, <1>5

\* A handler whose branches are back takes up its chunk: none of them was lost.
LEMMA GoOnBalances ==
  ASSUME TypeOK, BInv, NEW h \in Handlers, GoOn(h)
  PROVE  BInv'
<1>1. /\ pc[h] = "fanned" /\ BranchesOver(h) /\ pc' = [pc EXCEPT ![h] = "running"]
      /\ UNCHANGED permits
      /\ \A b \in Handlers : parent'[b] = (IF parent[b] = h THEN NoHandler ELSE parent[b])
      /\ \A b \in Handlers : branch'[b] = (IF parent[b] = h THEN "none" ELSE branch[b])
  BY DEF GoOn
<1>2. pc'[h] = "running" /\ \A b \in Handlers \ {h} : pc'[b] = pc[b]  BY <1>1 DEF TypeOK
<1>3. \A b \in Handlers : parent[b] = h => branch[b] = "back"
  BY <1>1 DEF BInv, Family, BranchesOver, Children
<1>4. AtWork' = AtWork  BY <1>1, <1>2 DEF AtWork
<1>5. Owing' = Owing  BY <1>1, <1>3 DEF Owing
<1>6. \A b \in Handlers : /\ b \in Live => b \in Live'
                          /\ pc[b] = "unborn" => pc'[b] = "unborn"
  BY <1>1, <1>2 DEF Live
<1>7. \A b \in Handlers : branch[b] # "none" => parent[b] \in Handlers
  BY DEF BInv, Family, TypeOK
<1>8. Family'  BY <1>1, <1>2, <1>6, <1>7 DEF BInv, Family
<1> QED  BY <1>1, <1>4, <1>5, <1>8 DEF BInv, Balanced

LEMMA BalanceKept ==
  ASSUME TypeOK, BInv, [Next]_vars
  PROVE  BInv'
<1>1. ASSUME NEW h \in Handlers,
             \/ (h \in Free /\ Emit(h)) \/ (\E B \in SUBSET Free : FanOut(h, B))
             \/ HandlerRaises(h) \/ Step(h)
      PROVE  BInv'
  <2>1. CASE HandlerReturns(h)  BY <2>1, LeaveKeeps DEF HandlerReturns
  <2>2. CASE HandlerRaises(h)  BY <2>2, LeaveKeeps DEF HandlerRaises
  <2>3. CASE CancelRunning(h)  BY <2>3, LeaveKeeps DEF CancelRunning
  <2>4. CASE Unwind(h)  BY <2>4, LeaveKeeps DEF Unwind
  <2> QED
    BY <1>1, <2>1, <2>2, <2>3, <2>4, BeginBalances, RegainBalances, GoOnBalances,
       CancelFannedBalances DEF Step
<1>2. CASE DrainTimesOut
  <2>1. UNCHANGED <<pc, parent, branch, permits>>  BY <1>2 DEF DrainTimesOut
  <2> QED  BY <2>1 DEF BInv, Balanced, Family, AtWork, Owing, Live
<1>3. CASE UNCHANGED vars
  <2>1. UNCHANGED <<pc, parent, branch, permits>>  BY <1>3 DEF vars
  <2> QED  BY <2>1 DEF BInv, Balanced, Family, AtWork, Owing, Live
<1>4. \A h \in Free : h \in Handlers  BY DEF Free, Unborn
<1> QED  BY <1>1, <1>2, <1>3, <1>4 DEF Next

LEMMA InitBalanced == Init => BInv
<1> SUFFICES ASSUME Init PROVE BInv  OBVIOUS
<1>1. AtWork = {} /\ Owing = {}  BY DEF Init, AtWork, Owing
<1>2. Balanced  BY <1>1, FS_EmptySet, PermitsAssumption DEF Balanced, Init
<1>3. Family  BY DEF Init, Family
<1> QED  BY <1>2, <1>3 DEF BInv

\* However handlers fan out, fail and are cancelled: when none is left and no branch was
\* cancelled in, or still owes, the acquire of its `finally`, the semaphore of the execution
\* is back at its first value (run_handler, _async_dispatch_signal_yielding_current_permit).
THEOREM PermitsAreReturned == Spec => []PermitsComeBack
<1>1. TypeOK /\ BInv => PermitsComeBack
  <2> SUFFICES ASSUME TypeOK, BInv, Live = {},
                      \A b \in Handlers : branch[b] \notin {"regain", "lost"}
               PROVE  permits = Permits
    BY DEF PermitsComeBack
  <2>1. AtWork = {}  BY DEF AtWork, Live
  <2>2. Owing = {}  BY DEF Owing, BInv, Family
  <2>3. Cardinality(AtWork) = 0 /\ Cardinality(Owing) = 0  BY <2>1, <2>2, FS_EmptySet
  <2> QED  BY <2>3, PermitsAssumption DEF BInv, Balanced, TypeOK
<1>2. TypeOK /\ BInv /\ [Next]_vars => BInv'  BY BalanceKept
<1> QED  BY <1>1, <1>2, InitBalanced, PermitTypes, PTL DEF Spec

=============================================================================
