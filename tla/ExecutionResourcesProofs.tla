---------------------- MODULE ExecutionResourcesProofs ----------------------
(***************************************************************************)
(* The manager's handles, for any numbers of keys, handles and tasks:      *)
(* types, the reuse table, the count of a handle against those who have    *)
(* it, and what is left in the end.                                        *)
(*                                                                         *)
(* The argument, part by part: a handle gets its key when it is made and   *)
(* never changes it, is ready only from then until its first release or    *)
(* bad health, and the reuse table moves only to a handle that is newer, or*)
(* away from the one that leaves the manager; whoever waits for a provider *)
(* names a handle that was made.  The parts on holders and on leftovers    *)
(* begin with their own.                                                   *)
(***************************************************************************)
EXTENDS ExecutionResources, FiniteSetTheorems, TLAPS

\* What a task awaits is about a key, or about a handle that was made.
Pointers ==
    \A t \in Tasks :
        /\ pc[t] \in {"asking", "checking", "unhealthy", "dropping", "ensuring"} => key[t] \in Keys
        /\ pc[t] \in {"checking", "unhealthy", "dropping", "releasing", "announcing"}
               => mine[t] \in 1 .. count

Keyed == \A h \in 1 .. count : keyOf[h] \in Keys

IInv == TypeOK /\ Pointers /\ Keyed /\ ReuseCurrent

LEMMA MadeAreHandles == TypeOK => 1 .. count \subseteq Handles /\ table \subseteq Handles
<1> QED  BY ResourcesAssumption DEF TypeOK, Handles

\* As long as nobody makes or forgets a handle, the reuse table stays right.
LEMMA ReuseKept ==
  ASSUME ReuseCurrent, Keyed, UNCHANGED <<count, keyOf, scopeOf, table, reuse>>,
         \A h \in table : status'[h] = "ready" => status[h] = "ready"
  PROVE  ReuseCurrent' /\ Keyed'
<1>1. Keyed'  BY DEF Keyed
<1>2. \A k \in Keys : reuse'[k] # None => reuse'[k] \in table' /\ keyOf'[reuse'[k]] = k
  BY DEF ReuseCurrent
<1>3. \A h \in table' :
         status'[h] = "ready" /\ (\A g \in 1 .. count' : keyOf'[g] = keyOf'[h] => g <= h)
             => reuse'[keyOf'[h]] = h
  BY DEF ReuseCurrent
<1> QED  BY <1>1, <1>2, <1>3 DEF ReuseCurrent

\* A handle that leaves takes its own entry with it, and no other.
LEMMA ForgetKeeps ==
  ASSUME TypeOK, ReuseCurrent, Keyed, NEW h \in 1 .. count, Forget(h), UNCHANGED <<count, keyOf, scopeOf>>,
         \A g \in table : status'[g] = "ready" => status[g] = "ready"
  PROVE  /\ ReuseCurrent' /\ Keyed'
         /\ table' \subseteq 1 .. count /\ reuse' \in [Keys -> Handles \cup {None}]
<1>1. /\ table' = table \ {h}
      /\ reuse' = [k \in Keys |-> IF k = keyOf[h] /\ reuse[k] = h THEN None ELSE reuse[k]]
  BY DEF Forget
<1>2. Keyed'  BY DEF Keyed
<1>3. \A k \in Keys : reuse'[k] # None => reuse'[k] \in table' /\ keyOf'[reuse'[k]] = k
  <2> TAKE k \in Keys
  <2> HAVE reuse'[k] # None
  <2>1. reuse'[k] = reuse[k] /\ ~(k = keyOf[h] /\ reuse[k] = h)  BY <1>1
  <2>2. reuse[k] \in table /\ keyOf[reuse[k]] = k  BY <2>1 DEF ReuseCurrent
  <2> QED  BY <1>1, <2>1, <2>2
<1>4. \A g \in table' :
         status'[g] = "ready" /\ (\A f \in 1 .. count' : keyOf'[f] = keyOf'[g] => f <= g)
             => reuse'[keyOf'[g]] = g
  <2> TAKE g \in table'
  <2> HAVE status'[g] = "ready" /\ (\A f \in 1 .. count' : keyOf'[f] = keyOf'[g] => f <= g)
  <2>1. g \in table /\ g # h  BY <1>1
  <2>2. reuse[keyOf[g]] = g  BY <2>1 DEF ReuseCurrent
  <2>3. keyOf[g] \in Keys  BY <2>1 DEF Keyed, TypeOK
  <2> QED  BY <1>1, <2>1, <2>2, <2>3
<1>5. table' \subseteq 1 .. count /\ reuse' \in [Keys -> Handles \cup {None}]
  BY <1>1 DEF TypeOK
<1> QED  BY <1>2, <1>3, <1>4, <1>5 DEF ReuseCurrent

\* The last handle that is made for a key is the one that can be reused.
LEMMA CreateKeeps ==
  ASSUME IInv, NEW t \in Tasks, Create(t)
  PROVE  IInv'
<1> DEFINE h == count + 1
<1>1. /\ pc[t] = "ensuring" /\ count < MaxHandles
      /\ count' = h /\ keyOf' = [keyOf EXCEPT ![h] = key[t]]
      /\ status' = [status EXCEPT ![h] = "ready"]
      /\ refs' = [refs EXCEPT ![h] = 1]
      /\ table' = table \cup {h} /\ up' = up \cup {h}
      /\ reuse' = [reuse EXCEPT ![key[t]] = h]
      /\ mine' = [mine EXCEPT ![t] = h]
      /\ pc' = [pc EXCEPT ![t] = "announcing"]
      /\ scopeOf' = [scopeOf EXCEPT ![h] = ScopeFor(t, key[t])]
      /\ UNCHANGED <<key, held, left, faults, cancels, excused, kept>>
  BY DEF Create, Goes
<1>2. count \in Nat /\ MaxHandles \in Nat /\ h \in Handles /\ h \in 1 .. count'
  BY <1>1, ResourcesAssumption DEF IInv, TypeOK, Handles
<1>3. key[t] \in Keys  BY <1>1 DEF IInv, Pointers
<1>4. \A g \in 1 .. count : g \in Handles /\ g # h /\ g < h /\ g \in 1 .. count'
  BY <1>1, <1>2 DEF Handles, IInv, TypeOK
<1>5. 1 .. count' = (1 .. count) \cup {h}  BY <1>1, <1>2
<1>6. \A g \in 1 .. count : keyOf'[g] = keyOf[g] /\ status'[g] = status[g]
  BY <1>1, <1>4 DEF IInv, TypeOK
<1>7. keyOf'[h] = key[t] /\ status'[h] = "ready"  BY <1>1, <1>2 DEF IInv, TypeOK
<1>8. table \subseteq 1 .. count /\ up \subseteq 1 .. count  BY DEF IInv, TypeOK
<1> HIDE DEF h
<1>9. TypeOK'
  <2>1. count' \in 0 .. MaxHandles  BY <1>1, <1>2 DEF h
  <2>2. keyOf' \in [Handles -> Keys \cup {None}]  BY <1>1, <1>3 DEF IInv, TypeOK
  <2>3. status' \in [Handles -> Statuses] /\ refs' \in [Handles -> Nat]
    BY <1>1 DEF IInv, TypeOK, Statuses
  <2>4. table' \subseteq 1 .. count' /\ up' \subseteq 1 .. count'  BY <1>1, <1>5, <1>8
  <2>5. reuse' \in [Keys -> Handles \cup {None}] /\ mine' \in [Tasks -> Handles \cup {None}]
    BY <1>1, <1>2 DEF IInv, TypeOK
  <2>6. pc' \in [Tasks -> Places]  BY <1>1 DEF IInv, TypeOK, Places
  <2>7. scopeOf' \in [Handles -> ScopeNames]
    BY <1>1 DEF IInv, TypeOK, ScopeFor, ScopeNames
  <2> QED  BY <1>1, <2>1, <2>2, <2>3, <2>4, <2>5, <2>6, <2>7 DEF IInv, TypeOK
<1>10. Pointers'
  <2> SUFFICES ASSUME NEW u \in Tasks
               PROVE  /\ pc'[u] \in {"asking", "checking", "unhealthy", "dropping", "ensuring"}
                             => key'[u] \in Keys
                      /\ pc'[u] \in {"checking", "unhealthy", "dropping", "releasing", "announcing"}
                             => mine'[u] \in 1 .. count'
    BY DEF Pointers
  <2>1. CASE u = t  BY <1>1, <1>2, <1>3, <2>1 DEF IInv, TypeOK
  <2>2. CASE u # t
    <3>1. pc'[u] = pc[u] /\ mine'[u] = mine[u] /\ key'[u] = key[u]
      BY <1>1, <2>2 DEF IInv, TypeOK
    <3> QED  BY <3>1, <1>5 DEF IInv, Pointers
  <2> QED  BY <2>1, <2>2
<1>11. Keyed'  BY <1>3, <1>5, <1>6, <1>7 DEF IInv, Keyed
<1>12. \A k \in Keys : reuse'[k] # None => reuse'[k] \in table' /\ keyOf'[reuse'[k]] = k
  <2> TAKE k \in Keys
  <2> HAVE reuse'[k] # None
  <2>1. CASE k = key[t]
    <3>1. reuse'[k] = h  BY <1>1, <2>1 DEF IInv, TypeOK
    <3>2. h \in table'  BY <1>1
    <3> QED  BY <1>7, <2>1, <3>1, <3>2
  <2>2. CASE k # key[t]
    <3>1. reuse'[k] = reuse[k]  BY <1>1, <2>2 DEF IInv, TypeOK
    <3>2. reuse[k] \in table /\ keyOf[reuse[k]] = k  BY <3>1 DEF IInv, ReuseCurrent
    <3>3. reuse[k] \in table' /\ reuse[k] \in 1 .. count  BY <1>1, <1>8, <3>2
    <3>4. keyOf'[reuse[k]] = k  BY <1>6, <3>2, <3>3
    <3> QED  BY <3>1, <3>3, <3>4
  <2> QED  BY <2>1, <2>2
<1>13. \A g \in table' :
          status'[g] = "ready" /\ (\A f \in 1 .. count' : keyOf'[f] = keyOf'[g] => f <= g)
              => reuse'[keyOf'[g]] = g
  <2> TAKE g \in table'
  <2> HAVE status'[g] = "ready" /\ (\A f \in 1 .. count' : keyOf'[f] = keyOf'[g] => f <= g)
  <2>1. CASE g = h  BY <1>1, <1>3, <1>7, <2>1 DEF IInv, TypeOK
  <2>2. CASE g # h
    <3>1. g \in table /\ g \in 1 .. count  BY <1>1, <1>8, <2>2
    <3>2. keyOf[g] # key[t]
      <4> SUFFICES ASSUME keyOf[g] = key[t] PROVE FALSE  OBVIOUS
      <4>1. h <= g  BY <1>2, <1>6, <1>7, <3>1
      <4> QED  BY <4>1, <3>1, <1>2, <1>4
    <3>3. \A f \in 1 .. count : keyOf[f] = keyOf[g] => f <= g  BY <1>5, <1>6, <3>1
    <3>4. reuse[keyOf[g]] = g  BY <1>6, <3>1, <3>3 DEF IInv, ReuseCurrent
    <3>5. keyOf[g] \in Keys  BY <3>1 DEF IInv, Keyed
    <3> QED  BY <1>1, <1>6, <3>1, <3>2, <3>4, <3>5 DEF IInv, TypeOK
  <2> QED  BY <2>1, <2>2
<1> QED  BY <1>9, <1>10, <1>11, <1>12, <1>13 DEF IInv, ReuseCurrent

\* A step that leaves the tables alone, and moves one task without a new pointer.
LEMMA PointersKept ==
  ASSUME TypeOK, Pointers, NEW t \in Tasks, NEW place \in Places, Goes(t, place),
         UNCHANGED <<count, key>>,
         \/ mine' = mine
         \/ \E h \in 1 .. count : mine' = [mine EXCEPT ![t] = h],
         \/ place \in {"idle", "using", "returning", "done"}
         \/ place = "asking" /\ key[t] \in Keys
         \/ place \in {"checking", "unhealthy", "dropping", "ensuring"} /\ key[t] \in Keys
              /\ (mine'[t] \in 1 .. count \/ place = "ensuring")
         \/ place = "releasing" /\ mine'[t] \in 1 .. count
  PROVE  Pointers' /\ pc' \in [Tasks -> Places] /\ mine' \in [Tasks -> Handles \cup {None}]
<1>1. pc' = [pc EXCEPT ![t] = place]  BY DEF Goes
<1>2. pc' \in [Tasks -> Places]  BY <1>1 DEF TypeOK
<1>3. mine' \in [Tasks -> Handles \cup {None}]  BY MadeAreHandles DEF TypeOK
<1>4. ASSUME NEW u \in Tasks, u # t
      PROVE  pc'[u] = pc[u] /\ mine'[u] = mine[u]
  BY <1>1, <1>4 DEF TypeOK
<1>5. pc'[t] = place  BY <1>1 DEF TypeOK
<1>6. Pointers'
  <2> SUFFICES ASSUME NEW u \in Tasks
               PROVE  /\ pc'[u] \in {"asking", "checking", "unhealthy", "dropping", "ensuring"}
                             => key'[u] \in Keys
                      /\ pc'[u] \in {"checking", "unhealthy", "dropping", "releasing", "announcing"}
                             => mine'[u] \in 1 .. count'
    BY DEF Pointers
  <2>1. CASE u = t  BY <1>5, <2>1
  <2>2. CASE u # t  BY <1>4, <2>2 DEF Pointers
  <2> QED  BY <2>1, <2>2
<1> QED  BY <1>2, <1>3, <1>6

\* The steps of an ensure, but for Create.
LEMMA EnsureKeeps ==
  ASSUME IInv, NEW t \in Tasks,
         \/ (t \in Users /\ Ask(t)) \/ Denied(t) \/ LookUp(t) \/ Healthy(t) \/ Unhealthy(t)
         \/ DropUnhealthy(t) \/ CreateFails(t) \/ Announced(t)
  PROVE  IInv'
<1> USE DEF IInv
<1>1. CASE t \in Users /\ Ask(t)
  <2>1. PICK k \in left[t] : /\ key' = [key EXCEPT ![t] = k]
                            /\ left' = [left EXCEPT ![t] = @ \ {k}]
    BY <1>1 DEF Ask
  <2>2. k \in Keys  BY <2>1 DEF TypeOK
  <2>3. /\ pc' = [pc EXCEPT ![t] = "asking"]
        /\ UNCHANGED <<handleVars, mine, held, faults, cancels, excused, kept>>
    BY <1>1 DEF Ask, Goes
  <2>4. TypeOK'  BY <2>1, <2>2, <2>3 DEF TypeOK, handleVars, Places
  <2>5. Pointers'
    <3>1. \A u \in Tasks : /\ u # t => pc'[u] = pc[u] /\ key'[u] = key[u]
                           /\ u = t => pc'[u] = "asking" /\ key'[u] = k
      BY <2>1, <2>3 DEF TypeOK
    <3> QED  BY <2>2, <2>3, <3>1 DEF Pointers, handleVars
  <2>6. ReuseCurrent' /\ Keyed'  BY <2>3, ReuseKept DEF handleVars
  <2> QED  BY <2>4, <2>5, <2>6
<1>2. CASE Denied(t) \/ CreateFails(t)
  <2>1. /\ UNCHANGED <<handleVars, key, mine, held, left, cancels, excused, kept>>
        /\ faults' \in 0 .. MaxFaults
        /\ \E place \in {"returning", "done"} : Goes(t, place)
    BY <1>2, ResourcesAssumption DEF Denied, CreateFails, EnsureRaises, Fault, TypeOK
  <2>2. Pointers' /\ pc' \in [Tasks -> Places]
    BY <2>1, PointersKept DEF handleVars, Places
  <2>3. TypeOK'  BY <2>1, <2>2 DEF TypeOK, handleVars
  <2>4. ReuseCurrent' /\ Keyed'  BY <2>1, ReuseKept DEF handleVars
  <2> QED  BY <2>2, <2>3, <2>4
<1>3. CASE LookUp(t)
  <2> DEFINE h == reuse[key[t]]
  <2>1. /\ pc[t] = "asking"
        /\ UNCHANGED <<count, keyOf, scopeOf, refs, table, reuse, up, key, held, left, faults, cancels, kept>>
        /\ \/ Goes(t, "ensuring") /\ UNCHANGED <<status, mine, excused>>
           \/ /\ h \in table /\ mine' = [mine EXCEPT ![t] = h]
              /\ Goes(t, "checking") /\ UNCHANGED <<status, excused>>
           \/ h \in table /\ Drop(t, h)
    BY <1>3 DEF LookUp
  <2>2. key[t] \in Keys  BY <2>1 DEF Pointers
  <2>3. CASE Goes(t, "ensuring") /\ UNCHANGED <<status, mine, excused>>
    <3>1. Pointers' /\ pc' \in [Tasks -> Places]  BY <2>1, <2>2, <2>3, PointersKept DEF Places
    <3>2. ReuseCurrent' /\ Keyed'  BY <2>1, <2>3, ReuseKept
    <3> QED  BY <2>1, <2>3, <3>1, <3>2 DEF TypeOK
  <2>4. CASE /\ h \in table /\ mine' = [mine EXCEPT ![t] = h]
             /\ \E place \in {"checking", "dropping"} : Goes(t, place)
             /\ excused' \in SUBSET Handles /\ status' \in [Handles -> Statuses]
             /\ \A g \in table : status'[g] = "ready" => status[g] = "ready"
    <3>1. h \in 1 .. count /\ mine'[t] = h  BY <2>4 DEF TypeOK
    <3>2. PICK place \in {"checking", "dropping"} : Goes(t, place)  BY <2>4
    <3>3. /\ Pointers' /\ pc' \in [Tasks -> Places]
          /\ mine' \in [Tasks -> Handles \cup {None}]
      BY <2>1, <2>2, <2>4, <3>1, <3>2, PointersKept DEF Places
    <3>4. ReuseCurrent' /\ Keyed'  BY <2>1, <2>4, ReuseKept
    <3> QED  BY <2>1, <2>4, <3>3, <3>4 DEF TypeOK
  <2>5. CASE h \in table /\ Drop(t, h)
    <3>1. h \in Handles  BY <2>5, MadeAreHandles
    <3>2. /\ mine' = [mine EXCEPT ![t] = h] /\ Goes(t, "dropping")
          /\ excused' = excused \cup {h} /\ status' = [status EXCEPT ![h] = "releasing"]
      BY <2>5 DEF Drop
    <3>3. excused' \in SUBSET Handles /\ status' \in [Handles -> Statuses]
      BY <3>1, <3>2 DEF TypeOK, Statuses
    <3>4. \A g \in table : status'[g] = "ready" => status[g] = "ready"
      BY <3>2, MadeAreHandles DEF TypeOK
    <3> QED  BY <2>4, <2>5, <3>2, <3>3, <3>4
  <2>6. CASE /\ h \in table /\ mine' = [mine EXCEPT ![t] = h]
             /\ Goes(t, "checking") /\ UNCHANGED <<status, excused>>
    BY <2>4, <2>6 DEF TypeOK
  <2> HIDE DEF h
  <2> QED  BY <2>1, <2>3, <2>5, <2>6
<1>4. CASE Healthy(t)
  <2>1. /\ pc[t] = "checking"
        /\ refs' = [refs EXCEPT ![mine[t]] = @ + 1]
        /\ held' = [held EXCEPT ![t] = @ \cup {mine[t]}]
        /\ \E place \in {"idle", "using", "done"} : Goes(t, place)
        /\ excused' = excused \/ excused' = excused \cup {mine[t]}
        /\ UNCHANGED <<count, keyOf, scopeOf, status, table, reuse, up, key, mine, left, faults, cancels, kept>>
    BY <1>4 DEF Healthy, Share, Receive
  <2>2. mine[t] \in Handles  BY <2>1, MadeAreHandles DEF Pointers
  <2>3. Pointers' /\ pc' \in [Tasks -> Places]  BY <2>1, PointersKept DEF Places
  <2>4. ReuseCurrent' /\ Keyed'  BY <2>1, ReuseKept
  <2>5. TypeOK'
    <3>1. refs' \in [Handles -> Nat]  BY <2>1, <2>2 DEF TypeOK
    <3>2. held' \in [Tasks -> SUBSET Handles]  BY <2>1, <2>2 DEF TypeOK
    <3>3. excused' \subseteq Handles  BY <2>1, <2>2 DEF TypeOK
    <3> QED  BY <2>1, <2>3, <3>1, <3>2, <3>3 DEF TypeOK
  <2> QED  BY <2>3, <2>4, <2>5
<1>5. CASE Unhealthy(t)
  <2>1. /\ pc[t] = "checking" /\ faults' \in 0 .. MaxFaults
        /\ status' = [status EXCEPT ![mine[t]] = "unhealthy"]
        /\ excused' = excused \cup {mine[t]} /\ Goes(t, "unhealthy")
        /\ UNCHANGED <<count, keyOf, scopeOf, refs, table, reuse, up, key, mine, held, left, cancels, kept>>
    BY <1>5, ResourcesAssumption DEF Unhealthy, Fault, TypeOK
  <2>2. mine[t] \in 1 .. count /\ mine[t] \in Handles /\ key[t] \in Keys
    BY <2>1, MadeAreHandles DEF Pointers
  <2>3. Pointers' /\ pc' \in [Tasks -> Places]  BY <2>1, <2>2, PointersKept DEF Places
  <2>4. \A g \in table : status'[g] = "ready" => status[g] = "ready"
    BY <2>1, <2>2, MadeAreHandles DEF TypeOK
  <2>5. ReuseCurrent' /\ Keyed'  BY <2>1, <2>4, ReuseKept
  <2>6. TypeOK'  BY <2>1, <2>2, <2>3 DEF TypeOK, Statuses
  <2> QED  BY <2>3, <2>5, <2>6
<1>6. CASE DropUnhealthy(t)
  <2>1. /\ pc[t] = "unhealthy"
        /\ UNCHANGED <<count, keyOf, scopeOf, refs, table, reuse, up, key, held, left, faults, cancels, kept>>
        /\ \/ Drop(t, mine[t])
           \/ Goes(t, "ensuring") /\ UNCHANGED <<status, mine, excused>>
    BY <1>6 DEF DropUnhealthy
  <2>2. mine[t] \in 1 .. count /\ mine[t] \in Handles /\ key[t] \in Keys
    BY <2>1, MadeAreHandles DEF Pointers
  <2>3. CASE Goes(t, "ensuring") /\ UNCHANGED <<status, mine, excused>>
    <3>1. Pointers' /\ pc' \in [Tasks -> Places]  BY <2>1, <2>2, <2>3, PointersKept DEF Places
    <3>2. ReuseCurrent' /\ Keyed'  BY <2>1, <2>3, ReuseKept
    <3> QED  BY <2>1, <2>3, <3>1, <3>2 DEF TypeOK
  <2>4. CASE Drop(t, mine[t])
    <3>1. /\ mine' = [mine EXCEPT ![t] = mine[t]] /\ Goes(t, "dropping")
          /\ excused' = excused \cup {mine[t]}
          /\ status' = [status EXCEPT ![mine[t]] = "releasing"]
      BY <2>4 DEF Drop
    <3>2. mine' = mine  BY <3>1 DEF TypeOK
    <3>3. Pointers' /\ pc' \in [Tasks -> Places]
      BY <2>1, <2>2, <3>1, <3>2, PointersKept DEF Places
    <3>4. \A g \in table : status'[g] = "ready" => status[g] = "ready"
      BY <2>2, <3>1, MadeAreHandles DEF TypeOK
    <3>5. ReuseCurrent' /\ Keyed'  BY <2>1, <3>4, ReuseKept
    <3>6. TypeOK'  BY <2>1, <2>2, <3>1, <3>2, <3>3 DEF TypeOK, Statuses
    <3> QED  BY <3>3, <3>5, <3>6
  <2> QED  BY <2>1, <2>3, <2>4
<1>7. CASE Announced(t)
  <2>1. /\ pc[t] = "announcing"
        /\ held' = [held EXCEPT ![t] = @ \cup {mine[t]}]
        /\ \E place \in {"idle", "using", "done"} : Goes(t, place)
        /\ UNCHANGED <<handleVars, key, mine, left, faults, cancels, excused, kept>>
    BY <1>7 DEF Announced, Receive
  <2>2. mine[t] \in Handles  BY <2>1, MadeAreHandles DEF Pointers
  <2>3. Pointers' /\ pc' \in [Tasks -> Places]
    BY <2>1, PointersKept DEF Places, handleVars
  <2>4. ReuseCurrent' /\ Keyed'  BY <2>1, ReuseKept DEF handleVars
  <2>5. TypeOK'  BY <2>1, <2>2, <2>3 DEF TypeOK, handleVars
  <2> QED  BY <2>3, <2>4, <2>5
<1> QED  BY <1>1, <1>2, <1>3, <1>4, <1>5, <1>6, <1>7

\* The steps of a release.
LEMMA ReleaseKeeps ==
  ASSUME IInv, NEW t \in Tasks,
         Released(t) \/ ReleaseFails(t) \/ (\E h \in Handles : Release(t, h)) \/ AllReturned(t)
  PROVE  IInv'
<1> USE DEF IInv
<1>1. CASE Released(t)
  <2>1. /\ pc[t] \in {"dropping", "releasing"}
        /\ status' = [status EXCEPT ![mine[t]] = "released"]
        /\ up' = up \ {mine[t]} /\ Forget(mine[t])
        /\ \/ \E place \in {"returning", "done"} : Goes(t, place)
           \/ pc[t] = "dropping" /\ Goes(t, "ensuring")
        /\ UNCHANGED <<count, keyOf, scopeOf, refs, key, mine, held, left, faults, cancels, kept, excused>>
    BY <1>1 DEF Released, EnsureRaises, ReleaseRaises
  <2>2. mine[t] \in 1 .. count /\ mine[t] \in Handles  BY <2>1, MadeAreHandles DEF Pointers
  <2>3. pc[t] = "dropping" => key[t] \in Keys  BY DEF Pointers
  <2>4. Pointers' /\ pc' \in [Tasks -> Places]  BY <2>1, <2>2, <2>3, PointersKept DEF Places
  <2>5. \A g \in table : status'[g] = "ready" => status[g] = "ready"
    BY <2>1, <2>2, MadeAreHandles DEF TypeOK
  <2>6. /\ ReuseCurrent' /\ Keyed'
        /\ table' \subseteq 1 .. count /\ reuse' \in [Keys -> Handles \cup {None}]
    BY <2>1, <2>2, <2>5, ForgetKeeps
  <2>7. TypeOK'  BY <2>1, <2>2, <2>4, <2>6 DEF TypeOK, Statuses
  <2> QED  BY <2>4, <2>6, <2>7
<1>2. CASE ReleaseFails(t)
  <2>1. /\ pc[t] \in {"dropping", "releasing"} /\ faults' \in 0 .. MaxFaults
        /\ status' = [status EXCEPT ![mine[t]] = "failed"]
        /\ \E place \in {"returning", "done"} : Goes(t, place)
        /\ UNCHANGED <<count, keyOf, scopeOf, refs, table, reuse, up, key, mine, held, left, cancels, kept, excused>>
    BY <1>2, ResourcesAssumption DEF ReleaseFails, EnsureRaises, ReleaseRaises, Fault, TypeOK
  <2>2. mine[t] \in Handles  BY <2>1, MadeAreHandles DEF Pointers
  <2>3. Pointers' /\ pc' \in [Tasks -> Places]  BY <2>1, PointersKept DEF Places
  <2>4. \A g \in table : status'[g] = "ready" => status[g] = "ready"
    BY <2>1, <2>2, MadeAreHandles DEF TypeOK
  <2>5. ReuseCurrent' /\ Keyed'  BY <2>1, <2>4, ReuseKept
  <2>6. TypeOK'  BY <2>1, <2>2, <2>3 DEF TypeOK, Statuses
  <2> QED  BY <2>3, <2>5, <2>6
<1>3. ASSUME NEW h \in Handles, Release(t, h) PROVE IInv'
  <2>1. /\ pc[t] = "returning" /\ held' = [held EXCEPT ![t] = @ \ {h}]
        /\ excused' = excused \/ excused' = excused \cup {h}
        /\ UNCHANGED <<count, keyOf, scopeOf, table, reuse, up, key, left, faults, cancels, kept>>
    BY <1>3 DEF Release
  <2>2. held' \in [Tasks -> SUBSET Handles] /\ excused' \in SUBSET Handles
    BY <2>1 DEF TypeOK
  <2>3. CASE UNCHANGED <<status, refs, pc, mine>>
    <3>1. Pointers'  BY <2>1, <2>3 DEF Pointers
    <3>2. ReuseCurrent' /\ Keyed'  BY <2>1, <2>3, ReuseKept
    <3> QED  BY <2>1, <2>2, <2>3, <3>1, <3>2 DEF TypeOK
  <2>4. CASE /\ ~LastReference(h) /\ refs' = [refs EXCEPT ![h] = @ - 1]
             /\ UNCHANGED <<status, pc, mine>>
    <3>1. refs' \in [Handles -> Nat]  BY <2>4 DEF LastReference, TypeOK
    <3>2. Pointers'  BY <2>1, <2>4 DEF Pointers
    <3>3. ReuseCurrent' /\ Keyed'  BY <2>1, <2>4, ReuseKept
    <3> QED  BY <2>1, <2>2, <2>4, <3>1, <3>2, <3>3 DEF TypeOK
  <2>5. CASE /\ h \in table /\ status' = [status EXCEPT ![h] = "releasing"]
             /\ mine' = [mine EXCEPT ![t] = h] /\ Goes(t, "releasing") /\ UNCHANGED refs
    <3>1. h \in 1 .. count /\ mine'[t] = h  BY <2>5 DEF TypeOK
    <3>2. /\ Pointers' /\ pc' \in [Tasks -> Places]
          /\ mine' \in [Tasks -> Handles \cup {None}]
      BY <2>1, <2>5, <3>1, PointersKept DEF Places
    <3>3. \A g \in table : status'[g] = "ready" => status[g] = "ready"
      BY <2>5, MadeAreHandles DEF TypeOK
    <3>4. ReuseCurrent' /\ Keyed'  BY <2>1, <3>3, ReuseKept
    <3>5. status' \in [Handles -> Statuses]  BY <2>5 DEF TypeOK, Statuses
    <3> QED  BY <2>1, <2>2, <2>5, <3>2, <3>4, <3>5 DEF TypeOK
  <2> QED  BY <1>3, <2>3, <2>4, <2>5 DEF Release
<1>4. CASE AllReturned(t)
  <2>1. /\ Goes(t, "done")
        /\ UNCHANGED <<handleVars, key, mine, held, left, faults, cancels, excused, kept>>
    BY <1>4 DEF AllReturned
  <2>2. Pointers' /\ pc' \in [Tasks -> Places]  BY <2>1, PointersKept DEF Places, handleVars
  <2>3. ReuseCurrent' /\ Keyed'  BY <2>1, ReuseKept DEF handleVars
  <2> QED  BY <2>1, <2>2, <2>3 DEF TypeOK, handleVars
<1> QED  BY <1>1, <1>2, <1>3, <1>4

\* Who releases, and cancellation.
LEMMA OthersKeep ==
  ASSUME IInv, NEW t \in Tasks,
         \/ Cancel(t) \/ (t \in Actions /\ Finish(t))
         \/ (t \in Closers /\ Close(t)) \/ (t \in Scopes /\ ReleaseScope(t))
  PROVE  IInv'
<1> USE DEF IInv
<1>1. UNCHANGED <<count, keyOf, scopeOf, status, refs, table, reuse, key, mine, left, faults, excused>>
  BY DEF Cancel, Finish, Close, ReleaseScope, handleVars
<1>2. \E place \in {"returning", "done"} : Goes(t, place)
  BY DEF Cancel, Finish, Close, ReleaseScope
<1>3. held' \in [Tasks -> SUBSET Handles]
  <2>1. CASE Cancel(t)  BY <2>1 DEF Cancel, TypeOK
  <2>2. CASE Finish(t)  BY <2>2 DEF Finish, TypeOK
  <2>3. CASE t \in Closers /\ Close(t)
    <3>1. ClosedBy[t] \in Tasks  BY <2>3, ResourcesAssumption DEF Tasks, Users
    <3>2. held' = [held EXCEPT ![t] = held[ClosedBy[t]], ![ClosedBy[t]] = {}]
      BY <2>3 DEF Close
    <3> QED  BY <3>1, <3>2 DEF TypeOK
  <2>4. CASE ReleaseScope(t)
    <3>1. held' = [held EXCEPT ![t] = {h \in table : scopeOf[h] = "session"}]
      BY <2>4 DEF ReleaseScope
    <3> QED  BY <3>1, MadeAreHandles DEF TypeOK
  <2> QED  BY <2>1, <2>2, <2>3, <2>4
<1>4. cancels' \in 0 .. MaxCancels /\ up' \subseteq 1 .. count
  <2>1. CASE Cancel(t)
    <3>1. up' = up \/ up' = up \ {mine[t]}  BY <2>1 DEF Cancel
    <3> QED  BY <2>1, <3>1, ResourcesAssumption DEF Cancel, TypeOK
  <2>2. CASE Finish(t) \/ Close(t) \/ ReleaseScope(t)
    BY <2>2 DEF Finish, Close, ReleaseScope, handleVars, TypeOK
  <2> QED  BY <2>1, <2>2
<1>5. Pointers' /\ pc' \in [Tasks -> Places]  BY <1>1, <1>2, PointersKept DEF Places
<1>6. ReuseCurrent' /\ Keyed'  BY <1>1, ReuseKept
<1>7. kept' \subseteq Handles
  <2>1. CASE Finish(t)  BY <2>1 DEF Finish, TypeOK
  <2>2. CASE Cancel(t) \/ Close(t) \/ ReleaseScope(t)
    BY <2>2 DEF Cancel, Close, ReleaseScope, TypeOK
  <2> QED  BY <2>1, <2>2
<1>8. TypeOK'  BY <1>1, <1>3, <1>4, <1>5, <1>7 DEF TypeOK
<1> QED  BY <1>5, <1>6, <1>8

-----------------------------------------------------------------------------
LEMMA InitInv == Init => IInv
<1> SUFFICES ASSUME Init PROVE IInv  OBVIOUS
<1>1. TypeOK
  <2>1. left \in [Tasks -> SUBSET Keys]  BY ResourcesAssumption DEF Init
  <2>2. 0 \in 0 .. MaxHandles /\ 0 \in 0 .. MaxFaults /\ 0 \in 0 .. MaxCancels
    BY ResourcesAssumption
  <2>3. scopeOf \in [Handles -> ScopeNames]  BY DEF Init, ScopeNames
  <2> QED  BY <2>1, <2>2, <2>3 DEF Init, TypeOK, Statuses, Places
<1>2. Pointers  BY DEF Init, Pointers
<1>3. Keyed  BY DEF Init, Keyed
<1>4. ReuseCurrent  BY DEF Init, ReuseCurrent
<1> QED  BY <1>1, <1>2, <1>3, <1>4 DEF IInv

LEMMA Inductive == IInv /\ [Next]_vars => IInv'
<1> SUFFICES ASSUME IInv, [Next]_vars PROVE IInv'  OBVIOUS
<1>1. CASE Next
  <2>1. PICK t \in Tasks :
            \/ Step(t) \/ Unhealthy(t) \/ CreateFails(t) \/ Denied(t) \/ ReleaseFails(t) \/ Cancel(t)
            \/ (t \in Users /\ Ask(t)) \/ (t \in Actions /\ Finish(t))
            \/ (t \in Closers /\ Close(t)) \/ (t \in Scopes /\ ReleaseScope(t))
    BY <1>1 DEF Next, Tasks, Users
  <2> QED  BY <2>1, EnsureKeeps, CreateKeeps, ReleaseKeeps, OthersKeep DEF Step
<1>2. CASE UNCHANGED vars
  <2>1. TypeOK' /\ Pointers'
    BY <1>2 DEF vars, handleVars, taskVars, IInv, TypeOK, Pointers
  <2>2. ReuseCurrent' /\ Keyed'  BY <1>2, ReuseKept DEF vars, handleVars, taskVars, IInv
  <2> QED  BY <2>1, <2>2 DEF IInv
<1> QED  BY <1>1, <1>2

LEMMA Invariance == Spec => []IInv
<1> QED  BY InitInv, Inductive, PTL DEF Spec

\* For any number of keys, handles and tasks every variable of the manager and of its
\* users keeps its type: no reference count goes below zero, and no task releases what
\* was never made (async_ensure, async_release).
THEOREM ResourceTypes == Spec => []TypeOK
<1>1. IInv => TypeOK  BY DEF IInv
<1> QED  BY <1>1, Invariance, PTL

\* Whatever interleaves, fails or is cancelled, a reuse key names a handle of the manager,
\* its own and the last one made while that is ready (async_ensure,
\* _async_release_handle).
THEOREM ReuseStaysCurrent == Spec => []ReuseCurrent
<1>1. IInv => ReuseCurrent  BY DEF IInv
<1> QED  BY <1>1, Invariance, PTL

-----------------------------------------------------------------------------
(***************************************************************************)
(* The holders of a handle.  A handle's count is about everybody with a    *)
(* claim to it: the users who have it or are about to get it, and the      *)
(* closes that took it over.  While it is ready, and was not taken from    *)
(* them, the count covers those claims; so the release of the last         *)
(* reference is the release of the last claim, and whoever else has a      *)
(* handle has a ready one.                                                 *)
(***************************************************************************)
Holders == Users \cup Closers

Has(t, h) == h \in held[t] \/ (pc[t] = "announcing" /\ mine[t] = h)

Claims(h) == {t \in Holders : Has(t, h)}

OnlyMade == \A t \in Tasks : held[t] \subseteq 1 .. count

NewIsNotHeld == \A t \in Tasks : pc[t] = "announcing" => mine[t] \notin held[t]

ReadyIsKept == \A h \in 1 .. count : status[h] = "ready" => h \in table

ReleasedIsNotReady ==
    \A t \in Tasks : pc[t] \in {"dropping", "releasing"} => status[mine[t]] # "ready"

Shape == OnlyMade /\ NewIsNotHeld /\ ReadyIsKept /\ ReleasedIsNotReady

FewClaims == \A h \in Handles : IsFiniteSet(Claims(h))

Counted ==
    \A h \in Handles \ excused : status[h] = "ready" => Cardinality(Claims(h)) <= refs[h]

UsersHaveReady ==
    \A t \in Users : \A h \in Handles \ excused :
        Has(t, h) => h \in table /\ status[h] = "ready"

HInv == IInv /\ Shape /\ FewClaims /\ Counted /\ UsersHaveReady

\* Only t moves.
Moves(t) == \A u \in Tasks \ {t} : pc'[u] = pc[u] /\ mine'[u] = mine[u]

\* Nobody but t gets a handle, and t none that it had no claim to.
NoNewClaim(t) ==
    /\ Moves(t) /\ pc'[t] # "announcing"
    /\ \A u \in Tasks \ {t} : held'[u] \subseteq held[u]
    /\ t \in Holders => \A h \in held'[t] : Has(t, h)

LEMMA HoldersAreTasks == Holders \subseteq Tasks /\ Users \subseteq Holders /\ Closers \subseteq Holders
<1> QED  BY DEF Holders, Tasks

LEMMA NobodyNew ==
  ASSUME NEW t \in Tasks, NoNewClaim(t), NEW u \in Holders, NEW h, Has(u, h)'
  PROVE  Has(u, h)
<1>1. u \in Tasks  BY HoldersAreTasks
<1>2. h \in held'[u] \/ (pc'[u] = "announcing" /\ mine'[u] = h)  BY DEF Has
<1>3. CASE u = t  BY <1>2, <1>3 DEF NoNewClaim
<1>4. CASE u # t  BY <1>1, <1>2, <1>4 DEF NoNewClaim, Moves, Has
<1> QED  BY <1>3, <1>4

LEMMA FewerClaims ==
  ASSUME FewClaims, NEW h \in Handles, \A u \in Holders : Has(u, h)' => Has(u, h)
  PROVE  /\ IsFiniteSet(Claims(h)')
         /\ Cardinality(Claims(h)') <= Cardinality(Claims(h))
         /\ Cardinality(Claims(h)') \in Nat /\ Cardinality(Claims(h)) \in Nat
<1>1. Claims(h)' \subseteq Claims(h)  BY DEF Claims
<1>2. IsFiniteSet(Claims(h))  BY DEF FewClaims
<1> QED  BY <1>1, <1>2, FS_Subset, FS_CardinalityType

\* A step that gives no new claim leaves the counts right, if it takes nothing from them.
LEMMA CountKept ==
  ASSUME HInv, NEW t \in Tasks, NoNewClaim(t), excused \subseteq excused',
         \A h \in Handles : status'[h] = "ready" => status[h] = "ready",
         \A h \in Handles : h \notin excused' => refs'[h] >= refs[h],
         refs' \in [Handles -> Nat]
  PROVE  FewClaims' /\ Counted'
<1>1. \A h \in Handles : \A u \in Holders : Has(u, h)' => Has(u, h)  BY NobodyNew
<1>2. FewClaims'
  <2> SUFFICES ASSUME NEW h \in Handles PROVE IsFiniteSet(Claims(h)')  BY DEF FewClaims
  <2> QED  BY <1>1, FewerClaims DEF HInv
<1>3. Counted'
  <2> SUFFICES ASSUME NEW h \in Handles, h \notin excused', status'[h] = "ready"
               PROVE  Cardinality(Claims(h)') <= refs'[h]
    BY DEF Counted
  <2>1. Cardinality(Claims(h)) <= refs[h]  BY DEF HInv, Counted
  <2>2. /\ Cardinality(Claims(h)') <= Cardinality(Claims(h))
        /\ Cardinality(Claims(h)') \in Nat /\ Cardinality(Claims(h)) \in Nat
    BY <1>1, FewerClaims DEF HInv
  <2>3. refs[h] \in Nat /\ refs'[h] \in Nat /\ refs'[h] >= refs[h]  BY DEF HInv, IInv, TypeOK
  <2> QED  BY <2>1, <2>2, <2>3
<1> QED  BY <1>2, <1>3

\* Nor does it take a ready handle from a user, if it leaves those that users have.
LEMMA ReadyKept ==
  ASSUME HInv, NEW t \in Tasks, NoNewClaim(t), excused \subseteq excused',
         \A u \in Users : \A h \in Handles :
             Has(u, h)' /\ Has(u, h) /\ h \notin excused' /\ h \in table /\ status[h] = "ready"
                 => h \in table' /\ status'[h] = "ready"
  PROVE  UsersHaveReady'
<1> SUFFICES ASSUME NEW u \in Users, NEW h \in Handles, h \notin excused', Has(u, h)'
             PROVE  h \in table' /\ status'[h] = "ready"
  BY DEF UsersHaveReady
<1>1. Has(u, h)  BY NobodyNew, HoldersAreTasks
<1>2. h \in table /\ status[h] = "ready"  BY <1>1 DEF HInv, UsersHaveReady
<1> QED  BY <1>1, <1>2

LEMMA ShapeKept ==
  ASSUME IInv, Shape, NEW t \in Tasks, Moves(t), count' = count, pc'[t] # "announcing",
         pc'[t] \in {"dropping", "releasing"} =>
             mine'[t] \in 1 .. count /\ status'[mine'[t]] # "ready",
         \A u \in Tasks : held'[u] \subseteq 1 .. count,
         \A u \in Tasks \ {t} : held'[u] \subseteq held[u],
         \A h \in 1 .. count :
             status'[h] = "ready" => status[h] = "ready" /\ (h \in table => h \in table')
  PROVE  Shape'
<1>1. OnlyMade'  BY DEF OnlyMade
<1>2. NewIsNotHeld'
  <2> SUFFICES ASSUME NEW u \in Tasks, pc'[u] = "announcing" PROVE mine'[u] \notin held'[u]
    BY DEF NewIsNotHeld
  <2>1. u # t  OBVIOUS
  <2> QED  BY <2>1 DEF Moves, Shape, NewIsNotHeld
<1>3. ReadyIsKept'  BY DEF Shape, ReadyIsKept
<1>4. ReleasedIsNotReady'
  <2> SUFFICES ASSUME NEW u \in Tasks, pc'[u] \in {"dropping", "releasing"}
               PROVE  status'[mine'[u]] # "ready"
    BY DEF ReleasedIsNotReady
  <2>1. CASE u = t  BY <2>1
  <2>2. CASE u # t
    <3>1. pc'[u] = pc[u] /\ mine'[u] = mine[u]  BY <2>2 DEF Moves
    <3>2. mine[u] \in 1 .. count  BY <3>1 DEF IInv, Pointers
    <3>3. status[mine[u]] # "ready"  BY <3>1 DEF Shape, ReleasedIsNotReady
    <3> QED  BY <3>1, <3>2, <3>3
  <2> QED  BY <2>1, <2>2
<1> QED  BY <1>1, <1>2, <1>3, <1>4 DEF Shape

LEMMA GoesMoves ==
  ASSUME TypeOK, NEW t \in Tasks, NEW place, Goes(t, place),
         mine' = mine \/ \E h : mine' = [mine EXCEPT ![t] = h]
  PROVE  Moves(t) /\ pc'[t] = place
<1> QED  BY DEF TypeOK, Goes, Moves

\* The steps of an ensure that neither make a handle nor share one.
LEMMA EnsureHolds ==
  ASSUME HInv, IInv', NEW t \in Tasks,
         \/ (t \in Users /\ Ask(t)) \/ Denied(t) \/ LookUp(t) \/ Unhealthy(t)
         \/ DropUnhealthy(t) \/ CreateFails(t) \/ Announced(t)
  PROVE  HInv'
<1>0. IInv /\ TypeOK /\ Shape /\ UsersHaveReady  BY DEF HInv, IInv
<1>h. OnlyMade /\ 1 .. count \subseteq Handles /\ table \subseteq 1 .. count
  BY <1>0, MadeAreHandles DEF Shape, TypeOK
<1>1. CASE (t \in Users /\ Ask(t)) \/ Denied(t) \/ CreateFails(t)
  <2>1. /\ UNCHANGED <<count, status, refs, table, mine, held, excused>>
        /\ \E place \in {"asking", "returning", "done"} : Goes(t, place)
    BY <1>1 DEF Ask, Denied, CreateFails, EnsureRaises, handleVars
  <2>2. Moves(t) /\ pc'[t] \in {"asking", "returning", "done"}  BY <1>0, <2>1, GoesMoves
  <2>3. NoNewClaim(t)  BY <2>1, <2>2 DEF NoNewClaim, Has
  <2>4. Shape'  BY <1>0, <1>h, <2>1, <2>2, ShapeKept DEF OnlyMade
  <2>5. FewClaims' /\ Counted'  BY <1>0, <2>1, <2>3, CountKept DEF TypeOK
  <2>6. UsersHaveReady'  BY <2>1, <2>3, ReadyKept
  <2> QED  BY <2>4, <2>5, <2>6 DEF HInv
<1>2. CASE Announced(t)
  <2>1. /\ pc[t] = "announcing"
        /\ held' = [held EXCEPT ![t] = @ \cup {mine[t]}]
        /\ UNCHANGED <<count, status, refs, table, mine, excused>>
        /\ \E place \in {"idle", "using", "done"} : Goes(t, place)
    BY <1>2 DEF Announced, Receive, handleVars
  <2>2. Moves(t) /\ pc'[t] \in {"idle", "using", "done"}  BY <1>0, <2>1, GoesMoves
  <2>3. mine[t] \in 1 .. count  BY <1>0, <2>1 DEF IInv, Pointers
  <2>4. held'[t] = held[t] \cup {mine[t]} /\ \A u \in Tasks \ {t} : held'[u] = held[u]
    BY <1>0, <2>1 DEF TypeOK
  <2>5. NoNewClaim(t)  BY <2>1, <2>2, <2>4 DEF NoNewClaim, Has
  <2>6. \A u \in Tasks : held'[u] \subseteq 1 .. count  BY <1>h, <2>3, <2>4 DEF OnlyMade
  <2>7. Shape'  BY <1>0, <2>1, <2>2, <2>4, <2>6, ShapeKept
  <2>8. FewClaims' /\ Counted'  BY <1>0, <2>1, <2>5, CountKept DEF TypeOK
  <2>9. UsersHaveReady'  BY <2>1, <2>5, ReadyKept
  <2> QED  BY <2>7, <2>8, <2>9 DEF HInv
<1>3. ASSUME NEW h \in 1 .. count, NEW s \in Statuses, s # "ready",
             status' = [status EXCEPT ![h] = s], excused' = excused \cup {h},
             NEW place, Goes(t, place), place \in {"unhealthy", "dropping"},
             mine' = [mine EXCEPT ![t] = h], UNCHANGED <<count, refs, table, held>>
      PROVE  HInv'
  <2>1. Moves(t) /\ pc'[t] = place  BY <1>0, <1>3, GoesMoves
  <2>2. mine'[t] = h /\ status'[h] = s /\ \A g \in Handles \ {h} : status'[g] = status[g]
    BY <1>0, <1>3, <1>h DEF TypeOK
  <2>3. \A g \in Handles : status'[g] = "ready" => status[g] = "ready"  BY <1>3, <2>2
  <2>4. NoNewClaim(t)  BY <1>3, <2>1 DEF NoNewClaim, Has
  <2>5. Shape'  BY <1>0, <1>3, <1>h, <2>1, <2>2, <2>3, ShapeKept DEF OnlyMade
  <2>6. FewClaims' /\ Counted'  BY <1>0, <1>3, <2>3, <2>4, CountKept DEF TypeOK
  <2>7. UsersHaveReady'  BY <1>3, <2>2, <2>4, ReadyKept
  <2> QED  BY <2>5, <2>6, <2>7 DEF HInv
<1>4. CASE Unhealthy(t)
  <2>1. /\ pc[t] = "checking" /\ status' = [status EXCEPT ![mine[t]] = "unhealthy"]
        /\ excused' = excused \cup {mine[t]} /\ Goes(t, "unhealthy")
        /\ UNCHANGED <<count, refs, table, mine, held>>
    BY <1>4 DEF Unhealthy
  <2>2. mine[t] \in 1 .. count  BY <1>0, <2>1 DEF IInv, Pointers
  <2>3. mine' = [mine EXCEPT ![t] = mine[t]]  BY <1>0, <2>1 DEF TypeOK
  <2> QED  BY <1>3, <2>1, <2>2, <2>3 DEF Statuses
<1>5. ASSUME NEW h \in 1 .. count, Drop(t, h), UNCHANGED <<count, refs, table, held>> PROVE HInv'
  BY <1>3, <1>5 DEF Drop, Statuses
<1>6. ASSUME NEW place, Goes(t, place), place \in {"ensuring", "checking"},
             mine' = mine \/ \E h : mine' = [mine EXCEPT ![t] = h],
             UNCHANGED <<count, refs, table, held, status, excused>>
      PROVE  HInv'
  <2>1. Moves(t) /\ pc'[t] = place  BY <1>0, <1>6, GoesMoves
  <2>2. NoNewClaim(t)  BY <1>6, <2>1 DEF NoNewClaim, Has
  <2>3. Shape'  BY <1>0, <1>h, <1>6, <2>1, ShapeKept DEF OnlyMade
  <2>4. FewClaims' /\ Counted'  BY <1>0, <1>6, <2>2, CountKept DEF TypeOK
  <2>5. UsersHaveReady'  BY <1>6, <2>2, ReadyKept
  <2> QED  BY <2>3, <2>4, <2>5 DEF HInv
<1>7. CASE LookUp(t)
  <2> DEFINE h == reuse[key[t]]
  <2>1. /\ UNCHANGED <<count, refs, table, held>>
        /\ \/ Goes(t, "ensuring") /\ UNCHANGED <<status, mine, excused>>
           \/ /\ mine' = [mine EXCEPT ![t] = h]
              /\ Goes(t, "checking") /\ UNCHANGED <<status, excused>>
           \/ h \in table /\ Drop(t, h)
    BY <1>7 DEF LookUp
  <2> HIDE DEF h
  <2> QED  BY <1>5, <1>6, <1>h, <2>1
<1>8. CASE DropUnhealthy(t)
  <2>1. /\ UNCHANGED <<count, refs, table, held>>
        /\ \/ Goes(t, "ensuring") /\ UNCHANGED <<status, mine, excused>>
           \/ mine[t] \in table /\ Drop(t, mine[t])
    BY <1>8 DEF DropUnhealthy
  <2> QED  BY <1>5, <1>6, <1>h, <2>1
<1> QED  BY <1>1, <1>2, <1>4, <1>7, <1>8

\* A new handle has one claim, its maker's, and the count one.
LEMMA CreateHolds ==
  ASSUME HInv, IInv', NEW t \in Tasks, Create(t)
  PROVE  HInv'
<1>0. PICK h : h = count + 1  OBVIOUS
<1>1. /\ pc[t] = "ensuring" /\ count < MaxHandles /\ count' = h
      /\ status' = [status EXCEPT ![h] = "ready"] /\ refs' = [refs EXCEPT ![h] = 1]
      /\ table' = table \cup {h} /\ mine' = [mine EXCEPT ![t] = h]
      /\ Goes(t, "announcing") /\ UNCHANGED <<held, excused>>
  BY <1>0 DEF Create
<1>2. IInv /\ TypeOK /\ Shape /\ UsersHaveReady  BY DEF HInv, IInv
<1>3. /\ h \in Handles /\ h \notin 1 .. count /\ 1 .. count' = (1 .. count) \cup {h}
      /\ 1 .. count \subseteq Handles /\ table \subseteq 1 .. count
  BY <1>0, <1>1, <1>2, ResourcesAssumption DEF TypeOK, Handles
<1>4. Moves(t) /\ pc'[t] = "announcing"  BY <1>1, <1>2, GoesMoves
<1>5. /\ mine'[t] = h /\ status'[h] = "ready" /\ refs'[h] = 1
      /\ \A g \in Handles \ {h} : status'[g] = status[g] /\ refs'[g] = refs[g]
  BY <1>1, <1>2, <1>3 DEF TypeOK
<1>6. \A u \in Tasks : h \notin held[u]  BY <1>2, <1>3 DEF Shape, OnlyMade
<1>7. \A u \in Tasks : ~Has(u, h)  BY <1>2, <1>3, <1>6 DEF Has, IInv, Pointers
<1>8. ASSUME NEW u \in Tasks, NEW g \in Handles
      PROVE  Has(u, g)' <=> Has(u, g) \/ (u = t /\ g = h)
  <2>1. CASE u = t  BY <1>1, <1>4, <1>5, <2>1 DEF Has
  <2>2. CASE u # t  BY <1>1, <1>4, <2>2 DEF Has, Moves
  <2> QED  BY <2>1, <2>2
<1>9. Shape'
  <2>1. OnlyMade'  BY <1>1, <1>2, <1>3 DEF Shape, OnlyMade
  <2>2. NewIsNotHeld'
    <3> SUFFICES ASSUME NEW u \in Tasks, pc'[u] = "announcing" PROVE mine'[u] \notin held'[u]
      BY DEF NewIsNotHeld
    <3>1. CASE u = t  BY <1>1, <1>5, <1>6, <3>1
    <3>2. CASE u # t  BY <1>1, <1>2, <1>4, <3>2 DEF Moves, Shape, NewIsNotHeld
    <3> QED  BY <3>1, <3>2
  <2>3. ReadyIsKept'  BY <1>1, <1>2, <1>3, <1>5 DEF Shape, ReadyIsKept
  <2>4. ReleasedIsNotReady'
    <3> SUFFICES ASSUME NEW u \in Tasks, pc'[u] \in {"dropping", "releasing"}
                 PROVE  status'[mine'[u]] # "ready"
      BY DEF ReleasedIsNotReady
    <3>1. u # t  BY <1>4
    <3>2. pc'[u] = pc[u] /\ mine'[u] = mine[u]  BY <1>4, <3>1 DEF Moves
    <3>3. mine[u] \in 1 .. count  BY <1>2, <3>2 DEF IInv, Pointers
    <3>4. status[mine[u]] # "ready"  BY <1>2, <3>2 DEF Shape, ReleasedIsNotReady
    <3> QED  BY <1>3, <1>5, <3>2, <3>3, <3>4
  <2> QED  BY <2>1, <2>2, <2>3, <2>4 DEF Shape
<1>10. ASSUME NEW g \in Handles, g # h PROVE Claims(g)' = Claims(g)
  BY <1>8, <1>10, HoldersAreTasks DEF Claims
<1>11. Claims(h)' \subseteq {t}  BY <1>3, <1>7, <1>8, HoldersAreTasks DEF Claims
<1>12. IsFiniteSet(Claims(h)') /\ Cardinality(Claims(h)') <= 1
  <2>1. IsFiniteSet({t}) /\ Cardinality({t}) = 1  BY FS_Singleton
  <2> QED  BY <1>11, <2>1, FS_Subset
<1>13. FewClaims' /\ Counted'
  <2>1. FewClaims'  BY <1>10, <1>12 DEF FewClaims, HInv
  <2>2. Counted'  BY <1>1, <1>5, <1>10, <1>12 DEF Counted, HInv
  <2> QED  BY <2>1, <2>2
<1>14. UsersHaveReady'
  <2> SUFFICES ASSUME NEW u \in Users, NEW g \in Handles, g \notin excused', Has(u, g)'
               PROVE  g \in table' /\ status'[g] = "ready"
    BY DEF UsersHaveReady
  <2>1. CASE g = h  BY <1>1, <1>5, <2>1
  <2>2. CASE g # h
    <3>1. Has(u, g)  BY <1>8, <2>2, HoldersAreTasks
    <3> QED  BY <1>1, <1>2, <1>5, <2>2, <3>1 DEF UsersHaveReady
  <2> QED  BY <2>1, <2>2
<1> QED  BY <1>9, <1>13, <1>14 DEF HInv

\* Whoever shares a handle is counted for it.
LEMMA HealthyHolds ==
  ASSUME HInv, IInv', NEW t \in Tasks, Healthy(t)
  PROVE  HInv'
<1>0. PICK h : h = mine[t]  OBVIOUS
<1>1. /\ pc[t] = "checking" /\ refs' = [refs EXCEPT ![h] = @ + 1]
      /\ held' = [held EXCEPT ![t] = @ \cup {h}]
      /\ \E place \in {"idle", "using", "done"} : Goes(t, place)
      /\ excused' = IF status[h] = "ready" THEN excused ELSE excused \cup {h}
      /\ UNCHANGED <<count, status, table, mine>>
  BY <1>0 DEF Healthy, Share, Receive
<1>2. IInv /\ TypeOK /\ Shape /\ UsersHaveReady  BY DEF HInv, IInv
<1>3. h \in 1 .. count /\ h \in Handles  BY <1>0, <1>1, <1>2, MadeAreHandles DEF IInv, Pointers
<1>4. Moves(t) /\ pc'[t] \in {"idle", "using", "done"}  BY <1>1, <1>2, GoesMoves
<1>5. /\ refs'[h] = refs[h] + 1 /\ refs[h] \in Nat
      /\ \A g \in Handles \ {h} : refs'[g] = refs[g]
  BY <1>1, <1>2, <1>3 DEF TypeOK
<1>6. held'[t] = held[t] \cup {h} /\ \A u \in Tasks \ {t} : held'[u] = held[u]
  BY <1>1, <1>2 DEF TypeOK
<1>7. \A u \in Tasks : held'[u] \subseteq 1 .. count
  BY <1>2, <1>3, <1>6 DEF Shape, OnlyMade
<1>8. Shape'  BY <1>1, <1>2, <1>4, <1>6, <1>7, ShapeKept
<1>9. ASSUME NEW u \in Tasks, NEW g \in Handles, Has(u, g)'
      PROVE  Has(u, g) \/ (u = t /\ g = h)
  <2>1. CASE u = t  BY <1>4, <1>6, <1>9, <2>1 DEF Has
  <2>2. CASE u # t  BY <1>4, <1>6, <1>9, <2>2 DEF Has, Moves
  <2> QED  BY <2>1, <2>2
<1>10. ASSUME NEW g \in Handles, g # h PROVE \A u \in Holders : Has(u, g)' => Has(u, g)
  BY <1>9, <1>10, HoldersAreTasks
<1>11. /\ IsFiniteSet(Claims(h)') /\ Cardinality(Claims(h)') \in Nat
       /\ Cardinality(Claims(h)') <= Cardinality(Claims(h)) + 1 /\ Cardinality(Claims(h)) \in Nat
  <2>1. Claims(h)' \subseteq Claims(h) \cup {t}  BY <1>3, <1>9, HoldersAreTasks DEF Claims
  <2>2. IsFiniteSet(Claims(h))  BY <1>3 DEF HInv, FewClaims
  <2>3. /\ IsFiniteSet(Claims(h) \cup {t}) /\ Cardinality(Claims(h)) \in Nat
        /\ Cardinality(Claims(h) \cup {t}) <= Cardinality(Claims(h)) + 1
    BY <2>2, FS_AddElement, FS_CardinalityType
  <2>4. Cardinality(Claims(h) \cup {t}) \in Nat  BY <2>3, FS_CardinalityType
  <2>5. /\ IsFiniteSet(Claims(h)')
        /\ Cardinality(Claims(h)') <= Cardinality(Claims(h) \cup {t})
    BY <2>1, <2>3, FS_Subset
  <2>6. Cardinality(Claims(h)') \in Nat  BY <2>5, FS_CardinalityType
  <2> QED  BY <2>3, <2>4, <2>5, <2>6
<1>12. FewClaims'
  <2> SUFFICES ASSUME NEW g \in Handles PROVE IsFiniteSet(Claims(g)')  BY DEF FewClaims
  <2>1. CASE g = h  BY <1>11, <2>1
  <2>2. CASE g # h  BY <1>10, <2>2, FewerClaims DEF HInv
  <2> QED  BY <2>1, <2>2
<1>13. Counted'
  <2> SUFFICES ASSUME NEW g \in Handles, g \notin excused', status'[g] = "ready"
               PROVE  Cardinality(Claims(g)') <= refs'[g]
    BY DEF Counted
  <2>1. g \notin excused /\ status[g] = "ready"  BY <1>1
  <2>2. Cardinality(Claims(g)) <= refs[g]  BY <2>1 DEF HInv, Counted
  <2>3. CASE g = h  BY <1>5, <1>11, <2>2, <2>3
  <2>4. CASE g # h
    <3>1. /\ Cardinality(Claims(g)') <= Cardinality(Claims(g))
          /\ Cardinality(Claims(g)') \in Nat /\ Cardinality(Claims(g)) \in Nat
      BY <1>10, <2>4, FewerClaims DEF HInv
    <3>2. refs'[g] = refs[g] /\ refs[g] \in Nat  BY <1>2, <1>5, <2>4 DEF TypeOK
    <3> QED  BY <2>2, <3>1, <3>2
  <2> QED  BY <2>3, <2>4
<1>14. UsersHaveReady'
  <2> SUFFICES ASSUME NEW u \in Users, NEW g \in Handles, g \notin excused', Has(u, g)'
               PROVE  g \in table' /\ status'[g] = "ready"
    BY DEF UsersHaveReady
  <2>1. CASE g = h
    <3>1. status[h] = "ready"  BY <1>1, <2>1
    <3> QED  BY <1>1, <1>2, <1>3, <2>1, <3>1 DEF Shape, ReadyIsKept
  <2>2. CASE g # h
    <3>1. Has(u, g)  BY <1>10, <2>2, HoldersAreTasks
    <3>2. g \notin excused  BY <1>1
    <3> QED  BY <1>1, <1>2, <3>1, <3>2 DEF UsersHaveReady
  <2> QED  BY <2>1, <2>2
<1> QED  BY <1>8, <1>12, <1>13, <1>14 DEF HInv

LEMMA TwoClaims ==
  ASSUME HInv, NEW h \in Handles, NEW t \in Holders, NEW u \in Holders, u # t,
         Has(t, h), Has(u, h)
  PROVE  Cardinality(Claims(h)) \in Nat /\ Cardinality(Claims(h)) >= 2
<1>1. IsFiniteSet({u}) /\ Cardinality({u}) = 1  BY FS_Singleton
<1>2. IsFiniteSet({u} \cup {t}) /\ Cardinality({u} \cup {t}) = 2  BY <1>1, FS_AddElement
<1>3. ({u} \cup {t}) \subseteq Claims(h)  BY DEF Claims
<1>4. IsFiniteSet(Claims(h))  BY DEF HInv, FewClaims
<1>5. Cardinality(Claims(h)) \in Nat  BY <1>4, FS_CardinalityType
<1>6. Cardinality({u} \cup {t}) <= Cardinality(Claims(h))  BY <1>3, <1>4, FS_Subset
<1> QED  BY <1>2, <1>5, <1>6

\* The release of a reference gives up a claim, and that of the last the last claim.
LEMMA ReleaseHolds ==
  ASSUME HInv, IInv', NEW t \in Tasks, NEW h \in Handles, Release(t, h)
  PROVE  HInv'
<1>1. /\ pc[t] = "returning" /\ h \in held[t] /\ held' = [held EXCEPT ![t] = @ \ {h}]
      /\ excused \subseteq excused' /\ (t \in Scopes => h \in excused')
      /\ UNCHANGED <<count, table>>
  BY DEF Release
<1>2. IInv /\ TypeOK /\ Shape /\ UsersHaveReady /\ TypeOK'  BY DEF HInv, IInv
<1>3. held'[t] = held[t] \ {h} /\ \A u \in Tasks \ {t} : held'[u] = held[u]
  BY <1>1, <1>2 DEF TypeOK
<1>4. \A u \in Tasks : held'[u] \subseteq 1 .. count  BY <1>2, <1>3 DEF Shape, OnlyMade
<1>5. t \in Holders \/ t \in Scopes  BY DEF Holders, Tasks
<1>6. Has(t, h)  BY <1>1 DEF Has
<1>7. h \in 1 .. count  BY <1>1, <1>2 DEF Shape, OnlyMade
<1>8. CASE UNCHANGED <<status, refs, pc, mine>>
  <2>1. Moves(t) /\ pc'[t] = "returning"  BY <1>1, <1>8 DEF Moves
  <2>2. NoNewClaim(t)  BY <1>3, <2>1 DEF NoNewClaim, Has
  <2>3. Shape'  BY <1>1, <1>2, <1>3, <1>4, <1>8, <2>1, ShapeKept
  <2>4. FewClaims' /\ Counted'  BY <1>1, <1>2, <1>8, <2>2, CountKept DEF TypeOK
  <2>5. UsersHaveReady'  BY <1>1, <1>8, <2>2, ReadyKept
  <2> QED  BY <2>3, <2>4, <2>5, <1>2 DEF HInv
<1>9. CASE /\ ~LastReference(h) /\ refs' = [refs EXCEPT ![h] = @ - 1]
           /\ UNCHANGED <<status, pc, mine>>
  <2>1. Moves(t) /\ pc'[t] = "returning"  BY <1>1, <1>9 DEF Moves
  <2>2. NoNewClaim(t)  BY <1>3, <2>1 DEF NoNewClaim, Has
  <2>3. Shape'  BY <1>1, <1>2, <1>3, <1>4, <1>9, <2>1, ShapeKept
  <2>4. \A g \in Handles : \A u \in Holders : Has(u, g)' => Has(u, g)  BY <2>2, NobodyNew
  <2>5. FewClaims'
    <3> SUFFICES ASSUME NEW g \in Handles PROVE IsFiniteSet(Claims(g)')  BY DEF FewClaims
    <3> QED  BY <2>4, FewerClaims DEF HInv
  <2>6. Counted'
    <3> SUFFICES ASSUME NEW g \in Handles, g \notin excused', status'[g] = "ready"
                 PROVE  Cardinality(Claims(g)') <= refs'[g]
      BY DEF Counted
    <3>1. Cardinality(Claims(g)) <= refs[g]  BY <1>1, <1>9 DEF HInv, Counted
    <3>2. /\ Cardinality(Claims(g)') <= Cardinality(Claims(g))
          /\ Cardinality(Claims(g)') \in Nat /\ Cardinality(Claims(g)) \in Nat
      BY <2>4, FewerClaims DEF HInv
    <3>3. refs[g] \in Nat  BY <1>2 DEF TypeOK
    <3>4. CASE g # h
      <4>1. refs'[g] = refs[g]  BY <1>2, <1>9, <3>4 DEF TypeOK
      <4> QED  BY <3>1, <3>2, <3>3, <4>1
    <3>5. CASE g = h
      <4>1. refs'[h] = refs[h] - 1  BY <1>2, <1>9 DEF TypeOK
      <4>2. t \in Claims(h)  BY <1>1, <1>5, <1>6, <3>5 DEF Claims
      <4>3. ~Has(t, h)'  BY <1>3, <2>1 DEF Has
      <4>4. Claims(h)' \subseteq Claims(h) \ {t}  BY <2>4, <4>3 DEF Claims
      <4>5. IsFiniteSet(Claims(h))  BY DEF HInv, FewClaims
      <4>6. /\ IsFiniteSet(Claims(h) \ {t})
            /\ Cardinality(Claims(h) \ {t}) = Cardinality(Claims(h)) - 1
        BY <4>2, <4>5, FS_RemoveElement
      <4>7. Cardinality(Claims(h)') <= Cardinality(Claims(h) \ {t})
        BY <4>4, <4>6, FS_Subset
      <4> QED  BY <3>1, <3>2, <3>3, <3>5, <4>1, <4>6, <4>7
    <3> QED  BY <3>4, <3>5
  <2>7. UsersHaveReady'  BY <1>1, <1>9, <2>2, ReadyKept
  <2> QED  BY <2>3, <2>5, <2>6, <2>7, <1>2 DEF HInv
<1>10. CASE /\ LastReference(h) /\ status' = [status EXCEPT ![h] = "releasing"]
            /\ mine' = [mine EXCEPT ![t] = h] /\ Goes(t, "releasing") /\ UNCHANGED refs
  <2>1. Moves(t) /\ pc'[t] = "releasing"  BY <1>2, <1>10, GoesMoves
  <2>2. /\ mine'[t] = h /\ status'[h] = "releasing"
        /\ \A g \in Handles \ {h} : status'[g] = status[g]
    BY <1>2, <1>10 DEF TypeOK
  <2>3. NoNewClaim(t)  BY <1>3, <2>1 DEF NoNewClaim, Has
  <2>4. \A g \in Handles : status'[g] = "ready" => status[g] = "ready"  BY <2>2
  <2>5. Shape'
    <3>1. 1 .. count \subseteq Handles  BY <1>2, MadeAreHandles
    <3> QED  BY <1>1, <1>2, <1>3, <1>4, <1>7, <2>1, <2>2, <2>4, <3>1, ShapeKept
  <2>6. FewClaims' /\ Counted'  BY <1>1, <1>2, <1>10, <2>3, <2>4, CountKept DEF TypeOK
  <2>7. ASSUME NEW u \in Users, NEW g \in Handles, Has(u, g)', Has(u, g),
               g \notin excused', g \in table, status[g] = "ready"
        PROVE  g # h
    <3> SUFFICES ASSUME g = h PROVE FALSE  OBVIOUS
    <3>1. u # t  BY <1>3, <2>1, <2>7 DEF Has
    <3>2. t \in Holders /\ u \in Holders  BY <1>1, <1>5, <2>7, HoldersAreTasks
    <3>3. Cardinality(Claims(h)) \in Nat /\ Cardinality(Claims(h)) >= 2
      BY <1>6, <2>7, <3>1, <3>2, TwoClaims
    <3>4. Cardinality(Claims(h)) <= refs[h]  BY <1>1, <2>7 DEF HInv, Counted
    <3>5. refs[h] \in Nat /\ refs[h] <= 1  BY <1>2, <1>10 DEF TypeOK, LastReference
    <3> QED  BY <3>3, <3>4, <3>5
  <2>8. UsersHaveReady'  BY <1>1, <2>2, <2>3, <2>7, ReadyKept
  <2> QED  BY <2>5, <2>6, <2>8, <1>2 DEF HInv
<1> QED  BY <1>8, <1>9, <1>10 DEF Release

\* The end of a release is of a handle that was not ready, so no user has it.
LEMMA ReleasedHolds ==
  ASSUME HInv, IInv', NEW t \in Tasks, Released(t) \/ ReleaseFails(t)
  PROVE  HInv'
<1>0. PICK h : h = mine[t]  OBVIOUS
<1>1. /\ pc[t] \in {"dropping", "releasing"}
      /\ status' = [status EXCEPT ![h] = "released"] \/ status' = [status EXCEPT ![h] = "failed"]
      /\ table' = table \/ table' = table \ {h}
      /\ \E place \in {"returning", "done", "ensuring"} : Goes(t, place)
      /\ UNCHANGED <<count, refs, mine, held, excused>>
  BY <1>0 DEF Released, ReleaseFails, Forget, EnsureRaises, ReleaseRaises
<1>2. IInv /\ TypeOK /\ Shape /\ UsersHaveReady  BY DEF HInv, IInv
<1>3. h \in 1 .. count /\ 1 .. count \subseteq Handles
  BY <1>0, <1>1, <1>2, MadeAreHandles DEF IInv, Pointers
<1>4. status[h] # "ready"  BY <1>0, <1>1, <1>2 DEF Shape, ReleasedIsNotReady
<1>5. Moves(t) /\ pc'[t] \in {"returning", "done", "ensuring"}  BY <1>1, <1>2, GoesMoves
<1>6. status'[h] # "ready" /\ \A g \in Handles \ {h} : status'[g] = status[g]
  BY <1>1, <1>2, <1>3 DEF TypeOK
<1>7. NoNewClaim(t)  BY <1>1, <1>5 DEF NoNewClaim, Has
<1>8. \A g \in Handles : status'[g] = "ready" => status[g] = "ready" /\ g # h  BY <1>6
<1>9. Shape'
  <2>1. \A g \in 1 .. count :
            status'[g] = "ready" => status[g] = "ready" /\ (g \in table => g \in table')
    BY <1>1, <1>3, <1>8
  <2> QED  BY <1>1, <1>2, <1>5, <2>1, ShapeKept DEF Shape, OnlyMade
<1>10. FewClaims' /\ Counted'  BY <1>1, <1>2, <1>7, <1>8, CountKept DEF TypeOK
<1>11. UsersHaveReady'  BY <1>1, <1>4, <1>6, <1>7, ReadyKept
<1> QED  BY <1>9, <1>10, <1>11 DEF HInv

\* A close takes over the claims of its execution.
LEMMA CloseHolds ==
  ASSUME HInv, IInv', NEW t \in Closers, Close(t)
  PROVE  HInv'
<1>0. PICK e : e = ClosedBy[t]  OBVIOUS
<1>1. /\ pc[t] = "idle" /\ held' = [held EXCEPT ![t] = held[e], ![e] = {}]
      /\ Goes(t, "returning") /\ UNCHANGED <<count, status, refs, table, mine, excused>>
  BY <1>0 DEF Close, handleVars
<1>2. IInv /\ TypeOK /\ Shape /\ UsersHaveReady  BY DEF HInv, IInv
<1>3. t \in Tasks /\ t \in Holders /\ e \in Users /\ e \in Holders /\ e \in Tasks /\ e # t
  BY <1>0, ResourcesAssumption, HoldersAreTasks DEF Users
<1>4. Moves(t) /\ pc'[t] = "returning"  BY <1>1, <1>2, <1>3, GoesMoves
<1>5. /\ held'[t] = held[e] /\ held'[e] = {}
      /\ \A u \in Tasks \ {t, e} : held'[u] = held[u]
  BY <1>1, <1>2, <1>3 DEF TypeOK
<1>6. Shape'
  <2>1. \A u \in Tasks : held'[u] \subseteq 1 .. count  BY <1>2, <1>3, <1>5 DEF Shape, OnlyMade
  <2>2. \A u \in Tasks \ {t} : held'[u] \subseteq held[u]  BY <1>3, <1>5
  <2> QED  BY <1>1, <1>2, <1>3, <1>4, <2>1, <2>2, ShapeKept
<1>7. ASSUME NEW u \in Tasks, NEW h \in Handles, u # t, Has(u, h)' PROVE Has(u, h)
  <2>1. pc'[u] = pc[u] /\ mine'[u] = mine[u] /\ held'[u] \subseteq held[u]
    BY <1>3, <1>4, <1>5, <1>7 DEF Moves
  <2> QED  BY <1>7, <2>1 DEF Has
<1>8. ASSUME NEW h \in Handles
      PROVE  /\ IsFiniteSet(Claims(h)') /\ Cardinality(Claims(h)') \in Nat
             /\ Cardinality(Claims(h)) \in Nat
             /\ Cardinality(Claims(h)') <= Cardinality(Claims(h))
  <2>1. IsFiniteSet(Claims(h))  BY DEF HInv, FewClaims
  <2>2. CASE h \in held[e]
    <3>1. pc[e] = "announcing" => mine[e] # h  BY <1>2, <1>3, <2>2 DEF Shape, NewIsNotHeld
    <3>2. pc'[e] = pc[e] /\ mine'[e] = mine[e]  BY <1>3, <1>4 DEF Moves
    <3>3. ~Has(e, h)'  BY <1>5, <3>1, <3>2 DEF Has
    <3>4. e \in Claims(h)  BY <1>3, <2>2 DEF Claims, Has
    <3>5. Claims(h)' \subseteq (Claims(h) \ {e}) \cup {t}
      BY <1>7, <3>3, HoldersAreTasks DEF Claims
    <3>6. /\ IsFiniteSet(Claims(h) \ {e})
          /\ Cardinality(Claims(h) \ {e}) = Cardinality(Claims(h)) - 1
      BY <2>1, <3>4, FS_RemoveElement
    <3>7. /\ IsFiniteSet((Claims(h) \ {e}) \cup {t})
          /\ Cardinality((Claims(h) \ {e}) \cup {t}) <= Cardinality(Claims(h) \ {e}) + 1
      <4>1. Cardinality(Claims(h) \ {e}) \in Nat  BY <3>6, FS_CardinalityType
      <4> QED  BY <3>6, <4>1, FS_AddElement
    <3>8. /\ IsFiniteSet(Claims(h)')
          /\ Cardinality(Claims(h)') <= Cardinality((Claims(h) \ {e}) \cup {t})
      BY <3>5, <3>7, FS_Subset
    <3>9. /\ Cardinality(Claims(h)') \in Nat /\ Cardinality(Claims(h)) \in Nat
          /\ Cardinality((Claims(h) \ {e}) \cup {t}) \in Nat
      BY <2>1, <3>7, <3>8, FS_CardinalityType
    <3> QED  BY <3>6, <3>7, <3>8, <3>9
  <2>3. CASE h \notin held[e]
    <3>1. ~Has(t, h)'  BY <1>4, <1>5, <2>3 DEF Has
    <3>2. \A u \in Holders : Has(u, h)' => Has(u, h)  BY <1>7, <3>1, HoldersAreTasks
    <3> QED  BY <3>2, FewerClaims DEF HInv
  <2> QED  BY <2>2, <2>3
<1>9. FewClaims'  BY <1>8 DEF FewClaims
<1>10. Counted'
  <2> SUFFICES ASSUME NEW h \in Handles, h \notin excused', status'[h] = "ready"
               PROVE  Cardinality(Claims(h)') <= refs'[h]
    BY DEF Counted
  <2>1. Cardinality(Claims(h)) <= refs[h]  BY <1>1 DEF HInv, Counted
  <2>2. refs'[h] = refs[h] /\ refs[h] \in Nat  BY <1>1, <1>2 DEF TypeOK
  <2> QED  BY <1>8, <2>1, <2>2
<1>11. UsersHaveReady'
  <2> SUFFICES ASSUME NEW u \in Users, NEW h \in Handles, h \notin excused', Has(u, h)'
               PROVE  h \in table' /\ status'[h] = "ready"
    BY DEF UsersHaveReady
  <2>1. u # t /\ u \in Tasks  BY ResourcesAssumption, HoldersAreTasks
  <2> QED  BY <1>1, <1>2, <1>7, <2>1 DEF UsersHaveReady
<1> QED  BY <1>6, <1>9, <1>10, <1>11 DEF HInv

LEMMA OthersHold ==
  ASSUME HInv, IInv', NEW t \in Tasks,
         \/ AllReturned(t) \/ Cancel(t) \/ (t \in Actions /\ Finish(t))
         \/ (t \in Scopes /\ ReleaseScope(t))
  PROVE  HInv'
<1>1. /\ UNCHANGED <<count, status, refs, table, mine, excused>>
      /\ \E place \in {"returning", "done"} : Goes(t, place)
  BY DEF AllReturned, Cancel, Finish, ReleaseScope, handleVars
<1>2. IInv /\ TypeOK /\ Shape /\ UsersHaveReady  BY DEF HInv, IInv
<1>3. Moves(t) /\ pc'[t] \in {"returning", "done"}  BY <1>1, <1>2, GoesMoves
<1>4. /\ \A u \in Tasks \ {t} : held'[u] = held[u]
      /\ (t \in Scopes /\ held'[t] \subseteq table) \/ held'[t] \subseteq held[t]
  <2>1. CASE AllReturned(t) \/ Cancel(t)  BY <2>1 DEF AllReturned, Cancel
  <2>2. CASE Finish(t)
    <3>1. held' = [held EXCEPT ![t] = {h \in @ : scopeOf[h] = "action_call"}]
      BY <2>2 DEF Finish
    <3> QED  BY <1>2, <3>1 DEF TypeOK
  <2>3. CASE t \in Scopes /\ ReleaseScope(t)
    <3>1. held' = [held EXCEPT ![t] = {h \in table : scopeOf[h] = "session"}]
      BY <2>3 DEF ReleaseScope
    <3> QED  BY <1>2, <2>3, <3>1 DEF TypeOK
  <2> QED  BY <2>1, <2>2, <2>3
<1>5. \A u \in Tasks : held'[u] \subseteq 1 .. count
  BY <1>2, <1>4 DEF Shape, OnlyMade, TypeOK
<1>6. t \in Scopes => t \notin Holders  BY ResourcesAssumption DEF Holders
<1>7. NoNewClaim(t)  BY <1>3, <1>4, <1>6 DEF NoNewClaim, Has
<1>8. Shape'  BY <1>1, <1>2, <1>3, <1>4, <1>5, ShapeKept
<1>9. FewClaims' /\ Counted'  BY <1>1, <1>2, <1>7, CountKept DEF TypeOK
<1>10. UsersHaveReady'  BY <1>1, <1>7, ReadyKept
<1> QED  BY <1>8, <1>9, <1>10 DEF HInv

LEMMA InitHolds == Init => HInv
<1> SUFFICES ASSUME Init PROVE HInv  OBVIOUS
<1>1. IInv  BY InitInv
<1>2. Shape  BY DEF Init, Shape, OnlyMade, NewIsNotHeld, ReadyIsKept, ReleasedIsNotReady
<1>3. \A t \in Tasks : \A h : ~Has(t, h)  BY DEF Init, Has
<1>4. \A h \in Handles : Claims(h) = {}  BY <1>3, HoldersAreTasks DEF Claims
<1>5. FewClaims  BY <1>4, FS_EmptySet DEF FewClaims
<1>6. Counted  BY DEF Init, Counted
<1>7. UsersHaveReady  BY <1>3, HoldersAreTasks DEF UsersHaveReady
<1> QED  BY <1>1, <1>2, <1>5, <1>6, <1>7 DEF HInv

LEMMA HoldersInductive == HInv /\ IInv' /\ [Next]_vars => HInv'
<1> SUFFICES ASSUME HInv, IInv', [Next]_vars PROVE HInv'  OBVIOUS
<1>1. CASE Next
  <2>1. PICK t \in Tasks :
            \/ Step(t) \/ Unhealthy(t) \/ CreateFails(t) \/ Denied(t) \/ ReleaseFails(t) \/ Cancel(t)
            \/ (t \in Users /\ Ask(t)) \/ (t \in Actions /\ Finish(t))
            \/ (t \in Closers /\ Close(t)) \/ (t \in Scopes /\ ReleaseScope(t))
    BY <1>1 DEF Next, Tasks, Users
  <2> QED
    BY <2>1, EnsureHolds, CreateHolds, HealthyHolds, ReleaseHolds, ReleasedHolds, CloseHolds,
       OthersHold DEF Step
<1>2. CASE UNCHANGED vars
  <2>1. UNCHANGED <<count, status, refs, table, pc, mine, held, excused>>
    BY <1>2 DEF vars, handleVars, taskVars
  <2>2. \A h : Claims(h)' = Claims(h)  BY <2>1 DEF Claims, Has
  <2>3. Shape'
    BY <2>1 DEF HInv, Shape, OnlyMade, NewIsNotHeld, ReadyIsKept, ReleasedIsNotReady
  <2>4. FewClaims' /\ Counted'  BY <2>1, <2>2 DEF HInv, FewClaims, Counted
  <2>5. UsersHaveReady'  BY <2>1 DEF HInv, UsersHaveReady, Has
  <2> QED  BY <2>3, <2>4, <2>5 DEF HInv
<1> QED  BY <1>1, <1>2

LEMMA HoldersInvariance == Spec => []HInv
<1> QED  BY InitHolds, Invariance, HoldersInductive, PTL DEF Spec

\* For any number of users and handles, whatever fails or is cancelled: while a handle is
\* ready, and was not taken from its holders by force or with its scope, its ref_count is no
\* less than the number of users it was given to (async_ensure, async_release).
THEOREM CountCoversHolders == Spec => []CountsHolders
<1>1. HInv => CountsHolders
  <2> SUFFICES ASSUME HInv, NEW h \in table \ excused, status[h] = "ready"
               PROVE  refs[h] >= Cardinality(HasOrGets(h))
    BY DEF CountsHolders
  <2>1. h \in Handles  BY MadeAreHandles DEF HInv, IInv
  <2>2. HasOrGets(h) \subseteq Claims(h)  BY HoldersAreTasks DEF HasOrGets, Claims, Has
  <2>3. IsFiniteSet(Claims(h)) /\ Cardinality(Claims(h)) <= refs[h]
    BY <2>1 DEF HInv, FewClaims, Counted
  <2>4. IsFiniteSet(HasOrGets(h)) /\ Cardinality(HasOrGets(h)) <= Cardinality(Claims(h))
    BY <2>2, <2>3, FS_Subset
  <2>5. Cardinality(HasOrGets(h)) \in Nat /\ Cardinality(Claims(h)) \in Nat
    BY <2>3, <2>4, FS_CardinalityType
  <2>6. refs[h] \in Nat  BY <2>1 DEF HInv, IInv, TypeOK
  <2> QED  BY <2>3, <2>4, <2>5, <2>6
<1> QED  BY <1>1, HoldersInvariance, PTL

\* No ordinary release takes a resource from a user who has it: of several users who
\* share a handle only the last one's release ends it (_async_release_handle).
THEOREM HeldStaysReady == Spec => []HeldIsReady
<1>1. HInv => HeldIsReady
  <2> SUFFICES ASSUME HInv, NEW t \in Users, NEW h \in held[t] \ excused
               PROVE  h \in table /\ status[h] = "ready"
    BY DEF HeldIsReady
  <2>1. h \in Handles  BY HoldersAreTasks DEF HInv, IInv, TypeOK
  <2> QED  BY <2>1 DEF HInv, UsersHaveReady, Has
<1> QED  BY <1>1, HoldersInvariance, PTL

-----------------------------------------------------------------------------
(***************************************************************************)
(* What is left in the end.  As long as nobody was cancelled the count of a*)
(* handle that is of no session, and that no action passed over, is exactly*)
(* its claims, since a user asks for a key once; a handle that is not ready*)
(* has somebody who is about to release it; and an action ends with        *)
(* nothing.  So a resource that exists when all is over is counted for a   *)
(* start or a close that still has it, or failed to be released.           *)
(***************************************************************************)
Ensuring == {"asking", "checking", "unhealthy", "dropping", "ensuring", "announcing"}

\* Only users ensure, one key at a time and each once; what a task may be left with.
OrderOf(t) ==
    /\ pc[t] \in Ensuring \cup {"using"} => t \in Users
    /\ pc[t] \in {"checking", "announcing"} => keyOf[mine[t]] = key[t]
    /\ t \in Users => \A h \in held[t] : keyOf[h] \notin left[t]
    /\ pc[t] \in Ensuring => key[t] \notin left[t] /\ \A h \in held[t] : keyOf[h] # key[t]
    /\ t \in Closers /\ pc[t] = "idle" => held[t] = {}
    /\ t \in Scopes => \A h \in held[t] : scopeOf[h] = "session"
    /\ cancels = 0 /\ t \in Actions /\ pc[t] = "done" => held[t] = {}

Order == \A t \in Tasks : OrderOf(t)

LEMMA OrderKept ==
  ASSUME HInv, Order, NEW t \in Tasks, Moves(t),
         \A u \in Tasks \ {t} : key'[u] = key[u] /\ left'[u] = left[u] /\ held'[u] \subseteq held[u],
         \A h \in 1 .. count : keyOf'[h] = keyOf[h] /\ scopeOf'[h] = scopeOf[h],
         cancels' = 0 => cancels = 0,
         OrderOf(t)'
  PROVE  Order'
<1> SUFFICES ASSUME NEW u \in Tasks, u # t PROVE OrderOf(u)'  BY DEF Order
<1>1. /\ pc'[u] = pc[u] /\ mine'[u] = mine[u] /\ key'[u] = key[u] /\ left'[u] = left[u]
      /\ held'[u] \subseteq held[u]
  BY DEF Moves
<1>2. \A h \in held[u] : keyOf'[h] = keyOf[h] /\ scopeOf'[h] = scopeOf[h]
  BY DEF HInv, Shape, OnlyMade
<1>3. pc[u] \in {"checking", "announcing"} => keyOf'[mine[u]] = keyOf[mine[u]]
  BY DEF HInv, IInv, Pointers
<1>4. OrderOf(u)  BY DEF Order
<1> QED  BY <1>1, <1>2, <1>3, <1>4 DEF OrderOf

LEMMA EnsureOrder ==
  ASSUME HInv, Order, NEW t \in Tasks,
         \/ (t \in Users /\ Ask(t)) \/ Denied(t) \/ LookUp(t) \/ Healthy(t) \/ Unhealthy(t)
         \/ DropUnhealthy(t) \/ CreateFails(t) \/ Announced(t)
  PROVE  Order'
<1>0. TypeOK /\ OrderOf(t)  BY DEF HInv, IInv, Order
<1>1. CASE t \in Users /\ Ask(t)
  <2>1. PICK k \in left[t] : /\ key' = [key EXCEPT ![t] = k]
                            /\ left' = [left EXCEPT ![t] = @ \ {k}]
    BY <1>1 DEF Ask
  <2>2. pc[t] = "idle" /\ Goes(t, "asking") /\ UNCHANGED <<keyOf, scopeOf, mine, held, cancels, kept>>
    BY <1>1 DEF Ask, handleVars
  <2>3. Moves(t) /\ pc'[t] = "asking"  BY <1>0, <2>2, GoesMoves
  <2>4. /\ key'[t] = k /\ left'[t] = left[t] \ {k}
        /\ \A u \in Tasks \ {t} : key'[u] = key[u] /\ left'[u] = left[u]
    BY <1>0, <2>1 DEF TypeOK
  <2>5. OrderOf(t)'
    BY <1>0, <1>1, <2>2, <2>3, <2>4, ResourcesAssumption DEF OrderOf, Ensuring
  <2> QED  BY <2>2, <2>3, <2>4, <2>5, OrderKept
<1>2. CASE Denied(t) \/ CreateFails(t)
  <2>1. /\ pc[t] \in {"asking", "ensuring"} /\ UNCHANGED <<keyOf, scopeOf, mine, key, left, held, cancels, kept>>
        /\ \E place \in {"returning", "done"} :
               Goes(t, place) /\ (t \in Actions => place = "returning")
    BY <1>2 DEF Denied, CreateFails, EnsureRaises, handleVars
  <2>2. Moves(t) /\ pc'[t] \in {"returning", "done"} /\ (t \in Actions => pc'[t] = "returning")
    BY <1>0, <2>1, GoesMoves
  <2>3. OrderOf(t)'  BY <1>0, <2>1, <2>2 DEF OrderOf, Ensuring
  <2> QED  BY <2>1, <2>2, <2>3, OrderKept
<1>3. ASSUME pc[t] \in Ensuring, UNCHANGED <<keyOf, scopeOf, key, left, held, cancels, kept>>,
             NEW place \in Ensuring \ {"announcing"}, Goes(t, place),
             mine' = mine \/ \E h : mine' = [mine EXCEPT ![t] = h],
             place = "checking" => keyOf[mine'[t]] = key[t]
      PROVE  Order'
  <2>1. Moves(t) /\ pc'[t] = place  BY <1>0, <1>3, GoesMoves
  <2>2. OrderOf(t)'  BY <1>0, <1>3, <2>1 DEF OrderOf, Ensuring
  <2> QED  BY <1>3, <2>1, <2>2, OrderKept
<1>4. CASE LookUp(t)
  <2>0. PICK h : h = reuse[key[t]]  OBVIOUS
  <2>1. /\ pc[t] = "asking" /\ UNCHANGED <<keyOf, scopeOf, key, left, held, cancels, kept>>
        /\ \/ Goes(t, "ensuring") /\ mine' = mine
           \/ /\ h # None /\ mine' = [mine EXCEPT ![t] = h]
              /\ Goes(t, "checking") \/ Goes(t, "dropping")
    BY <1>4, <2>0 DEF LookUp, Drop
  <2>2. key[t] \in Keys  BY <2>1 DEF HInv, IInv, Pointers
  <2>3. h # None => keyOf[h] = key[t]  BY <2>0, <2>2 DEF HInv, IInv, ReuseCurrent
  <2>4. mine' = [mine EXCEPT ![t] = h] => mine'[t] = h  BY <1>0 DEF TypeOK
  <2> QED  BY <1>3, <2>1, <2>3, <2>4 DEF Ensuring
<1>5. CASE Unhealthy(t) \/ DropUnhealthy(t)
  <2>1. /\ pc[t] \in {"checking", "unhealthy"} /\ UNCHANGED <<keyOf, scopeOf, key, left, held, cancels, kept>>
        /\ \E place \in {"unhealthy", "dropping", "ensuring"} : Goes(t, place)
        /\ mine' = mine \/ mine' = [mine EXCEPT ![t] = mine[t]]
    BY <1>5 DEF Unhealthy, DropUnhealthy, Drop
  <2> QED  BY <1>3, <2>1 DEF Ensuring
<1>6. CASE Healthy(t) \/ Announced(t)
  <2>1. /\ pc[t] \in {"checking", "announcing"} /\ Receive(t, mine[t])
        /\ UNCHANGED <<keyOf, scopeOf, mine, key, left, cancels, kept>>
    BY <1>6 DEF Healthy, Announced, handleVars
  <2>2. /\ held' = [held EXCEPT ![t] = @ \cup {mine[t]}]
        /\ \E place \in {"idle", "using", "done"} :
               Goes(t, place) /\ (t \in Actions => place # "done")
    BY <2>1 DEF Receive
  <2>3. /\ Moves(t) /\ pc'[t] \in {"idle", "using", "done"}
        /\ t \in Actions => pc'[t] # "done"
    BY <1>0, <2>1, <2>2, GoesMoves
  <2>4. /\ held'[t] = held[t] \cup {mine[t]}
        /\ \A u \in Tasks \ {t} : held'[u] = held[u]
    BY <1>0, <2>2 DEF TypeOK
  <2>5. t \in Users /\ keyOf[mine[t]] = key[t] /\ key[t] \notin left[t]
    BY <1>0, <2>1 DEF OrderOf, Ensuring
  <2>6. t \notin Closers /\ t \notin Scopes  BY <2>5, ResourcesAssumption
  <2>7. OrderOf(t)'  BY <1>0, <2>1, <2>3, <2>4, <2>5, <2>6 DEF OrderOf, Ensuring
  <2> QED  BY <2>1, <2>3, <2>4, <2>7, OrderKept
<1> QED  BY <1>1, <1>2, <1>4, <1>5, <1>6

LEMMA CreateOrder ==
  ASSUME HInv, Order, NEW t \in Tasks, Create(t)
  PROVE  Order'
<1>0. PICK h : h = count + 1  OBVIOUS
<1>1. /\ pc[t] = "ensuring" /\ count < MaxHandles
      /\ keyOf' = [keyOf EXCEPT ![h] = key[t]] /\ mine' = [mine EXCEPT ![t] = h]
      /\ \E s : scopeOf' = [scopeOf EXCEPT ![h] = s]
      /\ Goes(t, "announcing") /\ UNCHANGED <<key, held, left, cancels>>
  BY <1>0 DEF Create
<1>2. TypeOK /\ OrderOf(t)  BY DEF HInv, IInv, Order
<1>3. h \in Handles /\ h \notin 1 .. count /\ 1 .. count \subseteq Handles
  BY <1>0, <1>1, <1>2, ResourcesAssumption DEF TypeOK, Handles
<1>4. Moves(t) /\ pc'[t] = "announcing"  BY <1>1, <1>2, GoesMoves
<1>5. /\ mine'[t] = h /\ keyOf'[h] = key[t]
      /\ \A g \in Handles \ {h} : keyOf'[g] = keyOf[g] /\ scopeOf'[g] = scopeOf[g]
  BY <1>1, <1>2, <1>3 DEF TypeOK
<1>6. \A g \in 1 .. count : keyOf'[g] = keyOf[g] /\ scopeOf'[g] = scopeOf[g]  BY <1>3, <1>5
<1>7. held[t] \subseteq 1 .. count  BY DEF HInv, Shape, OnlyMade
<1>8. t \in Users /\ t \notin Closers /\ t \notin Scopes
  BY <1>1, <1>2, ResourcesAssumption DEF OrderOf, Ensuring
<1>9. OrderOf(t)'  BY <1>1, <1>2, <1>4, <1>5, <1>6, <1>7, <1>8 DEF OrderOf, Ensuring
<1> QED  BY <1>1, <1>4, <1>6, <1>9, OrderKept

LEMMA ReleaseOrder ==
  ASSUME HInv, Order, NEW t \in Tasks,
         Released(t) \/ ReleaseFails(t) \/ (\E h \in Handles : Release(t, h)) \/ AllReturned(t)
  PROVE  Order'
<1>0. TypeOK /\ OrderOf(t)  BY DEF HInv, IInv, Order
<1>1. CASE Released(t) \/ ReleaseFails(t)
  <2>1. /\ pc[t] \in {"dropping", "releasing"} /\ UNCHANGED <<keyOf, scopeOf, mine, key, left, held, cancels, kept>>
        /\ \E place \in {"ensuring", "returning", "done"} :
              /\ Goes(t, place)
              /\ place = "ensuring" => pc[t] = "dropping"
              /\ t \in Actions => place # "done"
    BY <1>1 DEF Released, ReleaseFails, EnsureRaises, ReleaseRaises
  <2>2. /\ Moves(t) /\ pc'[t] \in {"ensuring", "returning", "done"}
        /\ pc'[t] = "ensuring" => pc[t] = "dropping"
        /\ t \in Actions => pc'[t] # "done"
    BY <1>0, <2>1, GoesMoves
  <2>3. OrderOf(t)'  BY <1>0, <2>1, <2>2 DEF OrderOf, Ensuring
  <2> QED  BY <2>1, <2>2, <2>3, OrderKept
<1>2. ASSUME NEW h \in Handles, Release(t, h) PROVE Order'
  <2>1. /\ held' = [held EXCEPT ![t] = @ \ {h}] /\ UNCHANGED <<keyOf, scopeOf, key, left, cancels, kept>>
        /\ pc[t] = "returning"
        /\ \/ UNCHANGED <<pc, mine>>
           \/ Goes(t, "releasing") /\ mine' = [mine EXCEPT ![t] = h]
    BY <1>2 DEF Release
  <2>2. Moves(t) /\ pc'[t] \in {"returning", "releasing"}
    <3>1. CASE UNCHANGED <<pc, mine>>  BY <2>1, <3>1 DEF Moves
    <3>2. CASE Goes(t, "releasing") /\ mine' = [mine EXCEPT ![t] = h]
      BY <1>0, <3>2, GoesMoves
    <3> QED  BY <2>1, <3>1, <3>2
  <2>3. held'[t] \subseteq held[t] /\ \A u \in Tasks \ {t} : held'[u] = held[u]
    BY <1>0, <2>1 DEF TypeOK
  <2>4. OrderOf(t)'  BY <1>0, <2>1, <2>2, <2>3 DEF OrderOf, Ensuring
  <2> QED  BY <2>1, <2>2, <2>3, <2>4, OrderKept
<1>3. CASE AllReturned(t)
  <2>1. /\ held[t] = {} /\ Goes(t, "done") /\ UNCHANGED <<keyOf, scopeOf, mine, key, left, held, cancels, kept>>
    BY <1>3 DEF AllReturned, handleVars
  <2>2. Moves(t) /\ pc'[t] = "done"  BY <1>0, <2>1, GoesMoves
  <2>3. OrderOf(t)'  BY <1>0, <2>1, <2>2 DEF OrderOf, Ensuring
  <2> QED  BY <2>1, <2>2, <2>3, OrderKept
<1> QED  BY <1>1, <1>2, <1>3

LEMMA OthersOrder ==
  ASSUME HInv, Order, NEW t \in Tasks,
         \/ Cancel(t) \/ (t \in Actions /\ Finish(t))
         \/ (t \in Closers /\ Close(t)) \/ (t \in Scopes /\ ReleaseScope(t))
  PROVE  Order'
<1>0. TypeOK /\ OrderOf(t)  BY DEF HInv, IInv, Order
<1>1. UNCHANGED <<keyOf, scopeOf, mine, key, left>>
  BY DEF Cancel, Finish, Close, ReleaseScope, handleVars
<1>2. CASE Cancel(t)
  <2>1. Goes(t, "done") /\ cancels' = cancels + 1 /\ held' = held  BY <1>2 DEF Cancel
  <2>2. Moves(t) /\ pc'[t] = "done" /\ cancels' # 0
    BY <1>0, <1>1, <2>1, GoesMoves DEF TypeOK
  <2>3. OrderOf(t)'  BY <1>0, <1>1, <2>1, <2>2 DEF OrderOf, Ensuring
  <2> QED  BY <1>1, <2>1, <2>2, <2>3, OrderKept
<1>3. CASE t \in Actions /\ Finish(t)
  <2>1. /\ Goes(t, "returning") /\ cancels' = cancels
        /\ held' = [held EXCEPT ![t] = {h \in @ : scopeOf[h] = "action_call"}]
    BY <1>3 DEF Finish
  <2>2. Moves(t) /\ pc'[t] = "returning"  BY <1>0, <1>1, <2>1, GoesMoves
  <2>3. held'[t] \subseteq held[t] /\ \A u \in Tasks \ {t} : held'[u] = held[u]
    BY <1>0, <2>1 DEF TypeOK
  <2>4. OrderOf(t)'  BY <1>0, <1>1, <2>1, <2>2, <2>3 DEF OrderOf, Ensuring
  <2> QED  BY <1>1, <2>1, <2>2, <2>3, <2>4, OrderKept
<1>4. CASE t \in Closers /\ Close(t)
  <2>0. PICK e : e = ClosedBy[t]  OBVIOUS
  <2>1. /\ Goes(t, "returning") /\ cancels' = cancels
        /\ held' = [held EXCEPT ![t] = held[e], ![e] = {}]
    BY <1>4, <2>0 DEF Close
  <2>2. Moves(t) /\ pc'[t] = "returning"  BY <1>0, <1>1, <2>1, GoesMoves
  <2>3. \A u \in Tasks \ {t} : held'[u] \subseteq held[u]  BY <1>0, <2>1 DEF TypeOK
  <2>4. t \notin Users /\ t \notin Scopes /\ t \notin Actions
    BY <1>4, ResourcesAssumption DEF Users
  <2>5. OrderOf(t)'  BY <2>2, <2>4 DEF OrderOf, Ensuring
  <2> QED  BY <1>1, <2>1, <2>2, <2>3, <2>5, OrderKept
<1>5. CASE t \in Scopes /\ ReleaseScope(t)
  <2>1. /\ Goes(t, "returning") /\ cancels' = cancels
        /\ held' = [held EXCEPT ![t] = {h \in table : scopeOf[h] = "session"}]
    BY <1>5 DEF ReleaseScope
  <2>2. Moves(t) /\ pc'[t] = "returning"  BY <1>0, <1>1, <2>1, GoesMoves
  <2>3. /\ \A h \in held'[t] : scopeOf[h] = "session"
        /\ \A u \in Tasks \ {t} : held'[u] = held[u]
    BY <1>0, <2>1 DEF TypeOK
  <2>4. t \notin Users /\ t \notin Closers /\ t \notin Actions
    BY <1>5, ResourcesAssumption DEF Users
  <2>5. OrderOf(t)'  BY <1>1, <2>2, <2>3, <2>4 DEF OrderOf, Ensuring
  <2> QED  BY <1>1, <2>1, <2>2, <2>3, <2>5, OrderKept
<1> QED  BY <1>2, <1>3, <1>4, <1>5

\* A handle whose end a clean run owes.
Clean(h) == cancels = 0 /\ scopeOf[h] # "session" /\ h \notin kept

Watches(t, h) == pc[t] \in {"unhealthy", "dropping", "releasing"} /\ mine[t] = h

\* What exists is in the manager; when it is not ready somebody is about to release it.
Tracked ==
    /\ up \subseteq table
    /\ \A h \in up :
           /\ status[h] \in {"ready", "unhealthy", "releasing", "failed"}
           /\ Clean(h) /\ status[h] \in {"unhealthy", "releasing"} => \E t \in Tasks : Watches(t, h)

LEMMA TrackedKept ==
  ASSUME HInv, Tracked, NEW t \in Tasks, Moves(t), up' \subseteq table',
         \A h \in up' :
             /\ scopeOf'[h] = scopeOf[h] /\ h \in up /\ (h \in kept => h \in kept')
             /\ \/ status'[h] = status[h] \/ status'[h] = "failed"
                \/ status'[h] \in {"unhealthy", "releasing"} /\ Watches(t, h)'
             /\ cancels' = 0 =>
                    cancels = 0 /\ (Watches(t, h) => Watches(t, h)' \/ status'[h] = "failed")
  PROVE  Tracked'
<1>1. ASSUME NEW h \in up', Clean(h)', status'[h] \in {"unhealthy", "releasing"}
      PROVE  \E u \in Tasks : Watches(u, h)'
  <2>1. CASE Watches(t, h)'  BY <2>1
  <2>2. CASE ~Watches(t, h)'
    <3>1. status'[h] = status[h] /\ Clean(h) /\ h \in up  BY <1>1, <2>2 DEF Clean
    <3>2. PICK u \in Tasks : Watches(u, h)  BY <1>1, <3>1 DEF Tracked
    <3>3. u # t  BY <1>1, <2>2, <3>2 DEF Clean
    <3>4. Watches(u, h)'  BY <3>2, <3>3 DEF Moves, Watches
    <3> QED  BY <3>4
  <2> QED  BY <2>1, <2>2
<1>2. ASSUME NEW h \in up'
      PROVE  status'[h] \in {"ready", "unhealthy", "releasing", "failed"}
  BY DEF Tracked
<1> QED  BY <1>1, <1>2 DEF Tracked

LEMMA EnsureTracked ==
  ASSUME HInv, Tracked, NEW t \in Tasks,
         \/ (t \in Users /\ Ask(t)) \/ Denied(t) \/ LookUp(t) \/ Healthy(t) \/ Unhealthy(t)
         \/ DropUnhealthy(t) \/ CreateFails(t) \/ Announced(t)
  PROVE  Tracked'
<1>0. /\ IInv /\ TypeOK /\ up \subseteq table /\ table \subseteq 1 .. count
      /\ 1 .. count \subseteq Handles
  BY MadeAreHandles DEF HInv, IInv, TypeOK, Tracked
<1>1. UNCHANGED <<keyOf, scopeOf, up, table, cancels, kept>>
  BY DEF Ask, Denied, LookUp, Healthy, Unhealthy, DropUnhealthy, CreateFails, Announced, handleVars
<1>2. ASSUME pc[t] # "unhealthy", pc[t] # "dropping", pc[t] # "releasing", status' = status,
             NEW place, Goes(t, place), mine' = mine \/ \E h : mine' = [mine EXCEPT ![t] = h]
      PROVE  Tracked'
  <2>1. Moves(t) /\ \A h : ~Watches(t, h)  BY <1>0, <1>2, GoesMoves DEF Watches
  <2> QED  BY <1>0, <1>1, <1>2, <2>1, TrackedKept
<1>3. ASSUME NEW h \in 1 .. count, NEW s, status' = [status EXCEPT ![h] = s],
             s \in {"unhealthy", "releasing"},
             NEW place, Goes(t, place), place \in {"unhealthy", "dropping"},
             mine' = [mine EXCEPT ![t] = h], \A g : Watches(t, g) => g = h
      PROVE  Tracked'
  <2>1. Moves(t) /\ pc'[t] = place  BY <1>0, <1>3, GoesMoves
  <2>2. mine'[t] = h /\ status'[h] = s /\ \A g \in Handles \ {h} : status'[g] = status[g]
    BY <1>0, <1>3 DEF TypeOK
  <2>3. Watches(t, h)'  BY <1>3, <2>1, <2>2 DEF Watches
  <2>4. \A g \in up' :
            /\ \/ status'[g] = status[g]
               \/ status'[g] \in {"unhealthy", "releasing"} /\ Watches(t, g)'
            /\ Watches(t, g) => Watches(t, g)'
    <3> SUFFICES ASSUME NEW g \in up'
                 PROVE  /\ \/ status'[g] = status[g]
                           \/ status'[g] \in {"unhealthy", "releasing"} /\ Watches(t, g)'
                        /\ Watches(t, g) => Watches(t, g)'
      OBVIOUS
    <3>1. CASE g = h  BY <1>3, <2>2, <2>3, <3>1
    <3>2. CASE g # h
      <4>1. g \in Handles  BY <1>0, <1>1
      <4> QED  BY <1>3, <2>2, <3>2, <4>1
    <3> QED  BY <3>1, <3>2
  <2> QED  BY <1>0, <1>1, <2>1, <2>4, TrackedKept
<1>4. CASE (t \in Users /\ Ask(t)) \/ Denied(t) \/ CreateFails(t)
  <2>1. /\ pc[t] \in {"idle", "asking", "ensuring"} /\ UNCHANGED <<status, mine>>
        /\ \E place : Goes(t, place)
    BY <1>4 DEF Ask, Denied, CreateFails, EnsureRaises, handleVars
  <2> QED  BY <1>2, <2>1
<1>5. CASE Healthy(t) \/ Announced(t)
  <2>1. /\ pc[t] \in {"checking", "announcing"} /\ UNCHANGED <<status, mine>>
        /\ \E place : Goes(t, place)
    BY <1>5 DEF Healthy, Announced, Receive, handleVars
  <2> QED  BY <1>2, <2>1
<1>6. CASE LookUp(t)
  <2>0. PICK h : h = reuse[key[t]]  OBVIOUS
  <2>1. /\ pc[t] = "asking"
        /\ \/ Goes(t, "ensuring") /\ UNCHANGED <<status, mine>>
           \/ /\ mine' = [mine EXCEPT ![t] = h] /\ Goes(t, "checking") /\ status' = status
           \/ /\ h \in table /\ status' = [status EXCEPT ![h] = "releasing"]
              /\ mine' = [mine EXCEPT ![t] = h] /\ Goes(t, "dropping")
    BY <1>6, <2>0 DEF LookUp, Drop
  <2>2. \A g : ~Watches(t, g)  BY <2>1 DEF Watches
  <2>3. CASE /\ h \in table /\ status' = [status EXCEPT ![h] = "releasing"]
             /\ mine' = [mine EXCEPT ![t] = h] /\ Goes(t, "dropping")
    BY <1>0, <1>3, <2>2, <2>3
  <2> QED  BY <1>2, <2>1, <2>3
<1>7. CASE Unhealthy(t)
  <2>1. /\ pc[t] = "checking" /\ status' = [status EXCEPT ![mine[t]] = "unhealthy"]
        /\ Goes(t, "unhealthy") /\ mine' = mine
    BY <1>7 DEF Unhealthy
  <2>2. mine[t] \in 1 .. count  BY <1>0, <2>1 DEF IInv, Pointers
  <2>3. mine' = [mine EXCEPT ![t] = mine[t]]  BY <1>0, <2>1 DEF TypeOK
  <2>4. \A g : ~Watches(t, g)  BY <2>1 DEF Watches
  <2> QED  BY <1>3, <2>1, <2>2, <2>3, <2>4
<1>8. CASE DropUnhealthy(t)
  <2>1. pc[t] = "unhealthy"  BY <1>8 DEF DropUnhealthy
  <2>2. CASE mine[t] \in table /\ Drop(t, mine[t])
    <3>1. /\ status' = [status EXCEPT ![mine[t]] = "releasing"]
          /\ mine' = [mine EXCEPT ![t] = mine[t]] /\ Goes(t, "dropping")
      BY <2>2 DEF Drop
    <3>2. \A g : Watches(t, g) => g = mine[t]  BY DEF Watches
    <3> QED  BY <1>0, <1>3, <2>2, <3>1, <3>2
  <2>3. CASE mine[t] \notin table /\ Goes(t, "ensuring") /\ UNCHANGED <<status, mine>>
    <3>1. Moves(t)  BY <1>0, <2>3, GoesMoves
    <3>2. \A h \in up : ~Watches(t, h)  BY <1>0, <2>3 DEF Watches
    <3> QED  BY <1>0, <1>1, <2>3, <3>1, <3>2, TrackedKept
  <2> QED  BY <1>8, <2>2, <2>3 DEF DropUnhealthy
<1> QED  BY <1>4, <1>5, <1>6, <1>7, <1>8

LEMMA OthersTracked ==
  ASSUME HInv, Tracked, NEW t \in Tasks,
         \/ Released(t) \/ ReleaseFails(t) \/ (\E h \in Handles : Release(t, h)) \/ AllReturned(t)
         \/ Cancel(t) \/ (t \in Actions /\ Finish(t))
         \/ (t \in Closers /\ Close(t)) \/ (t \in Scopes /\ ReleaseScope(t))
  PROVE  Tracked'
<1>0. /\ IInv /\ TypeOK /\ up \subseteq table /\ table \subseteq 1 .. count
      /\ 1 .. count \subseteq Handles
  BY MadeAreHandles DEF HInv, IInv, TypeOK, Tracked
<1>1. CASE Released(t) \/ ReleaseFails(t)
  <2>0. PICK h : h = mine[t]  OBVIOUS
  <2>1. /\ pc[t] \in {"dropping", "releasing"} /\ UNCHANGED <<keyOf, scopeOf, mine, cancels, kept>>
        /\ \/ /\ status' = [status EXCEPT ![h] = "released"]
              /\ up' = up \ {h} /\ table' = table \ {h}
           \/ status' = [status EXCEPT ![h] = "failed"] /\ UNCHANGED <<up, table>>
        /\ \E place : Goes(t, place)
    BY <1>1, <2>0 DEF Released, ReleaseFails, Forget, EnsureRaises, ReleaseRaises
  <2>2. Moves(t)  BY <1>0, <2>1, GoesMoves
  <2>3. h \in Handles  BY <1>0, <2>0, <2>1 DEF IInv, Pointers
  <2>4. \A g \in up' : status'[g] = (IF g = h THEN "failed" ELSE status[g])
    BY <1>0, <2>1, <2>3 DEF TypeOK
  <2>5. \A g : Watches(t, g) => g = h  BY <2>0 DEF Watches
  <2> QED  BY <1>0, <2>1, <2>2, <2>4, <2>5, TrackedKept
<1>2. CASE AllReturned(t) \/ Finish(t) \/ (t \in Closers /\ Close(t)) \/ ReleaseScope(t)
  <2>1. /\ pc[t] \in {"idle", "using", "returning"}
        /\ UNCHANGED <<keyOf, scopeOf, mine, cancels, status, up, table>>
        /\ kept \subseteq kept' /\ \E place : Goes(t, place)
    BY <1>2 DEF AllReturned, Finish, Close, ReleaseScope, handleVars
  <2>2. Moves(t) /\ \A h : ~Watches(t, h)  BY <1>0, <2>1, GoesMoves DEF Watches
  <2> QED  BY <1>0, <2>1, <2>2, TrackedKept
<1>3. CASE Cancel(t)
  <2>1. /\ up' \subseteq up /\ cancels' = cancels + 1 /\ Goes(t, "done")
        /\ UNCHANGED <<keyOf, scopeOf, mine, status, table, kept>>
    BY <1>3 DEF Cancel
  <2>2. Moves(t) /\ cancels' # 0  BY <1>0, <2>1, GoesMoves DEF TypeOK
  <2> QED  BY <1>0, <2>1, <2>2, TrackedKept
<1>4. ASSUME NEW h \in Handles, Release(t, h) PROVE Tracked'
  <2>1. /\ pc[t] = "returning" /\ UNCHANGED <<keyOf, scopeOf, cancels, kept, up, table>>
        /\ \/ UNCHANGED <<status, pc, mine>>
           \/ /\ status' = [status EXCEPT ![h] = "releasing"]
              /\ mine' = [mine EXCEPT ![t] = h] /\ Goes(t, "releasing")
    BY <1>4 DEF Release
  <2>2. \A g : ~Watches(t, g)  BY <2>1 DEF Watches
  <2>3. CASE UNCHANGED <<status, pc, mine>>
    <3>1. Moves(t)  BY <2>3 DEF Moves
    <3> QED  BY <1>0, <2>1, <2>2, <2>3, <3>1, TrackedKept
  <2>4. CASE /\ status' = [status EXCEPT ![h] = "releasing"]
             /\ mine' = [mine EXCEPT ![t] = h] /\ Goes(t, "releasing")
    <3>1. Moves(t) /\ pc'[t] = "releasing"  BY <1>0, <2>4, GoesMoves
    <3>2. mine'[t] = h /\ status'[h] = "releasing" /\ \A g \in Handles \ {h} : status'[g] = status[g]
      BY <1>0, <2>4 DEF TypeOK
    <3>3. Watches(t, h)'  BY <3>1, <3>2 DEF Watches
    <3>4. \A g \in up' :
              status'[g] = status[g] \/ (status'[g] \in {"unhealthy", "releasing"} /\ Watches(t, g)')
      BY <1>0, <2>1, <3>2, <3>3
    <3> QED  BY <1>0, <2>1, <2>2, <3>1, <3>4, TrackedKept
  <2> QED  BY <2>1, <2>3, <2>4
<1> QED  BY <1>1, <1>2, <1>3, <1>4

LEMMA CreateTracked ==
  ASSUME HInv, Tracked, NEW t \in Tasks, Create(t)
  PROVE  Tracked'
<1>0. PICK h : h = count + 1  OBVIOUS
<1>1. /\ pc[t] = "ensuring" /\ count < MaxHandles
      /\ \E s : scopeOf' = [scopeOf EXCEPT ![h] = s]
      /\ status' = [status EXCEPT ![h] = "ready"]
      /\ table' = table \cup {h} /\ up' = up \cup {h}
      /\ mine' = [mine EXCEPT ![t] = h] /\ Goes(t, "announcing") /\ UNCHANGED <<cancels, kept>>
  BY <1>0 DEF Create
<1>2. /\ TypeOK /\ up \subseteq table /\ table \subseteq 1 .. count
      /\ 1 .. count \subseteq Handles
  BY MadeAreHandles DEF HInv, IInv, TypeOK, Tracked
<1>3. h \in Handles /\ h \notin 1 .. count
  BY <1>0, <1>1, <1>2, ResourcesAssumption DEF TypeOK, Handles
<1>4. Moves(t)  BY <1>1, <1>2, GoesMoves
<1>5. /\ status'[h] = "ready"
      /\ \A g \in Handles \ {h} : scopeOf'[g] = scopeOf[g] /\ status'[g] = status[g]
  BY <1>1, <1>2, <1>3 DEF TypeOK
<1>6. ASSUME NEW g \in up, Clean(g)', status'[g] \in {"unhealthy", "releasing"}
      PROVE  \E u \in Tasks : Watches(u, g)'
  <2>1. g \in Handles /\ g # h  BY <1>2, <1>3
  <2>2. Clean(g) /\ status'[g] = status[g]  BY <1>1, <1>5, <1>6, <2>1 DEF Clean
  <2>3. PICK u \in Tasks : Watches(u, g)  BY <1>6, <2>2 DEF Tracked
  <2>4. u # t  BY <1>1, <2>3 DEF Watches
  <2>5. Watches(u, g)'  BY <1>4, <2>3, <2>4 DEF Watches, Moves
  <2> QED  BY <2>5
<1>7. \A g \in up : status'[g] \in {"ready", "unhealthy", "releasing", "failed"}
  BY <1>2, <1>3, <1>5 DEF Tracked
<1> QED  BY <1>1, <1>2, <1>5, <1>6, <1>7 DEF Tracked

\* The count of a handle that is of no session, and that no action passed over, is never
\* more than its claims, and not less than one.
Exact ==
    \A h \in 1 .. count : Clean(h) /\ status[h] = "ready" =>
        refs[h] <= Cardinality(Claims(h)) /\ refs[h] >= 1

LInv == HInv /\ Order /\ Tracked /\ Exact

\* A step that leaves a count, and who is counted.
LEMMA ExactKept ==
  ASSUME HInv, Exact,
         \A h \in 1 .. count' : Clean(h)' /\ status'[h] = "ready" =>
             /\ h \in 1 .. count /\ Clean(h) /\ status[h] = "ready" /\ refs'[h] = refs[h]
             /\ \A u \in Holders : Has(u, h)' <=> Has(u, h)
  PROVE  Exact'
<1> SUFFICES ASSUME NEW h \in 1 .. count', Clean(h)', status'[h] = "ready"
             PROVE  refs'[h] <= Cardinality(Claims(h)') /\ refs'[h] >= 1
  BY DEF Exact
<1>1. Claims(h)' = Claims(h)  BY DEF Claims
<1> QED  BY <1>1 DEF Exact

\* Who has what does not change where only the mover's place does.
LEMMA SameClaims ==
  ASSUME NEW t \in Tasks, Moves(t), NEW h, NEW u \in Tasks,
         \A v \in Tasks \ {t} : held'[v] = held[v], Has(t, h)' <=> Has(t, h)
  PROVE  Has(u, h)' <=> Has(u, h)
<1>1. CASE u = t  BY <1>1
<1>2. CASE u # t  BY <1>2 DEF Has, Moves
<1> QED  BY <1>1, <1>2

LEMMA EnsureExact ==
  ASSUME LInv, NEW t \in Tasks,
         \/ (t \in Users /\ Ask(t)) \/ Denied(t) \/ LookUp(t) \/ Unhealthy(t)
         \/ DropUnhealthy(t) \/ CreateFails(t) \/ Announced(t)
  PROVE  Exact'
<1>0. /\ IInv /\ TypeOK /\ HInv /\ Exact /\ table \subseteq 1 .. count
      /\ 1 .. count \subseteq Handles
  BY MadeAreHandles DEF LInv, HInv, IInv, TypeOK
<1>1. UNCHANGED <<count, keyOf, scopeOf, refs, cancels, kept>>
  BY DEF Ask, Denied, LookUp, Unhealthy, DropUnhealthy, CreateFails, Announced, handleVars
<1>2. Moves(t) /\ (pc'[t] # "announcing")
  <2>1. \/ \E place \in {"asking", "returning", "done", "ensuring", "unhealthy", "checking",
                         "dropping", "idle", "using"} :
              /\ Goes(t, place)
              /\ mine' = mine \/ \E h : mine' = [mine EXCEPT ![t] = h]
    BY DEF Ask, Denied, LookUp, Unhealthy, DropUnhealthy, CreateFails, Announced, Drop,
           EnsureRaises, Receive, handleVars
  <2> QED  BY <1>0, <2>1, GoesMoves
<1>3. /\ \A v \in Tasks \ {t} : held'[v] = held[v]
      /\ \A h : Has(t, h)' <=> Has(t, h)
  <2>1. CASE Announced(t)
    <3>1. /\ pc[t] = "announcing" /\ held' = [held EXCEPT ![t] = @ \cup {mine[t]}]
      BY <2>1 DEF Announced, Receive
    <3>2. /\ held'[t] = held[t] \cup {mine[t]}
          /\ \A v \in Tasks \ {t} : held'[v] = held[v]
      BY <1>0, <3>1 DEF TypeOK
    <3> QED  BY <1>2, <3>1, <3>2 DEF Has
  <2>2. CASE ~Announced(t)
    <3>1. held' = held /\ pc[t] # "announcing"
      BY <2>2 DEF Ask, Denied, LookUp, Unhealthy, DropUnhealthy, CreateFails
    <3> QED  BY <1>2, <3>1 DEF Has
  <2> QED  BY <2>1, <2>2
<1>4. \A h \in 1 .. count : status'[h] = "ready" => status[h] = "ready"
  <2>1. CASE Unhealthy(t)
    <3>1. status' = [status EXCEPT ![mine[t]] = "unhealthy"]  BY <2>1 DEF Unhealthy
    <3> QED  BY <1>0, <3>1 DEF TypeOK
  <2>2. CASE LookUp(t) \/ DropUnhealthy(t)
    <3>1. \/ status' = status
          \/ \E h : status' = [status EXCEPT ![h] = "releasing"]
      BY <2>2 DEF LookUp, DropUnhealthy, Drop
    <3> QED  BY <1>0, <3>1 DEF TypeOK
  <2>3. CASE ~Unhealthy(t) /\ ~LookUp(t) /\ ~DropUnhealthy(t)
    BY <2>3 DEF Ask, Denied, CreateFails, Announced, handleVars
  <2> QED  BY <2>1, <2>2, <2>3
<1>5. \A h : \A u \in Holders : Has(u, h)' <=> Has(u, h)
  BY <1>2, <1>3, SameClaims, HoldersAreTasks
<1> QED  BY <1>0, <1>1, <1>4, <1>5, ExactKept DEF Clean

LEMMA CreateExact ==
  ASSUME LInv, HInv', NEW t \in Tasks, Create(t)
  PROVE  Exact'
<1>0. PICK h : h = count + 1  OBVIOUS
<1>1. /\ pc[t] = "ensuring" /\ count < MaxHandles /\ count' = h
      /\ (\E s : scopeOf' = [scopeOf EXCEPT ![h] = s]) /\ status' = [status EXCEPT ![h] = "ready"]
      /\ refs' = [refs EXCEPT ![h] = 1] /\ mine' = [mine EXCEPT ![t] = h]
      /\ Goes(t, "announcing") /\ UNCHANGED <<held, cancels, kept>>
  BY <1>0 DEF Create
<1>2. IInv /\ TypeOK /\ HInv /\ Exact /\ Order  BY DEF LInv, HInv, IInv
<1>3. /\ h \in Handles /\ h \notin 1 .. count /\ 1 .. count' = (1 .. count) \cup {h}
      /\ 1 .. count \subseteq Handles
  BY <1>0, <1>1, <1>2, MadeAreHandles, ResourcesAssumption DEF TypeOK, Handles
<1>4. Moves(t) /\ pc'[t] = "announcing"  BY <1>1, <1>2, GoesMoves
<1>5. /\ mine'[t] = h /\ refs'[h] = 1
      /\ \A g \in Handles \ {h} :
             scopeOf'[g] = scopeOf[g] /\ status'[g] = status[g] /\ refs'[g] = refs[g]
  BY <1>1, <1>2, <1>3 DEF TypeOK
<1>6. t \in Holders
  BY <1>1, <1>2, HoldersAreTasks DEF Order, OrderOf, Ensuring
<1>7. Cardinality(Claims(h)') \in Nat /\ Cardinality(Claims(h)') >= 1
  <2>1. {t} \subseteq Claims(h)'  BY <1>4, <1>5, <1>6 DEF Claims, Has
  <2>2. IsFiniteSet(Claims(h)')  BY <1>3 DEF HInv, FewClaims
  <2>3. Cardinality({t}) = 1  BY FS_Singleton
  <2>4. Cardinality({t}) <= Cardinality(Claims(h)')  BY <2>1, <2>2, FS_Subset
  <2>5. Cardinality(Claims(h)') \in Nat  BY <2>2, FS_CardinalityType
  <2> QED  BY <2>3, <2>4, <2>5
<1>8. ASSUME NEW g \in 1 .. count PROVE Claims(g)' = Claims(g)
  <2>1. g # h  BY <1>3
  <2>2. Has(t, g)' <=> Has(t, g)  BY <1>1, <1>4, <1>5, <2>1 DEF Has
  <2>3. \A u \in Holders : Has(u, g)' <=> Has(u, g)
    BY <1>1, <1>4, <2>2, SameClaims, HoldersAreTasks
  <2> QED  BY <2>3 DEF Claims
<1> SUFFICES ASSUME NEW g \in 1 .. count', Clean(g)', status'[g] = "ready"
             PROVE  refs'[g] <= Cardinality(Claims(g)') /\ refs'[g] >= 1
  BY DEF Exact
<1>9. CASE g = h  BY <1>5, <1>7, <1>9
<1>10. CASE g \in 1 .. count
  <2>1. g \in Handles \ {h}  BY <1>3, <1>10
  <2>2. Clean(g) /\ status[g] = "ready" /\ refs'[g] = refs[g]  BY <1>1, <1>5, <2>1 DEF Clean
  <2> QED  BY <1>2, <1>8, <1>10, <2>2 DEF Exact
<1> QED  BY <1>3, <1>9, <1>10

\* A user who shares a handle had no claim to it.
LEMMA HealthyExact ==
  ASSUME LInv, HInv', NEW t \in Tasks, Healthy(t)
  PROVE  Exact'
<1>0. PICK h : h = mine[t]  OBVIOUS
<1>1. /\ pc[t] = "checking" /\ refs' = [refs EXCEPT ![h] = @ + 1]
      /\ held' = [held EXCEPT ![t] = @ \cup {h}]
      /\ \E place \in {"idle", "using", "done"} : Goes(t, place)
      /\ UNCHANGED <<count, keyOf, scopeOf, status, mine, cancels, kept>>
  BY <1>0 DEF Healthy, Share, Receive
<1>2. IInv /\ TypeOK /\ HInv /\ Exact /\ OrderOf(t)  BY DEF LInv, HInv, IInv, Order
<1>3. h \in 1 .. count /\ 1 .. count \subseteq Handles
  BY <1>0, <1>1, <1>2, MadeAreHandles DEF IInv, Pointers
<1>4. Moves(t) /\ pc'[t] \in {"idle", "using", "done"}  BY <1>1, <1>2, GoesMoves
<1>5. /\ refs'[h] = refs[h] + 1 /\ refs[h] \in Nat
      /\ \A g \in Handles \ {h} : refs'[g] = refs[g]
  BY <1>1, <1>2, <1>3 DEF TypeOK
<1>6. held'[t] = held[t] \cup {h} /\ \A u \in Tasks \ {t} : held'[u] = held[u]
  BY <1>1, <1>2 DEF TypeOK
<1>7. t \in Holders /\ ~Has(t, h)
  <2>1. t \in Users /\ keyOf[h] = key[t]  BY <1>0, <1>1, <1>2 DEF OrderOf, Ensuring
  <2>2. h \notin held[t]  BY <1>1, <1>2, <2>1 DEF OrderOf, Ensuring
  <2> QED  BY <1>1, <2>1, <2>2, HoldersAreTasks DEF Has
<1>8. Cardinality(Claims(h)') = Cardinality(Claims(h)) + 1 /\ Cardinality(Claims(h)) \in Nat
  <2>1. t \notin Claims(h) /\ Has(t, h)'  BY <1>6, <1>7 DEF Claims, Has
  <2>2. \A u \in Holders \ {t} : Has(u, h)' <=> Has(u, h)
    BY <1>4, <1>6, HoldersAreTasks DEF Has, Moves
  <2>3. Claims(h)' = Claims(h) \cup {t}  BY <1>7, <2>1, <2>2 DEF Claims
  <2>4. IsFiniteSet(Claims(h))  BY <1>2, <1>3 DEF HInv, FewClaims
  <2> QED  BY <2>1, <2>3, <2>4, FS_AddElement, FS_CardinalityType
<1>9. ASSUME NEW g \in 1 .. count, g # h PROVE Claims(g)' = Claims(g)
  <2>1. Has(t, g)' <=> Has(t, g)  BY <1>1, <1>4, <1>6, <1>9 DEF Has
  <2>2. \A u \in Holders : Has(u, g)' <=> Has(u, g)
    BY <1>4, <1>6, <2>1, SameClaims, HoldersAreTasks
  <2> QED  BY <2>2 DEF Claims
<1> SUFFICES ASSUME NEW g \in 1 .. count, Clean(g), status[g] = "ready"
             PROVE  refs'[g] <= Cardinality(Claims(g)') /\ refs'[g] >= 1
  BY <1>1 DEF Exact, Clean
<1>10. refs[g] <= Cardinality(Claims(g)) /\ refs[g] >= 1  BY <1>2 DEF Exact
<1>11. CASE g = h  BY <1>5, <1>8, <1>10, <1>11
<1>12. CASE g # h
  <2>1. refs'[g] = refs[g]  BY <1>3, <1>5, <1>12
  <2> QED  BY <1>9, <1>10, <1>12, <2>1
<1> QED  BY <1>11, <1>12

LEMMA ReleaseExact ==
  ASSUME LInv, HInv', NEW t \in Tasks, NEW h \in Handles, Release(t, h)
  PROVE  Exact'
<1>1. /\ pc[t] = "returning" /\ h \in held[t] /\ held' = [held EXCEPT ![t] = @ \ {h}]
      /\ UNCHANGED <<count, keyOf, scopeOf, cancels, kept, table>>
  BY DEF Release
<1>2. IInv /\ TypeOK /\ HInv /\ Exact /\ OrderOf(t) /\ Shape  BY DEF LInv, HInv, IInv, Order
<1>3. h \in 1 .. count /\ 1 .. count \subseteq Handles
  BY <1>1, <1>2, MadeAreHandles DEF Shape, OnlyMade
<1>4. held'[t] = held[t] \ {h} /\ \A u \in Tasks \ {t} : held'[u] = held[u]
  BY <1>1, <1>2 DEF TypeOK
<1>5. Moves(t) /\ pc'[t] \in {"returning", "releasing"}
  <2>1. CASE UNCHANGED <<pc, mine>>  BY <1>1, <2>1 DEF Moves
  <2>2. CASE Goes(t, "releasing") /\ mine' = [mine EXCEPT ![t] = h]
    BY <1>2, <2>2, GoesMoves
  <2> QED  BY <2>1, <2>2 DEF Release
<1>6. /\ \A g \in Handles \ {h} : refs'[g] = refs[g] /\ status'[g] = status[g]
      /\ status'[h] = "ready" => h \notin table \/ (status[h] = "ready" /\ refs[h] > 1 /\ refs'[h] = refs[h] - 1)
  <2>1. CASE UNCHANGED <<status, refs>> /\ h \notin table  BY <2>1
  <2>2. CASE ~LastReference(h) /\ refs' = [refs EXCEPT ![h] = @ - 1] /\ status' = status
    BY <1>2, <2>2 DEF TypeOK, LastReference
  <2>3. CASE status' = [status EXCEPT ![h] = "releasing"] /\ refs' = refs
    BY <1>2, <2>3 DEF TypeOK
  <2> QED  BY <2>1, <2>2, <2>3 DEF Release
<1>7. ASSUME NEW g \in 1 .. count, g # h PROVE Claims(g)' = Claims(g)
  <2>1. Has(t, g)' <=> Has(t, g)  BY <1>1, <1>4, <1>5, <1>7 DEF Has
  <2>2. \A u \in Holders : Has(u, g)' <=> Has(u, g)
    BY <1>4, <1>5, <2>1, SameClaims, HoldersAreTasks
  <2> QED  BY <2>2 DEF Claims
<1> SUFFICES ASSUME NEW g \in 1 .. count, Clean(g), status'[g] = "ready"
             PROVE  refs'[g] <= Cardinality(Claims(g)') /\ refs'[g] >= 1
  BY <1>1 DEF Exact, Clean
<1>8. CASE g # h
  <2>1. refs'[g] = refs[g] /\ status[g] = "ready"  BY <1>3, <1>6, <1>8
  <2> QED  BY <1>2, <1>7, <1>8, <2>1 DEF Exact
<1>9. CASE g = h
  <2>1. h \in table
    <3>1. ReadyIsKept'  BY DEF HInv, Shape
    <3> QED  BY <1>1, <1>3, <1>9, <3>1 DEF ReadyIsKept
  <2>2. status[h] = "ready" /\ refs[h] > 1 /\ refs'[h] = refs[h] - 1  BY <1>6, <1>9, <2>1
  <2>3. refs[h] <= Cardinality(Claims(h)) /\ refs[h] \in Nat
    BY <1>2, <1>3, <1>9, <2>2 DEF Exact, TypeOK
  <2>4. t \in Holders
    <3>1. t \notin Scopes  BY <1>1, <1>2, <1>9 DEF OrderOf, Clean
    <3> QED  BY <3>1 DEF Holders, Tasks
  <2>5. IsFiniteSet(Claims(h)) /\ t \in Claims(h)
    BY <1>1, <1>2, <1>3, <2>4 DEF HInv, FewClaims, Claims, Has
  <2>6. ~Has(t, h)'  BY <1>4, <1>5 DEF Has
  <2>7. \A u \in Holders \ {t} : Has(u, h)' <=> Has(u, h)
    BY <1>4, <1>5, HoldersAreTasks DEF Has, Moves
  <2>8. Claims(h)' = Claims(h) \ {t}  BY <2>6, <2>7 DEF Claims
  <2>9. Cardinality(Claims(h)') = Cardinality(Claims(h)) - 1 /\ Cardinality(Claims(h)) \in Nat
    BY <2>5, <2>8, FS_RemoveElement, FS_CardinalityType
  <2> QED  BY <1>9, <2>2, <2>3, <2>9
<1> QED  BY <1>8, <1>9

\* A close takes over the claims of its execution one for one.
LEMMA CloseExact ==
  ASSUME LInv, HInv', NEW t \in Closers, Close(t)
  PROVE  Exact'
<1>0. PICK e : e = ClosedBy[t]  OBVIOUS
<1>1. /\ pc[t] = "idle" /\ held' = [held EXCEPT ![t] = held[e], ![e] = {}]
      /\ Goes(t, "returning") /\ UNCHANGED <<count, keyOf, scopeOf, status, refs, mine, cancels, kept>>
  BY <1>0 DEF Close, handleVars
<1>2. IInv /\ TypeOK /\ HInv /\ Exact /\ Shape /\ t \in Tasks /\ OrderOf(t)
  BY HoldersAreTasks DEF LInv, HInv, IInv, Order, Tasks
<1>3. t \in Holders /\ e \in Users /\ e \in Holders /\ e \in Tasks /\ e # t
  BY <1>0, ResourcesAssumption, HoldersAreTasks DEF Users
<1>4. Moves(t) /\ pc'[t] = "returning"  BY <1>1, <1>2, GoesMoves
<1>5. /\ held'[t] = held[e] /\ held'[e] = {} /\ held[t] = {}
      /\ \A u \in Tasks \ {t, e} : held'[u] = held[u]
  BY <1>1, <1>2, <1>3 DEF TypeOK, OrderOf
<1>6. ASSUME NEW h \in 1 .. count
      PROVE  Cardinality(Claims(h)') = Cardinality(Claims(h))
  <2>1. ~Has(t, h)  BY <1>1, <1>5 DEF Has
  <2>2. Has(t, h)' <=> h \in held[e]  BY <1>4, <1>5 DEF Has
  <2>3. \A u \in Tasks \ {t, e} : Has(u, h)' <=> Has(u, h)  BY <1>4, <1>5 DEF Has, Moves
  <2>4. pc'[e] = pc[e] /\ mine'[e] = mine[e]  BY <1>3, <1>4 DEF Moves
  <2>5. CASE h \in held[e]
    <3>1. ~Has(e, h)'  BY <1>2, <1>3, <1>5, <2>4, <2>5 DEF Has, Shape, NewIsNotHeld
    <3>2. e \in Claims(h) /\ t \notin Claims(h)  BY <1>3, <2>1, <2>5 DEF Claims, Has
    <3>3. Claims(h)' = (Claims(h) \ {e}) \cup {t}
      BY <1>3, <2>1, <2>2, <2>3, <2>5, <3>1, <3>2, HoldersAreTasks DEF Claims
    <3>4. IsFiniteSet(Claims(h))  BY <1>2, MadeAreHandles DEF HInv, FewClaims
    <3>5. /\ IsFiniteSet(Claims(h) \ {e})
          /\ Cardinality(Claims(h) \ {e}) = Cardinality(Claims(h)) - 1
      BY <3>2, <3>4, FS_RemoveElement
    <3>6. Cardinality((Claims(h) \ {e}) \cup {t}) = Cardinality(Claims(h) \ {e}) + 1
      BY <3>2, <3>5, FS_AddElement
    <3>7. Cardinality(Claims(h)) \in Nat  BY <3>4, FS_CardinalityType
    <3> QED  BY <3>3, <3>5, <3>6, <3>7
  <2>6. CASE h \notin held[e]
    <3>1. Has(e, h)' <=> Has(e, h)  BY <1>5, <2>4, <2>6 DEF Has
    <3>2. \A u \in Holders : Has(u, h)' <=> Has(u, h)
      BY <2>1, <2>2, <2>3, <2>6, <3>1, HoldersAreTasks
    <3>3. Claims(h)' = Claims(h)  BY <3>2 DEF Claims
    <3> QED  BY <3>3
  <2> QED  BY <2>5, <2>6
<1> QED  BY <1>1, <1>2, <1>6 DEF Exact, Clean

LEMMA OthersExact ==
  ASSUME LInv, HInv', NEW t \in Tasks,
         \/ Released(t) \/ ReleaseFails(t) \/ AllReturned(t) \/ Cancel(t)
         \/ (t \in Actions /\ Finish(t)) \/ (t \in Scopes /\ ReleaseScope(t))
  PROVE  Exact'
<1>0. /\ IInv /\ TypeOK /\ HInv /\ Exact /\ 1 .. count \subseteq Handles
      /\ table \subseteq 1 .. count
  BY MadeAreHandles DEF LInv, HInv, IInv, TypeOK
<1>1. CASE Cancel(t)
  <2>1. cancels' # 0  BY <1>0, <1>1 DEF Cancel, TypeOK
  <2> QED  BY <2>1 DEF Exact, Clean
<1>2. CASE ~Cancel(t)
  <2>1. UNCHANGED <<count, keyOf, scopeOf, refs, mine, cancels>> /\ kept \subseteq kept'
    BY <1>2 DEF Released, ReleaseFails, AllReturned, Finish, ReleaseScope, handleVars
  <2>2. /\ pc[t] # "announcing"
        /\ \E place \in {"ensuring", "returning", "done"} : Goes(t, place)
    BY <1>2 DEF Released, ReleaseFails, EnsureRaises, ReleaseRaises, AllReturned, Finish, ReleaseScope
  <2>3. Moves(t) /\ pc'[t] # "announcing"  BY <1>0, <2>1, <2>2, GoesMoves
  <2>4. \A h \in 1 .. count : status'[h] = "ready" => status[h] = "ready"
    <3>1. \/ status' = status
          \/ status' = [status EXCEPT ![mine[t]] = "released"]
          \/ status' = [status EXCEPT ![mine[t]] = "failed"]
      BY <1>2 DEF Released, ReleaseFails, AllReturned, Finish, ReleaseScope, handleVars
    <3> QED  BY <1>0, <3>1 DEF TypeOK
  <2>5. /\ \A u \in Tasks \ {t} : held'[u] = held[u]
        /\ t \in Scopes \/ \A h : h \notin kept' => (h \in held'[t] <=> h \in held[t])
    <3>1. CASE t \in Scopes /\ ReleaseScope(t)
      BY <1>0, <3>1 DEF ReleaseScope, TypeOK
    <3>2. CASE Finish(t)
      <4>1. /\ held' = [held EXCEPT ![t] = {h \in @ : scopeOf[h] = "action_call"}]
            /\ kept' = kept \cup {h \in held[t] : scopeOf[h] # "action_call"}
        BY <3>2 DEF Finish
      <4>2. /\ held'[t] = {h \in held[t] : scopeOf[h] = "action_call"}
            /\ \A u \in Tasks \ {t} : held'[u] = held[u]
        BY <1>0, <4>1 DEF TypeOK
      <4>3. \A h : h \notin kept' => (h \in held'[t] <=> h \in held[t])  BY <4>1, <4>2
      <4> QED  BY <4>2, <4>3
    <3>3. CASE Released(t) \/ ReleaseFails(t) \/ AllReturned(t)
      BY <3>3 DEF Released, ReleaseFails, AllReturned
    <3> QED  BY <1>2, <3>1, <3>2, <3>3
  <2>6. ASSUME NEW h \in 1 .. count, Clean(h)', NEW u \in Holders PROVE Has(u, h)' <=> Has(u, h)
    <3>1. CASE u # t
      <4>1. u \in Tasks \ {t}  BY <3>1, HoldersAreTasks
      <4> QED  BY <2>3, <2>5, <4>1 DEF Has, Moves
    <3>2. CASE u = t
      <4>1. t \notin Scopes  BY <2>6, <3>2, ResourcesAssumption DEF Holders
      <4>2. h \in held'[t] <=> h \in held[t]  BY <2>5, <2>6, <4>1 DEF Clean
      <4> QED  BY <2>2, <2>3, <3>2, <4>2 DEF Has
    <3> QED  BY <3>1, <3>2
  <2>7. \A h : Clean(h)' => Clean(h)  BY <2>1 DEF Clean
  <2> QED  BY <1>0, <2>1, <2>4, <2>6, <2>7, ExactKept
<1> QED  BY <1>1, <1>2

-----------------------------------------------------------------------------
LEMMA InitLeft == Init => LInv
<1> SUFFICES ASSUME Init PROVE LInv  OBVIOUS
<1>1. HInv  BY InitHolds
<1>2. Order
  <2> SUFFICES ASSUME NEW t \in Tasks PROVE OrderOf(t)  BY DEF Order
  <2>1. pc[t] = "idle" /\ held[t] = {}  BY DEF Init
  <2> QED  BY <2>1 DEF OrderOf, Ensuring
<1>3. Tracked  BY DEF Init, Tracked
<1>4. Exact  BY DEF Init, Exact
<1> QED  BY <1>1, <1>2, <1>3, <1>4 DEF LInv

LEMMA LeftInductive == LInv /\ HInv' /\ [Next]_vars => LInv'
<1> SUFFICES ASSUME LInv, HInv', [Next]_vars PROVE LInv'  OBVIOUS
<1>0. HInv /\ Order /\ Tracked /\ Exact  BY DEF LInv
<1>1. CASE Next
  <2>1. PICK t \in Tasks :
            \/ Step(t) \/ Unhealthy(t) \/ CreateFails(t) \/ Denied(t) \/ ReleaseFails(t) \/ Cancel(t)
            \/ (t \in Users /\ Ask(t)) \/ (t \in Actions /\ Finish(t))
            \/ (t \in Closers /\ Close(t)) \/ (t \in Scopes /\ ReleaseScope(t))
    BY <1>1 DEF Next, Tasks, Users
  <2>2. Order'
    BY <1>0, <2>1, EnsureOrder, CreateOrder, ReleaseOrder, OthersOrder DEF Step
  <2>3. Tracked'  BY <1>0, <2>1, EnsureTracked, CreateTracked, OthersTracked DEF Step
  <2>4. Exact'
    BY <2>1, EnsureExact, CreateExact, HealthyExact, ReleaseExact, CloseExact, OthersExact
    DEF Step
  <2> QED  BY <2>2, <2>3, <2>4 DEF LInv
<1>2. CASE UNCHANGED vars
  <2>1. /\ UNCHANGED <<count, keyOf, scopeOf, status, refs, table, up, cancels, kept>>
        /\ UNCHANGED <<pc, key, mine, held, left>>
    BY <1>2 DEF vars, handleVars, taskVars
  <2>2. Order'  BY <1>0, <2>1 DEF Order, OrderOf
  <2>3. Tracked'  BY <1>0, <2>1 DEF Tracked, Clean, Watches
  <2>4. Exact'  BY <1>0, <2>1, ExactKept DEF Clean, Has
  <2> QED  BY <2>2, <2>3, <2>4 DEF LInv
<1> QED  BY <1>1, <1>2

\* For any number of calls and handles: when all of them are over and nobody was cancelled,
\* a resource exists only where its release failed and the manager still has it, where its
\* scope goes on, where an action that shared it passed it over since it was not made for
\* an action call, or where a start or a close kept it in its list (async_release,
\* _async_release_handle, _release_managed_execution_resources).
THEOREM NothingLeaks == Spec => []NothingLeft
<1>1. LInv => NothingLeft
  <2> SUFFICES ASSUME LInv, \A t \in Tasks : pc[t] = "done", cancels = 0,
                      NEW h \in up, scopeOf[h] # "session", h \notin kept
               PROVE  \/ status[h] = "failed" /\ h \in table
                      \/ \E t \in Executions \cup Closers : h \in held[t]
    BY DEF NothingLeft
  <2>1. Clean(h)  BY DEF Clean
  <2>2. h \in table /\ h \in 1 .. count /\ h \in Handles
    BY MadeAreHandles DEF LInv, Tracked, HInv, IInv, TypeOK
  <2>3. \A t \in Tasks : ~Watches(t, h)  BY DEF Watches
  <2>4. status[h] \in {"ready", "failed"}  BY <2>1, <2>3 DEF LInv, Tracked
  <2>5. CASE status[h] = "ready"
    <3>1. refs[h] <= Cardinality(Claims(h)) /\ refs[h] >= 1  BY <2>1, <2>2, <2>5 DEF LInv, Exact
    <3>2. Claims(h) # {}
      <4>1. refs[h] \in Nat  BY <2>2 DEF LInv, HInv, IInv, TypeOK
      <4> QED  BY <3>1, <4>1, FS_EmptySet
    <3>3. PICK t \in Holders : Has(t, h)  BY <3>2 DEF Claims
    <3>4. t \in Tasks /\ h \in held[t]  BY <3>3, HoldersAreTasks DEF Has
    <3>5. t \notin Actions  BY <3>4 DEF LInv, Order, OrderOf
    <3> QED  BY <3>4, <3>5 DEF Holders, Users
  <2> QED  BY <2>2, <2>4, <2>5
<1> QED  BY <1>1, InitLeft, LeftInductive, HoldersInvariance, PTL DEF Spec

=============================================================================
