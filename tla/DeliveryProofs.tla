---------------------------- MODULE DeliveryProofs ----------------------------
(***************************************************************************)
(* What the promise of Delivery comes to, for any tasks and effects: every *)
(* queue that implements Delivery serves its tasks.                        *)
(***************************************************************************)
EXTENDS Delivery, TLAPS

ServedInv == TypeOK /\ Served

LEMMA TypeStep ==
  ASSUME Wanted \in [Tasks -> SUBSET Effects], TypeOK, Next
  PROVE  TypeOK'
<1>1. failed' \in BOOLEAN /\ met' \in BOOLEAN /\ state' \in [Tasks -> States]
  BY DEF TypeOK, Next
<1>2. happened' \in [Tasks -> [Effects -> Nat]]
  <2>1. ASSUME NEW t \in Tasks, NEW e \in Wanted[t],
               happened' = [happened EXCEPT ![t][e] = @ + 1]
        PROVE  happened' \in [Tasks -> [Effects -> Nat]]
    BY <2>1 DEF TypeOK
  <2>2. Settle \/ \E t \in Tasks : \E e \in Wanted[t] : Act(t, e)
    BY DEF Next
  <2> QED BY <2>1, <2>2 DEF TypeOK, Settle, Act
<1> QED BY <1>1, <1>2 DEF TypeOK

\* The outcomes change, and nothing happens.
LEMMA SettleServes ==
  ASSUME ServedInv, Settle, state' \in [Tasks -> States], failed' \in {failed, TRUE}
  PROVE  Served'
<1>1. \A t \in Tasks : All(t)' <=> All(t)
  BY DEF All, Settle
<1>2. ~failed' => ~failed
  BY DEF ServedInv, TypeOK
<1>3. ASSUME NEW t \in Tasks
      PROVE  /\ state'[t] = "done" => state[t] = "done" \/ All(t)
             /\ state[t] # "absent" => state'[t] # "absent"
             /\ state'[t] = "dropped" /\ ~failed => state[t] = "dropped" \/ ~All(t)
  BY DEF Settle, MayChange
<1> QED BY <1>1, <1>2, <1>3 DEF ServedInv, Served, Settle

\* An effect happens.
LEMMA ActServes ==
  ASSUME Wanted \in [Tasks -> SUBSET Effects], ServedInv,
         NEW t \in Tasks, NEW e \in Wanted[t], Act(t, e), UNCHANGED state, failed' \in {failed, TRUE}
  PROVE  Served'
<1>1. e \in Effects /\ \A u \in Tasks : Wanted[u] \subseteq Effects
  OBVIOUS
<1>2. \A u \in Tasks, x \in Effects :
         happened'[u][x] = IF u = t /\ x = e THEN happened[u][x] + 1 ELSE happened[u][x]
  BY <1>1 DEF Act, ServedInv, TypeOK
<1>3. \A u \in Tasks, x \in Effects : happened[u][x] > 0 => happened'[u][x] > 0
  BY <1>2 DEF ServedInv, TypeOK
<1>4. \A u \in Tasks : All(u) => All(u)'
  BY <1>1, <1>3 DEF All
<1>5. ~failed' => ~failed /\ state[t] = "taken" /\ happened[t][e] = 0
  BY DEF Act, ServedInv, TypeOK
<1>6. ASSUME ~failed', NEW u \in Tasks
      PROVE  /\ \A x \in Effects : happened'[u][x] <= 1
             /\ \A x \in Wanted[u] : happened'[u][x] > 0 => state'[u] # "absent"
             /\ state'[u] = "dropped" => ~All(u)'
  <2>1. CASE u = t
    BY <1>2, <1>5, <1>6, <2>1 DEF ServedInv, Served
  <2>2. CASE u # t
    <3>1. \A x \in Effects : happened'[u][x] = happened[u][x]
      BY <1>2, <2>2
    <3>2. All(u)' <=> All(u)
      BY <1>1, <3>1 DEF All
    <3> QED BY <1>1, <1>5, <1>6, <3>1, <3>2 DEF ServedInv, Served
  <2> QED BY <2>1, <2>2
<1> QED BY <1>4, <1>6 DEF ServedInv, Served

\* A queue that delivers serves its tasks: none is done before it was done in
\* full, and as long as nothing has failed nothing is done twice, nor before
\* somebody asked for it, nor given up when it was done.
THEOREM PromiseServes ==
  ASSUME Wanted \in [Tasks -> SUBSET Effects]
  PROVE  Spec => []Served
<1>1. Init => ServedInv
  <2> SUFFICES ASSUME Init PROVE ServedInv
    OBVIOUS
  <2>1. TypeOK
    BY DEF Init, TypeOK, States
  <2>2. \A t \in Tasks : /\ state[t] = "absent"
                        /\ \A e \in Effects : happened[t][e] = 0
    BY DEF Init
  <2>3. \A t \in Tasks : Wanted[t] \subseteq Effects
    OBVIOUS
  <2> QED BY <2>1, <2>2, <2>3 DEF ServedInv, Served
<1>2. ServedInv /\ [Next]_vars => ServedInv'
  <2> SUFFICES ASSUME ServedInv, [Next]_vars PROVE ServedInv'
    OBVIOUS
  <2>1. CASE Next
    <3>1. TypeOK'
      BY <2>1, TypeStep DEF ServedInv
    <3>2. Served'
      BY <2>1, SettleServes, ActServes DEF Next
    <3> QED BY <3>1, <3>2 DEF ServedInv
  <2>2. CASE UNCHANGED vars
    BY <2>2 DEF vars, ServedInv, TypeOK, Served, All
  <2> QED BY <2>1, <2>2
<1>3. ServedInv => Served
  BY DEF ServedInv
<1> QED BY <1>1, <1>2, <1>3, PTL DEF Spec
=============================================================================
