---------------------------- MODULE WSDequeProofs ----------------------------
(***************************************************************************)
(* The deque of WSDeque neither loses nor duplicates an element, for any   *)
(* number of thieves, any initial array size and any number of pushes.     *)
(* And it implements the abstract deque: every step of Take, Push or Steal *)
(* is one step of Deque or leaves its sequence alone.                      *)
(***************************************************************************)
EXTENDS WSDeque, Sequences, SequenceTheorems, TLAPS

USE DEF NULL

-----------------------------------------------------------------------------
(* The circular arrays.                                                     *)

LEMMA SlotRange ==
  ASSUME NEW i \in Nat, NEW n \in Nat \ {0}
  PROVE  Slot(i, n) \in 0 .. n - 1
BY SMT DEF Slot

\* Indices less than a whole array apart use different slots of it.
LEMMA SlotsDistinct ==
  ASSUME NEW n \in Nat \ {0}, NEW i \in Nat, NEW j \in Nat, i < j, j - i < n
  PROVE  Slot(i, n) # Slot(j, n)
<1> DEFINE p == i \div n
           q == j \div n
<1> SUFFICES ASSUME i % n = j % n PROVE FALSE
  BY DEF Slot
<1>1. p \in Int /\ q \in Int /\ i = n * p + (i % n) /\ j = n * q + (j % n)
  BY SMT
<1>2. j - i = n * (q - p)
  BY <1>1, SMT
<1>3. ASSUME NEW k \in Int, k >= 1 PROVE n * k >= n
  BY <1>3, SMT
<1>4. ASSUME NEW k \in Int, k <= 0 PROVE n * k <= 0
  BY <1>4, SMT
<1>5. CASE q - p >= 1
  BY <1>1, <1>2, <1>3, <1>5, SMT
<1>6. CASE q - p <= 0
  BY <1>1, <1>2, <1>4, <1>6, SMT
<1>7. QED
  BY <1>1, <1>5, <1>6, SMT

LEMMA GetType ==
  ASSUME NEW a, IsWSArray(a), NEW i \in Nat
  PROVE  Ci_WSArray_Get(a, i) \in Item \cup {NULL}
BY SlotRange DEF IsWSArray, Ci_WSArray_Get

LEMMA PutType ==
  ASSUME NEW a, IsWSArray(a), NEW i \in Nat, NEW x \in Item
  PROVE  /\ IsWSArray(Ci_WSArray_Put(a, i, x))
         /\ Ci_WSArray_Put(a, i, x).size = a.size
BY SlotRange, SMTT(60) DEF IsWSArray, Ci_WSArray_Put

LEMMA GetPut ==
  ASSUME NEW a, IsWSArray(a), NEW i \in Nat, NEW x \in Item
  PROVE  /\ Ci_WSArray_Get(Ci_WSArray_Put(a, i, x), i) = x
         /\ \A j \in Nat : j < i /\ i - j < a.size =>
              Ci_WSArray_Get(Ci_WSArray_Put(a, i, x), j) = Ci_WSArray_Get(a, j)
<1>1. Slot(i, a.size) \in 0 .. a.size - 1
  BY SlotRange DEF IsWSArray
<1>2. ASSUME NEW j \in Nat, j < i, i - j < a.size
      PROVE  Slot(j, a.size) # Slot(i, a.size) /\ Slot(j, a.size) \in 0 .. a.size - 1
  BY <1>2, SlotRange, SlotsDistinct DEF IsWSArray
<1>3. QED
  BY <1>1, <1>2 DEF IsWSArray, Ci_WSArray_Get, Ci_WSArray_Put

LEMMA Grow ==
  ASSUME NEW a, IsWSArray(a), NEW t \in Nat, NEW b \in Nat, b - t <= a.size
  PROVE  /\ IsWSArray(Ci_WSArray_Grow(a, t, b))
         /\ Ci_WSArray_Grow(a, t, b).size = 2 * a.size
         /\ \A i \in t .. b - 1 :
              Ci_WSArray_Get(Ci_WSArray_Grow(a, t, b), i) = Ci_WSArray_Get(a, i)
<1> DEFINE n == 2 * a.size
           g == Ci_WSArray_Grow(a, t, b)
           pick(i) == CHOOSE k \in t .. b - 1 : Slot(k, n) = i
<1>1. n \in Nat \ {0} /\ a.size \in Nat
  BY DEF IsWSArray
<1>2. ASSUME NEW i \in 0 .. n - 1, \E k \in t .. b - 1 : Slot(k, n) = i
      PROVE  pick(i) \in t .. b - 1 /\ Slot(pick(i), n) = i
  BY <1>2
<1>3. ASSUME NEW i \in t .. b - 1 PROVE pick(Slot(i, n)) = i
  <2>0. i \in Nat
    BY SMT
  <2>1. Slot(i, n) \in 0 .. n - 1
    BY <1>1, <2>0, SlotRange
  <2>2. pick(Slot(i, n)) \in t .. b - 1 /\ Slot(pick(Slot(i, n)), n) = Slot(i, n)
    BY <1>2, <2>1
  <2>3. QED
    BY <1>1, <2>2, SlotsDistinct
<1>4. g.size = n /\ g = [size |-> g.size, buf |-> g.buf]
  BY DEF Ci_WSArray_Grow
<1>5. g.buf = [i \in 0 .. n - 1 |->
                 IF \E k \in t .. b - 1 : Slot(k, n) = i
                   THEN Ci_WSArray_Get(a, pick(i)) ELSE NULL]
  BY DEF Ci_WSArray_Grow
<1>6. ASSUME NEW i \in 0 .. n - 1 PROVE g.buf[i] \in Item \cup {NULL}
  BY <1>2, <1>5, GetType
<1>7. g.buf \in [0 .. n - 1 -> Item \cup {NULL}]
  BY <1>5, <1>6, Zenon
<1>8. ASSUME NEW i \in t .. b - 1
      PROVE  Ci_WSArray_Get(g, i) = Ci_WSArray_Get(a, i)
  <2>0. i \in Nat
    BY SMT
  <2>1. Slot(i, n) \in 0 .. n - 1
    BY <1>1, <2>0, SlotRange
  <2>2. g.buf[Slot(i, n)] = Ci_WSArray_Get(a, pick(Slot(i, n)))
    BY <1>5, <2>1
  <2>3. QED
    BY <1>3, <1>4, <2>2, Zenon DEF Ci_WSArray_Get
<1>9. QED
  BY <1>1, <1>4, <1>7, <1>8 DEF IsWSArray

-----------------------------------------------------------------------------
(* The invariant holds initially.                                           *)

LEMMA CurTyped ==
  ASSUME TypeOK
  PROVE  /\ cur \in 1 .. cur /\ IsWSArray(arrs[cur])
         /\ arrs[cur].size \in Nat \ {0}
BY DEF TypeOK, IsWSArray

LEMMA InitInv == Init => Inv
<1> SUFFICES ASSUME Init PROVE Inv
  OBVIOUS
<1> USE InitSizeAssumption, MaxPushAssumption DEF Init, Ci_WSDeque_Init
<1>1. TypeOK
  BY DEF TypeOK, IsWSArray, Ci_WSArray_New, OwnerPC, ThiefPC
<1>2. Limit = 1 /\ Visible = 0 /\ ~Taking /\ ~Pushing
  BY DEF Limit, Visible, Taking, Pushing
<1>3. Bounds
  BY <1>1, <1>2 DEF Bounds, TypeOK, IsWSArray
<1>4. OwnerKnows
  BY <1>2 DEF OwnerKnows
<1>5. HeldOnce /\ NothingLost
  BY <1>2 DEF HeldOnce, NothingLost
<1>6. NoDuplicate /\ GivenOutWasPushed
  BY <1>2 DEF NoDuplicate, GivenOutWasPushed
<1>7. ThiefKnows
  BY DEF ThiefKnows
<1>8. QED
  BY <1>1, <1>3, <1>4, <1>5, <1>6, <1>7 DEF Inv

-----------------------------------------------------------------------------
(* Every action preserves the invariant.                                    *)

LEMMA TakeClaimInv == Inv /\ TakeClaim => Inv'
<1> SUFFICES ASSUME Inv, TakeClaim PROVE Inv'
  OBVIOUS
<1> USE MaxPushAssumption, WordAssumption DEF Inv, TakeClaim, thieves
<1>1. bot \in Nat /\ 1 <= bot /\ Dec(bot) = bot - 1
  BY DEF TypeOK, Bounds, Limit, Taking, Dec
<1>2. TypeOK'
  BY <1>1 DEF TypeOK, OwnerPC
<1>3. Limit' = Limit /\ Visible' = Visible /\ Taking' /\ ~Pushing'
  BY <1>1 DEF TypeOK, Limit, Visible, Taking, Pushing
<1>4. \A i : At(i)' = At(i)
  BY DEF At
<1>5. Bounds' /\ OwnerKnows'
  BY <1>1, <1>3 DEF TypeOK, Bounds, OwnerKnows, Taking, Pushing
<1>6. HeldOnce' /\ NoDuplicate' /\ NothingLost' /\ GivenOutWasPushed'
  BY <1>3, <1>4 DEF HeldOnce, NoDuplicate, NothingLost, GivenOutWasPushed
<1>7. ThiefKnows'
  BY <1>3, <1>4 DEF ThiefKnows
<1>8. QED
  BY <1>2, <1>5, <1>6, <1>7

LEMMA TakeTopInv == Inv /\ TakeTop => Inv'
<1> SUFFICES ASSUME Inv, TakeTop PROVE Inv'
  OBVIOUS
<1> USE MaxPushAssumption DEF Inv, TakeTop, thieves
<1>1. Taking /\ ~Pushing /\ ~Pushing' /\ Limit = obot + 1 /\ Visible' = Visible
  BY DEF Taking, Pushing, Limit, Visible
<1>2. \A i : At(i)' = At(i)
  BY DEF At
<1>3. Visible \in Nat /\ Visible <= MaxPush
  BY <1>1 DEF TypeOK, Visible
<1>4. CASE top < obot
  <2> DEFINE x == At(obot)
  <2>1. x \in Item /\ x <= Visible /\ got[x] = 0 /\ got' = [got EXCEPT ![x] = 1]
    BY <1>1, <1>3, <1>4 DEF TypeOK, HeldOnce, Return, At, Item
  <2>2. Limit' = obot /\ ~Taking' /\ Limit' = Limit - 1 /\ pc' = "idle"
    BY <1>1, <1>4 DEF TypeOK, OwnerKnows, Limit, Taking
  <2>3. TypeOK'
    BY <1>4, <2>1 DEF TypeOK, OwnerPC
  <2>4. Bounds' /\ OwnerKnows'
    <3>1. Bounds'
      BY <1>1, <1>3, <1>4, <2>2, CurTyped DEF TypeOK, Bounds
    <3>2. OwnerKnows'
      BY <1>1, <2>2 DEF OwnerKnows
    <3>3. QED
      BY <3>1, <3>2
  <2>5. HeldOnce'
    BY <1>1, <1>2, <1>3, <1>4, <2>1, <2>2 DEF TypeOK, HeldOnce, Item
  <2>6. NoDuplicate' /\ GivenOutWasPushed'
    BY <1>1, <2>1 DEF TypeOK, NoDuplicate, GivenOutWasPushed
  <2>7. NothingLost'
    <3> SUFFICES ASSUME NEW k \in 1 .. Visible
                 PROVE  got'[k] > 0 \/ \E i \in top .. Limit' - 1 : At(i) = k
      BY <1>1, <1>2 DEF NothingLost
    <3>1. k \in Item
      BY <1>3 DEF Item
    <3>2. CASE k = x
      BY <2>1, <3>1, <3>2 DEF TypeOK
    <3>3. CASE k # x
      <4>1. got'[k] = got[k]
        BY <2>1, <3>1, <3>3 DEF TypeOK
      <4>2. got[k] > 0 \/ \E i \in top .. Limit - 1 : At(i) = k
        BY DEF NothingLost
      <4>3. \A i \in top .. Limit - 1 : At(i) = k => i \in top .. Limit' - 1
        BY <1>1, <1>4, <2>2, <3>3 DEF TypeOK
      <4>4. QED
        BY <4>1, <4>2, <4>3
    <3>4. QED
      BY <3>2, <3>3
  <2>8. ThiefKnows'
    BY <1>2, <1>4, <2>2 DEF TypeOK, ThiefKnows
  <2>9. QED
    BY <2>3, <2>4, <2>5, <2>6, <2>7, <2>8
<1>5. CASE top >= obot
  <2>1. Limit' = Limit /\ Taking' /\ got' = got /\ otop' = top
        /\ \/ pc' = "take_cas" /\ top = obot
           \/ pc' = "take_restore" /\ top > obot
    BY <1>1, <1>5 DEF TypeOK, Limit, Taking
  <2>2. TypeOK'
    BY <2>1 DEF TypeOK, OwnerPC
  <2>3. Bounds' /\ OwnerKnows'
    BY <1>1, <2>1 DEF TypeOK, Bounds, OwnerKnows
  <2>4. HeldOnce' /\ NoDuplicate' /\ NothingLost' /\ GivenOutWasPushed'
    BY <1>1, <1>2, <2>1 DEF HeldOnce, NoDuplicate, NothingLost, GivenOutWasPushed
  <2>5. ThiefKnows'
    BY <1>2, <2>1 DEF ThiefKnows
  <2>6. QED
    BY <2>2, <2>3, <2>4, <2>5
<1>6. QED
  BY <1>4, <1>5 DEF TypeOK

LEMMA TakeCasInv == Inv /\ TakeCas => Inv'
<1> SUFFICES ASSUME Inv, TakeCas PROVE Inv'
  OBVIOUS
<1> USE MaxPushAssumption DEF Inv, TakeCas, thieves
<1>1. /\ Taking /\ Taking' /\ ~Pushing /\ ~Pushing'
      /\ Limit = obot + 1 /\ Limit' = Limit /\ Visible' = Visible
  BY DEF Taking, Pushing, Limit, Visible
<1>2. \A i : At(i)' = At(i)
  BY DEF At
<1>3. Visible \in Nat /\ Visible <= MaxPush
  BY <1>1 DEF TypeOK, Visible
<1>4. CASE top = otop
  <2> DEFINE x == At(top)
  <2>1. top = obot /\ top' = top + 1 /\ top' = Limit'
    BY <1>1, <1>4 DEF TypeOK, OwnerKnows
  <2>2. x \in Item /\ x <= Visible /\ got[x] = 0 /\ got' = [got EXCEPT ![x] = 1]
    BY <1>1, <1>3, <1>4, <2>1 DEF TypeOK, HeldOnce, Return, At, Item
  <2>3. TypeOK'
    BY <2>1, <2>2 DEF TypeOK, OwnerPC
  <2>4. Bounds' /\ OwnerKnows'
    BY <1>1, <1>4, <2>1, CurTyped DEF TypeOK, Bounds, OwnerKnows
  <2>5. HeldOnce'
    BY <1>1, <2>1 DEF TypeOK, HeldOnce
  <2>6. NoDuplicate' /\ GivenOutWasPushed'
    BY <1>1, <2>2 DEF TypeOK, NoDuplicate, GivenOutWasPushed
  <2>7. NothingLost'
    BY <1>1, <1>2, <1>3, <2>1, <2>2 DEF TypeOK, NothingLost, Item
  <2>8. ThiefKnows'
    BY <2>1 DEF TypeOK, ThiefKnows
  <2>9. QED
    BY <2>3, <2>4, <2>5, <2>6, <2>7, <2>8
<1>5. CASE top # otop
  <2>1. top' = top /\ got' = got
    BY <1>5
  <2>2. top = obot + 1
    BY <1>1, <1>5, SMTT(60) DEF TypeOK, Bounds, OwnerKnows
  <2>3. TypeOK'
    BY <2>1 DEF TypeOK, OwnerPC
  <2>4. Bounds' /\ OwnerKnows'
    BY <1>1, <2>1, <2>2 DEF TypeOK, Bounds, OwnerKnows
  <2>5. HeldOnce' /\ NoDuplicate' /\ NothingLost' /\ GivenOutWasPushed'
    BY <1>1, <1>2, <2>1 DEF HeldOnce, NoDuplicate, NothingLost, GivenOutWasPushed
  <2>6. ThiefKnows'
    BY <1>1, <1>2, <2>1 DEF ThiefKnows
  <2>7. QED
    BY <2>3, <2>4, <2>5, <2>6
<1>6. QED
  BY <1>4, <1>5

LEMMA TakeRestoreInv == Inv /\ TakeRestore => Inv'
<1> SUFFICES ASSUME Inv, TakeRestore PROVE Inv'
  OBVIOUS
<1> USE MaxPushAssumption, WordAssumption DEF Inv, TakeRestore, thieves
<1>1. Taking /\ ~Taking' /\ ~Pushing /\ ~Pushing' /\ Visible' = Visible
  BY DEF Taking, Pushing, Visible
<1>2. bot' = obot + 1 /\ Limit' = Limit
  BY <1>1 DEF TypeOK, Bounds, Limit, Visible, Inc
<1>3. \A i : At(i)' = At(i)
  BY DEF At
<1>4. TypeOK'
  BY <1>2 DEF TypeOK, OwnerPC
<1>5. Bounds' /\ OwnerKnows'
  BY <1>1, <1>2 DEF TypeOK, Bounds, OwnerKnows
<1>6. HeldOnce' /\ NoDuplicate' /\ NothingLost' /\ GivenOutWasPushed'
  BY <1>1, <1>2, <1>3 DEF HeldOnce, NoDuplicate, NothingLost, GivenOutWasPushed
<1>7. ThiefKnows'
  BY <1>2, <1>3 DEF ThiefKnows
<1>8. QED
  BY <1>4, <1>5, <1>6, <1>7

LEMMA PushBeginInv == Inv /\ PushBegin => Inv'
<1> SUFFICES ASSUME Inv, PushBegin PROVE Inv'
  OBVIOUS
<1> USE MaxPushAssumption DEF Inv, PushBegin, thieves
<1>1. /\ ~Taking /\ ~Taking' /\ ~Pushing /\ Pushing'
      /\ Limit' = Limit /\ Limit = bot /\ Visible' = Visible /\ Visible = pushes
  BY DEF TypeOK, Taking, Pushing, Limit, Visible
<1>2. \A i : At(i)' = At(i)
  BY DEF At
<1>3. TypeOK'
  BY DEF TypeOK, OwnerPC
<1>4. Bounds'
  BY <1>1 DEF Bounds
<1>5. OwnerKnows'
  BY <1>1, CurTyped DEF TypeOK, Bounds, OwnerKnows
<1>6. HeldOnce' /\ NoDuplicate' /\ NothingLost' /\ GivenOutWasPushed'
  BY <1>1, <1>2 DEF HeldOnce, NoDuplicate, NothingLost, GivenOutWasPushed
<1>7. ThiefKnows'
  BY <1>1, <1>2 DEF ThiefKnows
<1>8. QED
  BY <1>3, <1>4, <1>5, <1>6, <1>7

LEMMA PushGrowInv == Inv /\ PushGrow => Inv'
<1> SUFFICES ASSUME Inv, PushGrow PROVE Inv'
  OBVIOUS
<1> USE MaxPushAssumption DEF Inv, PushGrow, thieves
<1> DEFINE new == Ci_WSArray_Grow(arrs[cur], otop, obot)
<1>1. /\ ~Taking /\ ~Taking' /\ Pushing /\ Pushing'
      /\ Limit' = Limit /\ Limit = bot /\ Visible' = Visible
  BY DEF Taking, Pushing, Limit, Visible
<1>2. bot = obot /\ 1 <= otop /\ otop <= top /\ obot - otop <= arrs[cur].size
  BY <1>1 DEF OwnerKnows
<1>3. /\ IsWSArray(new) /\ new.size = 2 * arrs[cur].size
      /\ \A i \in otop .. obot - 1 : Ci_WSArray_Get(new, i) = At(i)
  BY <1>2, CurTyped, Grow, SMTT(60) DEF TypeOK, At
<1>4. arrs'[cur'] = new /\ \A a \in 1 .. cur : arrs'[a] = arrs[a]
  BY DEF TypeOK
<1>5. \A i \in top .. Limit - 1 : At(i)' = At(i)
  <2>1. \A i \in top .. Limit - 1 : i \in otop .. obot - 1
    BY <1>1, <1>2 DEF TypeOK
  <2>2. \A i : At(i)' = Ci_WSArray_Get(new, i)
    BY <1>4 DEF At
  <2>3. QED
    BY <1>3, <2>1, <2>2
<1>6. TypeOK'
  <2>1. \A a \in 1 .. cur' : IsWSArray(arrs'[a])
    BY <1>3, <1>4 DEF TypeOK
  <2>2. cur' \in Nat \ {0} /\ DOMAIN arrs' = 1 .. cur' /\ 1 .. cur \subseteq 1 .. cur'
    BY DEF TypeOK
  <2>3. sarr' \in [Thieves -> 1 .. cur']
    BY <2>2 DEF TypeOK
  <2>4. QED
    BY <2>1, <2>2, <2>3 DEF TypeOK, OwnerPC
<1>7. Bounds'
  BY <1>1, <1>3, <1>4, CurTyped, SMTT(60) DEF TypeOK, Bounds
<1>8. OwnerKnows'
  BY <1>1, <1>2, <1>3, <1>4, CurTyped, SMTT(60) DEF TypeOK, OwnerKnows
<1>9. HeldOnce'
  BY <1>1, <1>5 DEF HeldOnce
<1>10. NoDuplicate' /\ NothingLost' /\ GivenOutWasPushed'
  BY <1>1, <1>5 DEF NoDuplicate, NothingLost, GivenOutWasPushed
<1>11. ThiefKnows'
  <2> SUFFICES ASSUME NEW t \in Thieves PROVE ThiefKnows!(t)'
    BY DEF ThiefKnows
  <2>1. sarr[t] \in 1 .. cur /\ arrs'[sarr[t]] = arrs[sarr[t]]
    BY <1>4 DEF TypeOK
  <2>2. top < Limit => At(top)' = At(top)
    BY <1>1, <1>5 DEF TypeOK
  <2>3. QED
    BY <1>1, <2>1, <2>2 DEF ThiefKnows
<1>12. QED
  BY <1>6, <1>7, <1>8, <1>9, <1>10, <1>11

LEMMA PushPutInv == Inv /\ PushPut => Inv'
<1> SUFFICES ASSUME Inv, PushPut PROVE Inv'
  OBVIOUS
<1> USE MaxPushAssumption DEF Inv, PushPut, thieves
<1> DEFINE new == Ci_WSArray_Put(arrs[cur], obot, pushes)
<1>1. /\ ~Taking /\ ~Taking' /\ Pushing /\ Pushing'
      /\ Limit' = Limit /\ Limit = bot /\ Visible' = Visible
  BY DEF Taking, Pushing, Limit, Visible
<1>2. /\ bot = obot /\ 1 <= otop /\ otop <= top /\ obot - otop < arrs[cur].size
      /\ pushes \in Item
  BY <1>1 DEF TypeOK, OwnerKnows, Item
<1>3. /\ IsWSArray(new) /\ new.size = arrs[cur].size
      /\ Ci_WSArray_Get(new, obot) = pushes
      /\ \A i \in top .. obot - 1 : Ci_WSArray_Get(new, i) = At(i)
  <2>1. obot \in Nat /\ IsWSArray(arrs[cur])
    BY CurTyped DEF TypeOK
  <2>2. IsWSArray(new) /\ new.size = arrs[cur].size
    BY <1>2, <2>1, PutType
  <2>3. \A i \in top .. obot - 1 : i \in Nat /\ i < obot /\ obot - i < arrs[cur].size
    BY <1>2, CurTyped DEF TypeOK
  <2>4. QED
    BY <1>2, <2>1, <2>2, <2>3, GetPut DEF At
<1>4. arrs'[cur] = new /\ \A a \in 1 .. cur : a # cur => arrs'[a] = arrs[a]
  BY CurTyped DEF TypeOK
<1>5. /\ At(obot)' = pushes
      /\ \A i \in top .. Limit - 1 : At(i)' = At(i)
  BY <1>1, <1>2, <1>3, <1>4 DEF TypeOK, At
<1>6. TypeOK'
  <2>1. \A a \in 1 .. cur : IsWSArray(arrs'[a])
    BY <1>3, <1>4 DEF TypeOK
  <2>2. QED
    BY <2>1 DEF TypeOK, OwnerPC
<1>7. Bounds'
  BY <1>1, <1>3, <1>4 DEF Bounds
<1>8. OwnerKnows'
  BY <1>1, <1>2, <1>3, <1>4, <1>5 DEF OwnerKnows
<1>9. HeldOnce'
  BY <1>1, <1>5 DEF HeldOnce
<1>10. NoDuplicate' /\ NothingLost' /\ GivenOutWasPushed'
  BY <1>1, <1>5 DEF NoDuplicate, NothingLost, GivenOutWasPushed
<1>11. ThiefKnows'
  <2> SUFFICES ASSUME NEW t \in Thieves PROVE ThiefKnows!(t)'
    BY DEF ThiefKnows
  <2>1. top < Limit => At(top)' = At(top)
    BY <1>1, <1>5 DEF TypeOK
  <2>2. sarr[t] \in 1 .. cur
    BY DEF TypeOK
  <2>3. sarr[t] # cur => arrs'[sarr[t]] = arrs[sarr[t]]
    BY <1>4, <2>2
  <2>4. QED
    BY <1>1, <2>1, <2>3 DEF ThiefKnows, At
<1>12. QED
  BY <1>6, <1>7, <1>8, <1>9, <1>10, <1>11

LEMMA PushBotInv == Inv /\ PushBot => Inv'
<1> SUFFICES ASSUME Inv, PushBot PROVE Inv'
  OBVIOUS
<1> USE MaxPushAssumption, WordAssumption DEF Inv, PushBot, thieves
<1>1. ~Taking /\ ~Taking' /\ Pushing /\ ~Pushing' /\ Limit = bot /\ Visible' = pushes
  BY DEF Taking, Pushing, Limit, Visible
<1>2. /\ pushes \in Item /\ Visible = pushes - 1 /\ bot = obot
      /\ obot - otop < arrs[cur].size /\ otop <= top /\ At(bot) = pushes
  BY <1>1, SMTT(60) DEF TypeOK, OwnerKnows, Visible, Item
<1>3. bot' = bot + 1 /\ Limit' = bot + 1
  BY <1>1, <1>2 DEF TypeOK, Bounds, Inc, Limit, Item
<1>4. \A i : At(i)' = At(i)
  BY DEF At
<1>5. TypeOK'
  BY <1>3 DEF TypeOK, OwnerPC
<1>6. Bounds'
  BY <1>1, <1>2, <1>3, CurTyped, SMTT(60) DEF TypeOK, Bounds
<1>7. OwnerKnows'
  BY <1>1 DEF OwnerKnows
<1>8. got[pushes] = 0
  BY <1>1, <1>2 DEF TypeOK, GivenOutWasPushed, Item
<1>9. HeldOnce'
  <2>1. \A i \in top .. Limit' - 1 : i = bot \/ i \in top .. Limit - 1
    BY <1>1, <1>3 DEF TypeOK
  <2>2. \A i \in top .. Limit - 1 : At(i) \in 1 .. pushes - 1 /\ got[At(i)] = 0
    BY <1>2 DEF HeldOnce
  <2>3. \A i \in top .. Limit' - 1 : At(i) \in 1 .. pushes /\ got[At(i)] = 0
    BY <1>2, <1>8, <2>1, <2>2 DEF Item
  <2>4. ASSUME NEW i \in top .. Limit' - 1, NEW j \in top .. Limit' - 1, At(i) = At(j)
        PROVE  i = j
    <3>1. CASE i = bot
      BY <1>2, <2>1, <2>2, <2>4, <3>1 DEF Item
    <3>2. CASE j = bot
      BY <1>2, <2>1, <2>2, <2>4, <3>2 DEF Item
    <3>3. CASE i \in top .. Limit - 1 /\ j \in top .. Limit - 1
      BY <2>4, <3>3 DEF HeldOnce
    <3>4. QED
      BY <2>1, <3>1, <3>2, <3>3
  <2>5. QED
    BY <1>1, <1>4, <2>3, <2>4 DEF HeldOnce
<1>10. NothingLost'
  BY <1>1, <1>2, <1>3, <1>4, SMTT(60) DEF TypeOK, Bounds, NothingLost, Item
<1>11. NoDuplicate' /\ GivenOutWasPushed'
  <2>1. NoDuplicate'
    BY DEF NoDuplicate
  <2>2. \A k \in Item : got[k] > 0 => k <= pushes - 1
    BY <1>2 DEF GivenOutWasPushed
  <2>3. \A k \in Item : got[k] > 0 => k <= pushes
    BY <1>2, <2>2 DEF Item
  <2>4. QED
    BY <1>1, <2>1, <2>3 DEF GivenOutWasPushed
<1>12. ThiefKnows'
  BY <1>1, <1>3, <1>4 DEF TypeOK, ThiefKnows
<1>13. QED
  BY <1>5, <1>6, <1>7, <1>9, <1>10, <1>11, <1>12

\* A thief's loads change only that thief's locals.
LEMMA StealLoadInv ==
  ASSUME Inv, NEW t \in Thieves,
         StealTop(t) \/ StealBot(t) \/ StealArr(t) \/ StealGet(t)
  PROVE  Inv'
<1> USE MaxPushAssumption DEF Inv, owner
<1> DEFINE Step == StealTop(t) \/ StealBot(t) \/ StealArr(t) \/ StealGet(t)
<1>1. UNCHANGED <<top, bot, cur, arrs, pushes, pc, obot, otop, got>>
  BY DEF StealTop, StealBot, StealArr, StealGet
<1>2. /\ Limit' = Limit /\ Visible' = Visible /\ Taking' = Taking
      /\ Pushing' = Pushing /\ \A i : At(i)' = At(i)
  BY <1>1 DEF Limit, Visible, Taking, Pushing, At
<1>3. cur \in 1 .. cur /\ 1 .. cur # {}
  BY CurTyped
<1>4. Ci_WSArray_Get(arrs[sarr[t]], stop[t]) \in Item \cup {NULL}
  BY GetType DEF TypeOK
<1>5. TypeOK'
  <2>1. /\ spc' \in [Thieves -> ThiefPC]
        /\ stop' \in [Thieves -> Nat]
        /\ sarr' \in [Thieves -> 1 .. cur]
        /\ sres' \in [Thieves -> Item \cup {NULL}]
    <3>1. CASE StealTop(t)
      BY <3>1 DEF TypeOK, StealTop, ThiefPC
    <3>2. CASE StealBot(t)
      BY <3>2 DEF TypeOK, StealBot, ThiefPC
    <3>3. CASE StealArr(t)
      BY <1>3, <3>3 DEF TypeOK, StealArr, ThiefPC
    <3>4. CASE StealGet(t)
      BY <1>4, <3>4 DEF TypeOK, StealGet, ThiefPC
    <3>5. QED
      BY <3>1, <3>2, <3>3, <3>4
  <2>2. QED
    BY <1>1, <2>1 DEF TypeOK
<1>6. Bounds' /\ OwnerKnows'
  BY <1>1, <1>2 DEF Bounds, OwnerKnows
<1>7. HeldOnce' /\ NoDuplicate' /\ NothingLost' /\ GivenOutWasPushed'
  BY <1>1, <1>2 DEF HeldOnce, NoDuplicate, NothingLost, GivenOutWasPushed
<1>8. ThiefKnows'
  <2> SUFFICES ASSUME NEW u \in Thieves PROVE ThiefKnows!(u)'
    BY Zenon DEF ThiefKnows
  <2>1. CASE u # t
    <3>1. /\ spc'[u] = spc[u] /\ stop'[u] = stop[u]
          /\ sarr'[u] = sarr[u] /\ sres'[u] = sres[u]
      BY <2>1, SMTT(60) DEF TypeOK, StealTop, StealBot, StealArr, StealGet
    <3>2. QED
      BY <1>1, <1>2, <3>1, Zenon DEF ThiefKnows
  <2>2. CASE u = t /\ StealTop(t)
    BY <1>1, <2>2 DEF TypeOK, StealTop
  <2>3. CASE u = t /\ StealBot(t)
    <3>1. bot \in Nat /\ obot \in Nat /\ stop[t] \in Nat /\ top \in Nat
      BY DEF TypeOK
    <3>2. Limit \in Nat /\ bot <= Limit
      BY <3>1 DEF OwnerKnows, Limit
    <3>3. spc'[t] = (IF stop[t] < bot THEN "arr" ELSE "idle") /\ stop' = stop
      BY <2>3 DEF TypeOK, StealBot
    <3>4. spc'[t] # "get" /\ spc'[t] # "cas"
      BY <3>3
    <3>5. spc'[t] = "arr" /\ stop'[t] = top => top < Limit
      BY <3>1, <3>2, <3>3
    <3>6. stop'[t] <= top
      BY <3>3, SMTT(60) DEF ThiefKnows
    <3>7. QED
      BY <1>1, <1>2, <2>3, <3>4, <3>5, <3>6, Zenon
  <2>4. CASE u = t /\ StealArr(t)
    <3>1. spc'[t] = "get" /\ sarr'[t] = cur /\ stop' = stop /\ spc[t] = "arr"
      BY <2>4 DEF TypeOK, StealArr
    <3>2. QED
      BY <1>1, <1>2, <2>4, <3>1, Zenon DEF ThiefKnows, At
  <2>5. CASE u = t /\ StealGet(t)
    <3>1. /\ spc'[t] = "cas" /\ stop' = stop /\ spc[t] = "get"
          /\ sres'[t] = Ci_WSArray_Get(arrs[sarr[t]], stop[t])
      BY <2>5 DEF TypeOK, StealGet
    <3>2. QED
      BY <1>1, <1>2, <2>5, <3>1, Zenon DEF ThiefKnows
  <2>6. QED
    BY <2>1, <2>2, <2>3, <2>4, <2>5, SMTT(60)
<1>9. QED
  BY <1>5, <1>6, <1>7, <1>8

LEMMA StealCasInv ==
  ASSUME Inv, NEW t \in Thieves, StealCas(t)
  PROVE  Inv'
<1> USE MaxPushAssumption DEF Inv, StealCas, owner
<1>1. /\ Limit' = Limit /\ Visible' = Visible /\ Taking' = Taking
      /\ Pushing' = Pushing /\ \A i : At(i)' = At(i)
  BY DEF Limit, Visible, Taking, Pushing, At
<1>2. spc' \in [Thieves -> ThiefPC] /\ spc'[t] = "idle"
      /\ \A u \in Thieves \ {t} : spc'[u] = spc[u]
  BY DEF TypeOK, ThiefPC
<1>3. Visible \in Int /\ Visible <= MaxPush /\ Limit \in Nat
  BY DEF TypeOK, Visible, Limit
<1>4. CASE top = stop[t]
  <2> DEFINE x == At(top)
  <2>1. top < Limit /\ sres[t] = x /\ top' = top + 1
    BY <1>4 DEF TypeOK, ThiefKnows
  <2>2. x \in Item /\ x <= Visible /\ got[x] = 0
    BY <1>3, <2>1, SMTT(60) DEF TypeOK, HeldOnce, Item
  <2>3. got' = [got EXCEPT ![x] = 1]
    BY <1>4, <2>1, <2>2 DEF TypeOK, Return, Item
  <2>4. TypeOK'
    BY <1>2, <2>1, <2>2, <2>3, SMTT(60) DEF TypeOK
  <2>5. Bounds'
    BY <1>1, <1>3, <2>1, CurTyped, SMTT(60) DEF TypeOK, Bounds
  <2>6. OwnerKnows'
    <3>1. pc # "take_restore"
      BY <1>3, <2>1, SMTT(60) DEF TypeOK, OwnerKnows, Limit, Taking
    <3>2. QED
      BY <1>1, <2>1, <3>1, SMTT(60) DEF TypeOK, OwnerKnows
  <2>7. HeldOnce'
    <3>1. \A i \in top' .. Limit' - 1 : i \in top .. Limit - 1 /\ At(i) # x
      BY <1>1, <1>3, <2>1 DEF TypeOK, HeldOnce
    <3>2. QED
      BY <1>1, <1>3, <2>2, <2>3, <3>1, SMTT(60) DEF TypeOK, HeldOnce, Item
  <2>8. NoDuplicate' /\ GivenOutWasPushed'
    BY <1>1, <2>2, <2>3 DEF TypeOK, NoDuplicate, GivenOutWasPushed
  <2>9. NothingLost'
    <3> SUFFICES ASSUME NEW k \in 1 .. Visible
                 PROVE  got'[k] > 0 \/ \E i \in top' .. Limit - 1 : At(i) = k
      BY <1>1 DEF NothingLost
    <3>1. k \in Item
      BY <1>3 DEF Item
    <3>2. CASE k = x
      BY <2>3, <3>1, <3>2 DEF TypeOK
    <3>3. CASE k # x
      <4>1. got'[k] = got[k]
        BY <2>3, <3>1, <3>3 DEF TypeOK
      <4>2. got[k] > 0 \/ \E i \in top .. Limit - 1 : At(i) = k
        BY SMTT(60) DEF NothingLost
      <4>3. \A i \in top .. Limit - 1 : At(i) = k => i \in top' .. Limit - 1
        BY <1>3, <2>1, <3>3 DEF TypeOK
      <4>4. QED
        BY <4>1, <4>2, <4>3
    <3>4. QED
      BY <3>2, <3>3
  <2>10. ThiefKnows'
    BY <1>1, <1>2, <2>1, SMTT(60) DEF TypeOK, ThiefKnows
  <2>11. QED
    BY <2>4, <2>5, <2>6, <2>7, <2>8, <2>9, <2>10
<1>5. CASE top # stop[t]
  <2>1. top' = top /\ got' = got
    BY <1>5, SMTT(60)
  <2>2. TypeOK'
    BY <1>2, <2>1 DEF TypeOK
  <2>3. Bounds' /\ OwnerKnows'
    BY <1>1, <2>1 DEF Bounds, OwnerKnows
  <2>4. HeldOnce' /\ NoDuplicate' /\ NothingLost' /\ GivenOutWasPushed'
    BY <1>1, <2>1 DEF HeldOnce, NoDuplicate, NothingLost, GivenOutWasPushed
  <2>5. ThiefKnows'
    BY <1>1, <1>2, <2>1, SMTT(60) DEF ThiefKnows
  <2>6. QED
    BY <2>2, <2>3, <2>4, <2>5, Zenon
<1>6. QED
  BY <1>4, <1>5, Zenon

LEMMA StutterInv == Inv /\ UNCHANGED vars => Inv'
<1> SUFFICES ASSUME Inv, UNCHANGED vars PROVE Inv'
  OBVIOUS
<1> USE DEF vars, Inv
<1>1. /\ Limit' = Limit /\ Visible' = Visible /\ Taking' = Taking
      /\ Pushing' = Pushing /\ \A i : At(i)' = At(i)
  BY DEF Limit, Visible, Taking, Pushing, At
<1>2. TypeOK'
  BY DEF TypeOK
<1>3. Bounds' /\ OwnerKnows'
  BY <1>1 DEF Bounds, OwnerKnows
<1>4. HeldOnce' /\ NoDuplicate' /\ NothingLost' /\ GivenOutWasPushed' /\ ThiefKnows'
  BY <1>1, SMTT(60) DEF HeldOnce, NoDuplicate, NothingLost, GivenOutWasPushed, ThiefKnows
<1>5. QED
  BY <1>2, <1>3, <1>4

-----------------------------------------------------------------------------
(* The theorems.                                                            *)

\* The invariant of the deque: indices, arrays and every thread's locals
\* agree in every reachable state of Take, Push and Steal.
THEOREM InvHolds == Spec => []Inv
<1>1. Inv /\ [Next]_vars => Inv'
  <2> SUFFICES ASSUME Inv, [Next]_vars PROVE Inv'
    OBVIOUS
  <2>1. CASE OwnerStep
    BY <2>1, TakeClaimInv, TakeTopInv, TakeCasInv, TakeRestoreInv,
       PushBeginInv, PushGrowInv, PushPutInv, PushBotInv DEF OwnerStep
  <2>2. ASSUME NEW t \in Thieves, ThiefStep(t) PROVE Inv'
    BY <2>2, StealLoadInv, StealCasInv DEF ThiefStep
  <2>3. CASE UNCHANGED vars
    BY <2>3, StutterInv
  <2>4. QED
    BY <2>1, <2>2, <2>3 DEF Next
<1>2. QED
  BY <1>1, InitInv, PTL DEF Spec

\* Every variable keeps its type: no index wraps, and no thread reads a slot
\* outside an array.
THEOREM TypeCorrect == Spec => []TypeOK
<1>1. Inv => TypeOK
  BY DEF Inv
<1>2. QED
  BY <1>1, InvHolds, PTL

\* Take and Steal never return the same push twice.
THEOREM NeverDuplicates == Spec => []NoDuplicate
<1>1. Inv => NoDuplicate
  BY DEF Inv
<1>2. QED
  BY <1>1, InvHolds, PTL

\* What was pushed has been returned or is still in the deque.
THEOREM NeverLoses == Spec => []NothingLost
<1>1. Inv => NothingLost
  BY DEF Inv
<1>2. QED
  BY <1>1, InvHolds, PTL

\* top never moves back and never skips an element.
THEOREM TopOnlyAdvances == Spec => TopAdvances
<1>1. Inv /\ [Next]_vars => [top' \in {top, top + 1}]_vars
  BY SMTT(60) DEF Next, OwnerStep, ThiefStep, TakeClaim, TakeTop, TakeCas, TakeRestore,
         PushBegin, PushGrow, PushPut, PushBot, StealTop, StealBot, StealArr,
         StealGet, StealCas, vars
<1>2. QED
  BY <1>1, InvHolds, PTL DEF Spec, TopAdvances

-----------------------------------------------------------------------------
(* The sequence the deque holds.                                            *)

LEMMA HeldIsSeq ==
  ASSUME Inv
  PROVE  /\ top \in Nat /\ Limit \in Nat /\ top <= Limit
         /\ Held \in Seq(Item) /\ Len(Held) = Limit - top
         /\ \A i \in 1 .. Limit - top : Held[i] = At(top + i - 1)
         /\ \A i \in top .. Limit - 1 : At(i) \in Item
<1>1. top \in Nat /\ Limit \in Nat /\ top <= Limit
  BY DEF Inv, TypeOK, Bounds, Limit
<1>2. \A i \in top .. Limit - 1 : At(i) \in Item
  <2>1. 1 .. Visible \subseteq Item
    BY MaxPushAssumption DEF Inv, TypeOK, Visible, Item
  <2>2. QED
    BY <2>1 DEF Inv, HeldOnce
<1>3. Limit - top \in Nat
  BY <1>1
<1>4. \A i \in 1 .. Limit - top : At(top + i - 1) \in Item
  <2>1. \A i \in 1 .. Limit - top : top + i - 1 \in top .. Limit - 1
    BY <1>1
  <2>2. QED
    BY <1>2, <2>1
<1>5. Held \in Seq(Item) /\ Len(Held) = Limit - top
  BY <1>3, <1>4, IsASeq DEF Held
<1>6. QED
  BY <1>1, <1>2, <1>5 DEF Held

\* A step that keeps the two ends and the elements between them is invisible.
LEMMA HeldSame ==
  ASSUME Limit' = Limit, top' = top, top \in Nat, Limit \in Nat,
         \A i \in top .. Limit - 1 : At(i)' = At(i)
  PROVE  Held' = Held
<1>1. \A i \in 1 .. Limit - top : top + i - 1 \in top .. Limit - 1
  OBVIOUS
<1>2. \A i \in 1 .. Limit - top : At(top + i - 1)' = At(top + i - 1)
  OBVIOUS
<1>3. QED
  BY <1>2 DEF Held

\* Removing the oldest element.
LEMMA HeldTail ==
  ASSUME Inv, top < Limit, top' = top + 1, Limit' = Limit,
         \A i : At(i)' = At(i)
  PROVE  Held # <<>> /\ Held' = Tail(Held) /\ Head(Held) = At(top)
<1> DEFINE n == Limit - top - 1
           rest == [i \in 1 .. n |-> At(top + 1 + i - 1)]
<1>1. n \in Nat /\ Len(Held) = n + 1 /\ Held \in Seq(Item) /\ Held # <<>>
  BY HeldIsSeq
<1>2. Held' = rest
  BY HeldIsSeq DEF Held
<1>3. Head(Held) = At(top)
  BY <1>1, HeldIsSeq
<1>4. /\ Tail(Held) \in Seq(Item) /\ Len(Tail(Held)) = n
      /\ \A i \in 1 .. n : Tail(Held)[i] = Held[i + 1]
  BY <1>1, HeadTailProperties
<1>5. \A i \in 1 .. n : Tail(Held)[i] = rest[i]
  BY <1>1, <1>4, HeldIsSeq, SMTT(60)
<1>6. rest \in Seq(Item) /\ Len(rest) = n
  <2>1. \A i \in 1 .. n : Tail(Held)[i] \in Item
    BY <1>4
  <2>2. \A i \in 1 .. n : rest[i] \in Item
    BY <1>5, <2>1, Zenon
  <2>3. QED
    BY <1>1, <2>2
<1>7. QED
  <2> HIDE DEF rest
  <2>1. rest = Tail(Held)
    BY <1>1, <1>4, <1>5, <1>6, SeqEqual
  <2>2. QED
    BY <1>1, <1>2, <1>3, <2>1

\* Removing the newest element.
LEMMA HeldFront ==
  ASSUME Inv, top < Limit, top' = top, Limit' = Limit - 1,
         \A i : At(i)' = At(i)
  PROVE  /\ Held # <<>> /\ Held' = SubSeq(Held, 1, Len(Held) - 1)
         /\ Held[Len(Held)] = At(Limit - 1)
<1> DEFINE n == Limit - 1 - top
           rest == [i \in 1 .. n |-> At(top + i - 1)]
<1>1. n \in Nat /\ Len(Held) = n + 1 /\ Held \in Seq(Item) /\ Held # <<>>
  BY HeldIsSeq
<1>2. Held' = rest
  BY HeldIsSeq DEF Held
<1>3. Held[Len(Held)] = At(Limit - 1)
  BY <1>1, HeldIsSeq, SMTT(60)
<1>4. \A i \in 1 .. n : Held[i] = rest[i] /\ rest[i] \in Item
  BY <1>1, HeldIsSeq, SMTT(60)
<1>5. /\ SubSeq(Held, 1, n) \in Seq(Item) /\ Len(SubSeq(Held, 1, n)) = n
      /\ \A i \in 1 .. n : SubSeq(Held, 1, n)[i] = Held[i]
  BY <1>1, SubSeqProperties
<1>6. rest \in Seq(Item) /\ Len(rest) = n
  BY <1>1, <1>4
<1>7. QED
  <2> HIDE DEF rest
  <2>1. rest = SubSeq(Held, 1, n)
    BY <1>1, <1>4, <1>5, <1>6, SeqEqual
  <2>2. QED
    BY <1>1, <1>2, <1>3, <2>1

\* Adding an element.
LEMMA HeldAppend ==
  ASSUME Inv, top' = top, Limit' = Limit + 1, At(Limit) \in Item,
         \A i : At(i)' = At(i)
  PROVE  Held' = Append(Held, At(Limit))
<1> DEFINE n == Limit - top
           all == [i \in 1 .. n + 1 |-> At(top + i - 1)]
<1>1. n \in Nat /\ Len(Held) = n /\ Held \in Seq(Item)
  BY HeldIsSeq
<1>2. Held' = all
  BY HeldIsSeq DEF Held
<1>3. /\ \A i \in 1 .. n : all[i] = Held[i] /\ all[i] \in Item
      /\ all[n + 1] = At(Limit)
  BY <1>1, HeldIsSeq, SMTT(60)
<1>4. /\ Append(Held, At(Limit)) \in Seq(Item)
      /\ Len(Append(Held, At(Limit))) = n + 1
      /\ \A i \in 1 .. n : Append(Held, At(Limit))[i] = Held[i]
      /\ Append(Held, At(Limit))[n + 1] = At(Limit)
  BY <1>1, AppendProperties
<1>5. all \in Seq(Item) /\ Len(all) = n + 1
  <2>1. \A i \in 1 .. n + 1 : all[i] \in Item
    <3> HIDE DEF all
    <3> QED
      BY <1>1, <1>3
  <2>2. QED
    BY <1>1, <2>1
<1>6. QED
  <2> HIDE DEF all
  <2>1. \A i \in 1 .. n + 1 : all[i] = Append(Held, At(Limit))[i]
    BY <1>1, <1>3, <1>4
  <2>2. QED
    BY <1>1, <1>2, <1>4, <1>5, <2>1, SeqEqual

-----------------------------------------------------------------------------
(* The steps.                                                               *)

\* What an operation returns is counted, unless it is NULL.
LEMMA ReturnHandsOut ==
  ASSUME NEW x \in Item, Return(x)
  PROVE  Abstract!HandOut(x)
<1>1. x # NULL
  BY MaxPushAssumption DEF Item, NULL
<1>2. QED
  BY <1>1 DEF Return, Abstract!HandOut

\* Growing copies the elements.
LEMMA GrowKeeps ==
  ASSUME Inv, PushGrow
  PROVE  \A i \in top .. Limit - 1 : At(i)' = At(i)
<1> DEFINE new == Ci_WSArray_Grow(arrs[cur], otop, obot)
<1>1. /\ Limit = bot /\ bot = obot /\ 1 <= otop /\ otop <= top
      /\ obot - otop <= arrs[cur].size
  BY SMTT(60) DEF Inv, PushGrow, OwnerKnows, Limit, Taking, Pushing
<1>2. \A i \in otop .. obot - 1 : Ci_WSArray_Get(new, i) = At(i)
  BY <1>1, CurTyped, Grow, SMTT(60) DEF Inv, TypeOK, At
<1>3. arrs'[cur'] = new
  BY SMTT(60) DEF Inv, TypeOK, PushGrow
<1>4. \A i : At(i)' = Ci_WSArray_Get(new, i)
  BY <1>3 DEF At
<1>5. \A i \in top .. Limit - 1 : i \in otop .. obot - 1
  BY <1>1 DEF Inv, TypeOK
<1>6. QED
  BY <1>2, <1>4, <1>5

\* The slot of a new element is not one of theirs.
LEMMA PutKeeps ==
  ASSUME Inv, PushPut
  PROVE  \A i \in top .. Limit - 1 : At(i)' = At(i)
<1> DEFINE new == Ci_WSArray_Put(arrs[cur], obot, pushes)
<1>1. /\ Limit = bot /\ bot = obot /\ 1 <= otop /\ otop <= top
      /\ obot - otop < arrs[cur].size /\ pushes \in Item
  BY SMTT(60) DEF Inv, TypeOK, PushPut, OwnerKnows, Limit, Taking, Pushing, Item
<1>2. obot \in Nat /\ top \in Nat /\ otop \in Nat /\ IsWSArray(arrs[cur]) /\ arrs[cur].size \in Nat
  BY CurTyped, SMTT(60) DEF Inv, TypeOK
<1>3. \A i \in top .. Limit - 1 : i \in Nat /\ i < obot /\ obot - i < arrs[cur].size
  BY <1>1, <1>2
<1>4. \A i \in top .. Limit - 1 : Ci_WSArray_Get(new, i) = At(i)
  BY <1>1, <1>2, <1>3, GetPut, SMTT(60) DEF At
<1>5. arrs'[cur'] = new
  BY CurTyped DEF Inv, TypeOK, PushPut
<1>6. QED
  BY <1>4, <1>5 DEF At

\* Every step of the owner is a step of the abstract deque, or invisible.
LEMMA OwnerRefines ==
  ASSUME Inv, OwnerStep
  PROVE  Abstract!Next \/ UNCHANGED <<Held, got>>
<1>1. CASE TakeClaim
  <2>1. bot \in Nat /\ 1 <= bot /\ Dec(bot) = bot - 1
    BY <1>1, SMTT(60) DEF TakeClaim, Inv, TypeOK, Bounds, Limit, Taking, Dec
  <2>2. Limit' = Limit /\ top' = top /\ got' = got /\ \A i : At(i)' = At(i)
    BY <1>1, <2>1 DEF TakeClaim, Limit, Taking, At
  <2>3. QED
    BY <2>2, HeldIsSeq, HeldSame
<1>2. CASE TakeTop
  <2>1. Limit = obot + 1 /\ top' = top /\ bot = obot /\ \A i : At(i)' = At(i)
    BY <1>2, SMTT(60) DEF TakeTop, Inv, OwnerKnows, Limit, Taking, At
  <2>2. CASE top < obot /\ Return(At(obot)) /\ pc' = "idle"
    <3>1. Limit' = Limit - 1 /\ top < Limit
      BY <1>2, <2>1, <2>2 DEF TakeTop, Inv, TypeOK, Limit, Taking
    <3>2. obot = Limit - 1 /\ At(obot) \in Item
      BY <2>1, <2>2, HeldIsSeq DEF Inv, TypeOK
    <3>3. Abstract!Take
      BY <2>1, <2>2, <3>1, <3>2, HeldFront, ReturnHandsOut DEF Abstract!Take
    <3>4. QED
      BY <3>3 DEF Abstract!Next
  <2>3. CASE pc' \in {"take_cas", "take_restore"} /\ got' = got
    <3>1. Limit' = Limit
      BY <1>2, <2>1, <2>3 DEF TakeTop, Limit, Taking
    <3>2. QED
      BY <2>1, <2>3, <3>1, HeldIsSeq, HeldSame
  <2>4. QED
    BY <1>2, <2>2, <2>3 DEF TakeTop, At
<1>3. CASE TakeCas
  <2>1. /\ Limit = obot + 1 /\ Limit' = Limit /\ otop = obot
        /\ \A i : At(i)' = At(i)
    BY <1>3 DEF TakeCas, Inv, OwnerKnows, Limit, Taking, At
  <2>2. CASE top = otop
    <3>1. top' = top + 1 /\ top < Limit /\ Return(At(top))
      BY <1>3, <2>1, <2>2 DEF TakeCas, Inv, TypeOK, At
    <3>2. At(top) \in Item
      BY <3>1, HeldIsSeq
    <3>3. Abstract!Steal
      BY <2>1, <3>1, <3>2, HeldTail, ReturnHandsOut DEF Abstract!Steal
    <3>4. QED
      BY <3>3 DEF Abstract!Next
  <2>3. CASE top # otop
    BY <1>3, <2>1, <2>3, HeldIsSeq, HeldSame DEF TakeCas
  <2>4. QED
    BY <2>2, <2>3
<1>4. CASE TakeRestore
  <2>1. Limit' = Limit /\ top' = top /\ got' = got /\ \A i : At(i)' = At(i)
    BY <1>4, MaxPushAssumption, WordAssumption, SMTT(60)
       DEF TakeRestore, Inv, TypeOK, Bounds, Limit, Visible, Taking, Pushing, Inc, At
  <2>2. QED
    BY <2>1, HeldIsSeq, HeldSame
<1>5. CASE PushBegin
  <2>1. Limit' = Limit /\ top' = top /\ got' = got /\ \A i : At(i)' = At(i)
    BY <1>5 DEF PushBegin, Limit, Taking, At
  <2>2. QED
    BY <2>1, HeldIsSeq, HeldSame
<1>6. CASE PushGrow
  <2>1. Limit' = Limit /\ top' = top /\ got' = got
    BY <1>6 DEF PushGrow, Limit, Taking
  <2>2. QED
    BY <1>6, <2>1, GrowKeeps, HeldIsSeq, HeldSame
<1>7. CASE PushPut
  <2>1. Limit' = Limit /\ top' = top /\ got' = got
    BY <1>7 DEF PushPut, Limit, Taking
  <2>2. QED
    BY <1>7, <2>1, PutKeeps, HeldIsSeq, HeldSame
<1>8. CASE PushBot
  <2>1. /\ Limit = obot /\ At(obot) = pushes /\ pushes \in Item
        /\ top' = top /\ got' = got /\ \A i : At(i)' = At(i)
    BY <1>8, SMTT(60) DEF PushBot, Inv, TypeOK, OwnerKnows, Limit, Taking, Pushing, Item, At
  <2>2. Limit' = Limit + 1
    BY <1>8, <2>1, MaxPushAssumption, WordAssumption, SMTT(60)
       DEF PushBot, Inv, TypeOK, Bounds, Limit, Visible, Taking, Pushing, Inc
  <2>3. Held' = Append(Held, pushes)
    BY <2>1, <2>2, HeldAppend
  <2>4. Abstract!Push(pushes)
    BY <2>1, <2>3 DEF Abstract!Push
  <2>5. QED
    BY <2>1, <2>4 DEF Abstract!Next
<1>9. QED
  BY <1>1, <1>2, <1>3, <1>4, <1>5, <1>6, <1>7, <1>8 DEF OwnerStep

\* Of a thief's steps only a successful compare-and-swap is visible.
LEMMA ThiefRefines ==
  ASSUME Inv, NEW t \in Thieves, ThiefStep(t)
  PROVE  Abstract!Next \/ UNCHANGED <<Held, got>>
<1>1. Limit' = Limit /\ \A i : At(i)' = At(i)
  BY SMTT(60) DEF ThiefStep, StealTop, StealBot, StealArr, StealGet, StealCas, owner,
         Limit, Taking, At
<1>2. CASE StealCas(t) /\ top = stop[t]
  <2>1. sres[t] = At(top) /\ top < Limit
    BY <1>2, Zenon DEF StealCas, Inv, ThiefKnows
  <2>2. top' = top + 1 /\ Return(At(top)) /\ At(top) \in Item
    <3>1. top' = top + 1 /\ Return(sres[t])
      BY <1>2, Zenon DEF StealCas
    <3>2. top \in Nat /\ Limit \in Nat
      BY HeldIsSeq, Zenon
    <3>3. top \in top .. Limit - 1
      BY <2>1, <3>2
    <3>4. QED
      BY <2>1, <3>1, <3>3, HeldIsSeq, Zenon
  <2>3. Abstract!Steal
    BY <1>1, <2>1, <2>2, HeldTail, ReturnHandsOut DEF Abstract!Steal
  <2>4. QED
    BY <2>3 DEF Abstract!Next
<1>3. CASE top' = top /\ got' = got
  BY <1>1, <1>3, HeldIsSeq, HeldSame
<1>4. QED
  BY <1>2, <1>3, SMTT(60) DEF ThiefStep, StealTop, StealBot, StealArr, StealGet, StealCas

\* Push, Take and Steal of ws_deque.h are atomic operations on a sequence:
\* every behaviour of the deque is one of the abstract deque.
THEOREM DequeRefinement == Spec => ImplementsDeque
<1>1. Init => Abstract!Init
  <2> SUFFICES ASSUME Init PROVE Abstract!Init
    OBVIOUS
  <2>1. Limit = 1 /\ top = 1
    BY DEF Init, Ci_WSDeque_Init, Limit, Taking
  <2>2. Held = <<>>
    BY <2>1 DEF Held
  <2>3. QED
    BY <2>2 DEF Init, Abstract!Init
<1>2. Inv /\ [Next]_vars => [Abstract!Next]_<<Held, got>>
  <2> SUFFICES ASSUME Inv, [Next]_vars
               PROVE  Abstract!Next \/ UNCHANGED <<Held, got>>
    OBVIOUS
  <2>1. CASE Next
    BY <2>1, OwnerRefines, ThiefRefines DEF Next
  <2>2. CASE UNCHANGED vars
    BY <2>2 DEF vars, Held, Limit, Taking, At
  <2>3. QED
    BY <2>1, <2>2
<1>3. QED
  BY <1>1, <1>2, InvHolds, PTL DEF Spec, ImplementsDeque, Abstract!Spec
==============================================================================
