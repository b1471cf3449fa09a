------------------------------- MODULE WSDeque -------------------------------
(***************************************************************************)
(* The Chase-Lev work-stealing deque of cinderx/ParallelGC/ws_deque.h.     *)
(*                                                                         *)
(* One owner pushes and takes at the bottom, any number of thieves steal   *)
(* at the top.  Each action is one access to a location that another       *)
(* thread can see (top, bot, arr, a slot); accesses to data only the owner *)
(* writes are folded into the owner's next visible access.  Accesses       *)
(* interleave: what a weaker memory order adds is in WSDequeWeak.          *)
(*                                                                         *)
(* The payload is the push number: the k-th push stores k, so that an      *)
(* element returned twice, or never, can be told apart.                    *)
(***************************************************************************)
EXTENDS Integers, FiniteSets

CONSTANTS
  Thieves,    \* the threads that call Ci_WSDeque_Steal
  InitSize,   \* kCiParGCInitialArrSize
  Word,       \* SIZE_MAX + 1: size_t arithmetic wraps here
  MaxPush     \* bound: number of calls of Ci_WSDeque_Push

ASSUME InitSizeAssumption == InitSize \in Nat \ {0}
ASSUME MaxPushAssumption == MaxPush \in Nat
\* An index advances by at most one per push, so it never reaches SIZE_MAX.
ASSUME WordAssumption == Word \in Nat /\ Word > MaxPush + 2

NULL == 0
Item == 1 .. MaxPush

VARIABLES
  top,       \* deque->top
  bot,       \* deque->bot
  cur,       \* deque->arr, as the position of an array in arrs
  arrs,      \* every Ci_WSArray allocated so far: [size, buf]
  pushes,    \* number of pushes begun (ghost: names the next payload)
  pc,        \* the owner's position in Take or Push
  obot,      \* the owner's local bot
  otop,      \* the owner's local top
  spc,       \* each thief's position in Steal
  stop,      \* each thief's local top
  sarr,      \* each thief's local arr
  sres,      \* each thief's local res
  got        \* ghost: payload -> how often it was returned by Take or Steal

vars == <<top, bot, cur, arrs, pushes, pc, obot, otop,
          spc, stop, sarr, sres, got>>
owner == <<pushes, pc, obot, otop>>
thieves == <<spc, stop, sarr, sres>>

OwnerPC == {"idle", "take_top", "take_cas", "take_restore",
            "push_grow", "push_put", "push_bot"}
ThiefPC == {"idle", "bot", "arr", "get", "cas"}

\* size_t arithmetic: zero minus one is SIZE_MAX.
Dec(n) == IF n = 0 THEN Word - 1 ELSE n - 1
Inc(n) == IF n = Word - 1 THEN 0 ELSE n + 1

\* idx & (arr->size - 1), the size being a power of two
Slot(idx, size) == idx % size

Ci_WSArray_New(size) == [size |-> size, buf |-> [i \in 0 .. size - 1 |-> NULL]]

Ci_WSArray_Get(a, idx) == a.buf[Slot(idx, a.size)]

Ci_WSArray_Put(a, idx, obj) ==
  [a EXCEPT !.buf = [@ EXCEPT ![Slot(idx, a.size)] = obj]]

\* Double the array; the elements top .. bot - 1 keep their index.
Ci_WSArray_Grow(a, t, b) ==
  [size |-> 2 * a.size,
   buf  |-> [i \in 0 .. 2 * a.size - 1 |->
               IF \E k \in t .. b - 1 : Slot(k, 2 * a.size) = i
                 THEN Ci_WSArray_Get(a, CHOOSE k \in t .. b - 1 :
                                           Slot(k, 2 * a.size) = i)
                 ELSE NULL]]

Return(obj) == got' = IF obj = NULL THEN got ELSE [got EXCEPT ![obj] = @ + 1]

\* Mutant of Ci_WSDeque_Init: the counters start at 0, which the comment there
\* warns about.
Ci_WSDeque_InitZero ==
  /\ top = 0 /\ bot = 0
  /\ cur = 1
  /\ arrs = [i \in {1} |-> Ci_WSArray_New(InitSize)]

Ci_WSDeque_Init ==
  /\ top = 1 /\ bot = 1
  /\ cur = 1
  /\ arrs = [i \in {1} |-> Ci_WSArray_New(InitSize)]

Init ==
  /\ Ci_WSDeque_Init
  /\ pushes = 0
  /\ pc = "idle"
  /\ obot = 1 /\ otop = 1
  /\ spc = [t \in Thieves |-> "idle"]
  /\ stop = [t \in Thieves |-> 1]
  /\ sarr = [t \in Thieves |-> 1]
  /\ sres = [t \in Thieves |-> NULL]
  /\ got = [i \in Item |-> 0]

-----------------------------------------------------------------------------
(* Ci_WSDeque_Take, by the owner.                                           *)

\* Load bot and arr (only the owner writes them), store bot - 1.
TakeClaim ==
  /\ pc = "idle"
  /\ bot' = Dec(bot)
  /\ obot' = Dec(bot)
  /\ pc' = "take_top"
  /\ UNCHANGED <<top, cur, arrs, pushes, otop, thieves, got>>

\* After the fence: load top and decide.
TakeTop ==
  /\ pc = "take_top"
  /\ otop' = top
  /\ \/ /\ top < obot
        /\ Return(Ci_WSArray_Get(arrs[cur], obot))
        /\ pc' = "idle"
     \/ /\ top = obot
        /\ pc' = "take_cas"
        /\ UNCHANGED got
     \/ /\ top > obot
        /\ pc' = "take_restore"
        /\ UNCHANGED got
  /\ UNCHANGED <<top, bot, cur, arrs, pushes, obot, thieves>>

\* One element left: race the thieves for it.
TakeCas ==
  /\ pc = "take_cas"
  /\ IF top = otop
       THEN /\ top' = top + 1
            /\ Return(Ci_WSArray_Get(arrs[cur], obot))
       ELSE UNCHANGED <<top, got>>
  /\ pc' = "take_restore"
  /\ UNCHANGED <<bot, cur, arrs, pushes, obot, otop, thieves>>

TakeRestore ==
  /\ pc = "take_restore"
  /\ bot' = Inc(obot)
  /\ pc' = "idle"
  /\ UNCHANGED <<top, cur, arrs, pushes, obot, otop, thieves, got>>

-----------------------------------------------------------------------------
(* Ci_WSDeque_Push, by the owner.                                           *)

\* Mutant of PushBegin: off by one in the test for a full array.
PushBeginLate ==
  /\ pc = "idle"
  /\ pushes < MaxPush
  /\ pushes' = pushes + 1
  /\ obot' = bot /\ otop' = top
  /\ pc' = IF bot - top > arrs[cur].size THEN "push_grow" ELSE "push_put"
  /\ UNCHANGED <<top, bot, cur, arrs, thieves, got>>

\* Load bot, top and arr; is the array full?
PushBegin ==
  /\ pc = "idle"
  /\ pushes < MaxPush
  /\ pushes' = pushes + 1
  /\ obot' = bot /\ otop' = top
  /\ pc' = IF bot - top > arrs[cur].size - 1 THEN "push_grow" ELSE "push_put"
  /\ UNCHANGED <<top, bot, cur, arrs, thieves, got>>

\* Fill a bigger array nobody else can see yet, then store arr.
PushGrow ==
  /\ pc = "push_grow"
  /\ cur' = cur + 1
  /\ arrs' = [i \in 1 .. cur + 1 |->
                IF i = cur + 1 THEN Ci_WSArray_Grow(arrs[cur], otop, obot)
                               ELSE arrs[i]]
  /\ pc' = "push_put"
  /\ UNCHANGED <<top, bot, pushes, obot, otop, thieves, got>>

PushPut ==
  /\ pc = "push_put"
  /\ arrs' = [arrs EXCEPT ![cur] = Ci_WSArray_Put(@, obot, pushes)]
  /\ pc' = "push_bot"
  /\ UNCHANGED <<top, bot, cur, pushes, obot, otop, thieves, got>>

PushBot ==
  /\ pc = "push_bot"
  /\ bot' = Inc(obot)
  /\ pc' = "idle"
  /\ UNCHANGED <<top, cur, arrs, pushes, obot, otop, thieves, got>>

-----------------------------------------------------------------------------
(* Ci_WSDeque_Steal, by thief t.                                            *)

StealTop(t) ==
  /\ spc[t] = "idle"
  /\ stop' = [stop EXCEPT ![t] = top]
  /\ spc' = [spc EXCEPT ![t] = "bot"]
  /\ UNCHANGED <<top, bot, cur, arrs, owner, sarr, sres, got>>

\* An empty deque returns NULL.
StealBot(t) ==
  /\ spc[t] = "bot"
  /\ spc' = [spc EXCEPT ![t] = IF stop[t] < bot THEN "arr" ELSE "idle"]
  /\ UNCHANGED <<top, bot, cur, arrs, owner, stop, sarr, sres, got>>

StealArr(t) ==
  /\ spc[t] = "arr"
  /\ sarr' = [sarr EXCEPT ![t] = cur]
  /\ spc' = [spc EXCEPT ![t] = "get"]
  /\ UNCHANGED <<top, bot, cur, arrs, owner, stop, sres, got>>

StealGet(t) ==
  /\ spc[t] = "get"
  /\ sres' = [sres EXCEPT ![t] = Ci_WSArray_Get(arrs[sarr[t]], stop[t])]
  /\ spc' = [spc EXCEPT ![t] = "cas"]
  /\ UNCHANGED <<top, bot, cur, arrs, owner, stop, sarr, got>>

\* Mutant of StealCas: a thief that lost the race stores its top anyway.
StealCasStore(t) ==
  /\ spc[t] = "cas"
  /\ top' = stop[t] + 1
  /\ Return(sres[t])
  /\ spc' = [spc EXCEPT ![t] = "idle"]
  /\ UNCHANGED <<bot, cur, arrs, owner, stop, sarr, sres>>

\* Win: return the element.  Lose: start over.
StealCas(t) ==
  /\ spc[t] = "cas"
  /\ IF top = stop[t]
       THEN /\ top' = top + 1
            /\ Return(sres[t])
       ELSE UNCHANGED <<top, got>>
  /\ spc' = [spc EXCEPT ![t] = "idle"]
  /\ UNCHANGED <<bot, cur, arrs, owner, stop, sarr, sres>>

-----------------------------------------------------------------------------
OwnerStep ==
  \/ TakeClaim \/ TakeTop \/ TakeCas \/ TakeRestore
  \/ PushBegin \/ PushGrow \/ PushPut \/ PushBot

ThiefStep(t) ==
  StealTop(t) \/ StealBot(t) \/ StealArr(t) \/ StealGet(t) \/ StealCas(t)

Next == OwnerStep \/ \E t \in Thieves : ThiefStep(t)

Spec == Init /\ [][Next]_vars

-----------------------------------------------------------------------------
IsWSArray(a) ==
  /\ a = [size |-> a.size, buf |-> a.buf]
  /\ a.size \in Nat \ {0}
  /\ a.buf \in [0 .. a.size - 1 -> Item \cup {NULL}]

TypeOK ==
  /\ top \in Nat /\ bot \in Nat
  /\ cur \in Nat \ {0}
  /\ DOMAIN arrs = 1 .. cur
  /\ \A a \in 1 .. cur : IsWSArray(arrs[a])
  /\ pushes \in 0 .. MaxPush
  /\ pc \in OwnerPC
  /\ obot \in Nat /\ otop \in Nat
  /\ spc \in [Thieves -> ThiefPC]
  /\ stop \in [Thieves -> Nat]
  /\ sarr \in [Thieves -> 1 .. cur]
  /\ sres \in [Thieves -> Item \cup {NULL}]
  /\ got \in [Item -> Nat]

Taking == pc \in {"take_top", "take_cas", "take_restore"}
Pushing == pc \in {"push_grow", "push_put", "push_bot"}

\* One past the last index the deque still holds: a Take that has lowered bot
\* and not yet decided still holds the element it is after.
Limit == IF Taking THEN obot + 1 ELSE bot

\* The element at index i, for the indices top .. Limit - 1 the deque holds.
At(i) == Ci_WSArray_Get(arrs[cur], i)

\* The payloads Take and Steal can already return.
Visible == IF Pushing THEN pushes - 1 ELSE pushes

\* No element is handed out twice: of an owner taking the last element and
\* the thieves after it (ws_deque.h, Take and Steal) at most one gets it.
NoDuplicate == \A i \in Item : got[i] <= 1

\* No element is lost: what was pushed and not yet returned is in the array
\* deque->arr points at, between top and the bottom.  Growing the array, a
\* failed Take and lost races all preserve this.
NothingLost ==
  \A k \in 1 .. Visible : got[k] > 0 \/ \E i \in top .. Limit - 1 : At(i) = k

\* top only grows, one element at a time: the compare-and-swaps in Take and
\* Steal rely on it to detect that the element they read is gone.
TopAdvances == [][top' \in {top, top + 1}]_vars

-----------------------------------------------------------------------------
(* The inductive invariant.                                                 *)

\* The indices: no more elements than pushes, no more than fit the array.
Bounds ==
  /\ 1 <= top /\ top <= Limit
  /\ Limit <= Visible + 1
  /\ Limit - top <= arrs[cur].size

\* What the owner knows at each point of Take and Push.
OwnerKnows ==
  /\ Taking => bot = obot
  /\ pc = "take_cas" => otop = obot /\ otop <= top
  /\ pc = "take_restore" => top = obot + 1
  /\ Pushing => pushes >= 1 /\ bot = obot /\ 1 <= otop /\ otop <= top
  /\ pc = "push_grow" => obot - otop <= arrs[cur].size
  /\ pc \in {"push_put", "push_bot"} => obot - otop < arrs[cur].size
  /\ pc = "push_bot" => At(obot) = pushes

\* The deque holds each element once, and none it gave out.
HeldOnce ==
  /\ \A i \in top .. Limit - 1 : At(i) \in 1 .. Visible /\ got[At(i)] = 0
  /\ \A i, j \in top .. Limit - 1 : At(i) = At(j) => i = j

GivenOutWasPushed == \A k \in Item : got[k] > 0 => k <= Visible

\* A thief whose compare-and-swap would succeed holds the element at top,
\* even when the owner has replaced the array since the thief loaded it: old
\* arrays stay allocated (Ci_WSArray.next) and their live slots are not
\* written again.
ThiefKnows ==
  \A t \in Thieves :
    /\ stop[t] <= top
    /\ spc[t] \in {"arr", "get", "cas"} /\ stop[t] = top => top < Limit
    /\ spc[t] = "get" /\ stop[t] = top =>
         Ci_WSArray_Get(arrs[sarr[t]], top) = At(top)
    /\ spc[t] = "cas" /\ stop[t] = top => sres[t] = At(top)

\* The inductive invariant: in every reachable state of Take, Push and Steal
\* the indices, the arrays and what every thread has read so far agree.
Inv ==
  /\ TypeOK /\ Bounds /\ OwnerKnows /\ HeldOnce
  /\ NoDuplicate /\ NothingLost /\ GivenOutWasPushed /\ ThiefKnows
-----------------------------------------------------------------------------
(* What the deque implements.                                               *)

\* The elements as a sequence.  A Push takes effect with its store of bot, a
\* Take with its load of top or its compare-and-swap, a Steal with its
\* compare-and-swap.
Held == [i \in 1 .. Limit - top |-> At(top + i - 1)]

Abstract == INSTANCE Deque WITH Elem <- Item, items <- Held, returned <- got

\* Push, Take and Steal are atomic: in every interleaving the deque behaves
\* like a sequence from which the owner takes the newest element and thieves
\* the oldest, whatever the array does meanwhile.
ImplementsDeque == Abstract!Spec
=============================================================================
