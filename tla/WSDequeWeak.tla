----------------------------- MODULE WSDequeWeak -----------------------------
(***************************************************************************)
(* The deque of WSDeque on hardware that delays stores.                    *)
(*                                                                         *)
(* The owner's stores to bot, arr and the slots enter its store buffer and *)
(* reach memory later; thieves load from memory.  bot, cur and arrs of     *)
(* WSDeque are the owner's view (a thread sees its own stores at once), so *)
(* its actions are the ones of WSDeque, each with the stores it issues.    *)
(* The atomic_thread_fences of ws_deque.h appear where the code has them.  *)
(* top is only changed by compare-and-swap and is never buffered.          *)
(***************************************************************************)
EXTENDS WSDeque, SequencesExt

CONSTANTS
  StoreOrders,   \* "total": stores commit in order (x86);
                 \* "partial": only per location and at fences (AArch64)
  GrowOn         \* the store orders under which the array may grow

ASSUME StoreOrdersAssumption == StoreOrders \subseteq {"total", "partial"}

VARIABLES
  order,              \* the store order of the machine
  mbot, mcur, mbuf,   \* bot, arr and the slots of every array, in memory
  sb                  \* the owner's store buffer, oldest first

mem == <<mbot, mcur, mbuf>>
wvars == <<vars, mem, sb, order>>

Fence == [loc |-> <<"fence">>, val |-> 0]
BotStore(v) == [loc |-> <<"bot">>, val |-> v]
ArrStore(v) == [loc |-> <<"arr">>, val |-> v]
SlotStore(a, idx, size, v) == [loc |-> <<"slot", a, Slot(idx, size)>>, val |-> v]

WInit ==
  /\ Init
  /\ order \in StoreOrders
  /\ mbot = bot /\ mcur = cur
  /\ mbuf = [a \in {1} |-> arrs[1].buf]
  /\ sb = <<>>

-----------------------------------------------------------------------------
(* The owner.                                                               *)

WTakeClaim == TakeClaim /\ sb' = Append(sb, BotStore(bot')) /\ UNCHANGED mem

\* Mutant of WTakeTop: Take without its fence.
TakeTopUnfenced == TakeTop /\ UNCHANGED <<mem, sb>>

\* The sequentially consistent fence before the load of top.
WTakeTop == sb = <<>> /\ TakeTop /\ UNCHANGED <<mem, sb>>

WTakeCas == TakeCas /\ UNCHANGED <<mem, sb>>

WTakeRestore == TakeRestore /\ sb' = Append(sb, BotStore(bot')) /\ UNCHANGED mem

WPushBegin ==
  /\ PushBegin
  /\ order \in GrowOn \/ pc' # "push_grow"
  /\ UNCHANGED <<mem, sb>>

\* Mutant of WPushGrow: the new array is published before its elements.
PushGrowPublishFirst ==
  /\ PushGrow
  /\ mbuf' = [a \in 1 .. cur' |->
                IF a = cur' THEN Ci_WSArray_New(arrs'[a].size).buf ELSE mbuf[a]]
  /\ sb' = Append(sb, ArrStore(cur'))
              \o [k \in 1 .. obot - otop |->
                    SlotStore(cur', otop + k - 1, arrs'[cur'].size, At(otop + k - 1))]
  /\ UNCHANGED <<mbot, mcur>>

\* calloc gives zeroed memory; the copies and the new arr are relaxed stores.
WPushGrow ==
  /\ PushGrow
  /\ mbuf' = [a \in 1 .. cur' |->
                IF a = cur' THEN Ci_WSArray_New(arrs'[a].size).buf ELSE mbuf[a]]
  /\ sb' = sb \o [k \in 1 .. obot - otop |->
                    SlotStore(cur', otop + k - 1, arrs'[cur'].size, At(otop + k - 1))]
              \o <<ArrStore(cur')>>
  /\ UNCHANGED <<mbot, mcur>>

WPushPut ==
  /\ PushPut
  /\ sb' = Append(sb, SlotStore(cur, obot, arrs[cur].size, pushes))
  /\ UNCHANGED mem

\* The release fence orders the element before the new bot.
WPushBot == PushBot /\ sb' = sb \o <<Fence, BotStore(bot')>> /\ UNCHANGED mem

-----------------------------------------------------------------------------
(* The store buffer.                                                        *)

CanCommit(i) ==
  \/ i = 1
  \/ /\ order = "partial"
     /\ sb[i].loc # <<"fence">>
     /\ \A j \in 1 .. i - 1 : sb[j].loc \notin {sb[i].loc, <<"fence">>}

Commit ==
  \E i \in 1 .. Len(sb) :
    /\ CanCommit(i)
    /\ sb' = RemoveAt(sb, i)
    /\ LET st == sb[i] IN
       /\ mbot' = IF st.loc = <<"bot">> THEN st.val ELSE mbot
       /\ mcur' = IF st.loc = <<"arr">> THEN st.val ELSE mcur
       /\ mbuf' = IF st.loc[1] = "slot"
                    THEN [mbuf EXCEPT ![st.loc[2]][st.loc[3]] = st.val]
                    ELSE mbuf
    /\ UNCHANGED vars

-----------------------------------------------------------------------------
(* The thieves: the loads of Steal are acquire or dependent loads, in order. *)

WStealTop(t) == StealTop(t) /\ UNCHANGED <<mem, sb>>

WStealBot(t) ==
  /\ spc[t] = "bot"
  /\ spc' = [spc EXCEPT ![t] = IF stop[t] < mbot THEN "arr" ELSE "idle"]
  /\ UNCHANGED <<top, bot, cur, arrs, owner, stop, sarr, sres, got, mem, sb>>

WStealArr(t) ==
  /\ spc[t] = "arr"
  /\ sarr' = [sarr EXCEPT ![t] = mcur]
  /\ spc' = [spc EXCEPT ![t] = "get"]
  /\ UNCHANGED <<top, bot, cur, arrs, owner, stop, sres, got, mem, sb>>

WStealGet(t) ==
  /\ spc[t] = "get"
  /\ LET a == sarr[t] IN
     sres' = [sres EXCEPT ![t] = mbuf[a][Slot(stop[t], arrs[a].size)]]
  /\ spc' = [spc EXCEPT ![t] = "cas"]
  /\ UNCHANGED <<top, bot, cur, arrs, owner, stop, sarr, got, mem, sb>>

WStealCas(t) == StealCas(t) /\ UNCHANGED <<mem, sb>>

-----------------------------------------------------------------------------
WNext ==
  /\ \/ WTakeClaim \/ WTakeTop \/ WTakeCas \/ WTakeRestore
     \/ WPushBegin \/ WPushGrow \/ WPushPut \/ WPushBot
     \/ Commit
     \/ \E t \in Thieves : \/ WStealTop(t) \/ WStealBot(t) \/ WStealArr(t)
                           \/ WStealGet(t) \/ WStealCas(t)
  /\ UNCHANGED order

WSpec == WInit /\ [][WNext]_wvars

-----------------------------------------------------------------------------
\* A thief whose compare-and-swap succeeds returns the element at top.  This
\* is what the comment in Ci_WSDeque_Push (ws_deque.h:175) relies on when it
\* calls a relaxed store of the grown array correct.
WinnerHoldsElement ==
  \A t \in Thieves : spc[t] = "cas" /\ stop[t] = top => sres[t] = At(top)
=============================================================================
