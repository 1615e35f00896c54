--------------------------- MODULE CifxDriverProofs ---------------------------
(***************************************************************************)
(* Proofs about CifxDriver, for any number of cards, configurations and    *)
(* calls: HandlersSafe and InterruptsMatch follow from an inductive        *)
(* invariant that says who holds the toolkit lock at which line, and what  *)
(* a line of cifXTKitAddDevice, cifXTKitRemoveDevice or the polling thread *)
(* knows about its device while it does.                                   *)
(***************************************************************************)
EXTENDS CifxDriver, FiniteSetTheorems, SequenceTheorems, TLAPS

-----------------------------------------------------------------------------
(* The inductive invariant.                                                 *)

\* The lines of the calls that hold the lock, as entered by the innermost
\* function, and as entered by a caller of it.
InnerLabel ==
  {"insert", "dummy", "enable", "request", "hwEnable", "addLeave", "find", "disable", "join",
   "check", "stop", "unlist", "rmLeave"}

Outer(op, pc) ==
  op = "restart" \/ (op = "deinit" /\ pc \notin {"pollJoin", "dnEnter", "tkit"})

Depth(op, pc) == (IF pc \in InnerLabel THEN 1 ELSE 0) + (IF Outer(op, pc) THEN 1 ELSE 0)

Held(p) == Depth(call[p].op, call[p].pc)

PollHolds == poller.pc \in {"loop", "cos", "leave"}

\* The lock is owned by the thread at one of those lines, at its depth.
LockInv ==
  /\ \A p \in Proc : Held(p) # 0 => tkitLock = [owner |-> p, depth |-> Held(p)]
  /\ PollHolds => tkitLock = [owner |-> Poller, depth |-> 1]
  /\ (~PollHolds /\ \A p \in Proc : Held(p) = 0) => tkitLock = [owner |-> NoOwner, depth |-> 0]

\* Which lines each operation runs through.
RemoveLabel == {"rmEnter", "find", "disable", "join", "check", "stop", "unlist", "rmLeave"}

AddLabel ==
  {"start", "addEnter", "insert", "dummy", "enable", "request", "hwEnable", "addLeave"}

FlowMain ==
  CASE call["main"].op = "none" -> call["main"].pc \in {"idle", "up", "down"}
    [] call["main"].op = "init" -> call["main"].pc \in AddLabel \cup {"next", "added", "failed", "up"}
    [] call["main"].op = "deinit" ->
         call["main"].pc \in RemoveLabel \cup {"pollJoin", "dnEnter", "device", "removed", "dnLeave", "tkit"}
    [] OTHER -> FALSE

FlowUser ==
  CASE call["user"].op = "none" -> call["user"].pc = "idle"
    [] call["user"].op = "remove" -> call["user"].pc \in RemoveLabel \cup {"idle"}
    [] call["user"].op = "restart" -> call["user"].pc \in AddLabel \cup RemoveLabel \cup {"search", "rsLeave"}
    [] OTHER -> FALSE

\* The user's calls run only between the start and the end of the driver.
FlowInv ==
  /\ FlowMain /\ FlowUser
  /\ \A p \in Proc : call[p].pc \in AddLabel \cup RemoveLabel \cup {"failed", "removed", "search"} =>
                       call[p].card \in Card
  /\ call["main"].pc = "idle" => poller.pc = "none"
  /\ call["main"].pc \in {"idle", "down"} => ~fInitialized
  /\ call["user"].pc # "idle" =>
       fInitialized /\ call["main"].op # "deinit" /\ call["main"].pc \notin {"idle", "down"}
  /\ call["main"].pc \in {"dnLeave", "tkit"} => g_pptDevices = <<>>

\* Cards that cifXDriverInit has not put into the list yet.
NotYet(c) ==
  \/ call["main"].pc = "idle"
  \/ /\ call["main"].op = "init"
     /\ \/ c > call["main"].card
        \/ c = call["main"].card /\ call["main"].pc \in {"start", "addEnter", "insert", "failed"}

\* The user restarts a device that was in the list.
Restarts(c) ==
  /\ call["user"].op = "restart" /\ call["user"].card = c
  /\ call["user"].pc \notin {"search", "rsLeave"}

FreshInv ==
  \A c \in Card :
    NotYet(c) => c \notin Listed /\ ~Restarts(c) /\ ~(app.pc \in {"count", "open"} /\ app.card = c)

\* Who knows what about the device of a call.
Knows(p) ==
  LET c == call[p].card
      pc == call[p].pc
  IN /\ pc \in {"start", "addEnter", "insert"} => c \notin Listed /\ c \in allocated
     /\ pc \in {"addEnter", "insert"} => c \in started
     /\ pc \in {"dummy", "enable"} => c \in Listed /\ fIrqEnabled[c] /\ irqThread[c] = "none"
     /\ pc \in {"request", "hwEnable", "disable", "join"} => c \in Listed /\ fIrqEnabled[c]
     /\ pc \in {"check", "stop", "unlist"} => c \in Listed /\ ~fIrqEnabled[c]
     /\ pc \in {"rmEnter", "find"} /\ call[p].op = "restart" => c \in Listed
     /\ pc = "rmLeave" /\ call[p].op # "remove" => c \notin Listed
     /\ pc = "rmLeave" /\ call[p].op = "restart" => c \in allocated
     /\ pc = "removed" => c \notin Listed

KnowsInv == \A p \in Proc : Knows(p)

\* A device in the list has its instance and its channels, which go first; a
\* thread or an enabled interrupt belongs to a listed device in interrupt mode.
ListInv ==
  /\ Listed \subseteq allocated
  /\ \A c \in Listed : c \in started \/ \E p \in Proc : call[p].pc = "unlist" /\ call[p].card = c
  /\ \A c \in Card : irqThread[c] # "none" => c \in Listed /\ fIrqEnabled[c]
  /\ \A c \in allocated : intReq[c] => c \in Listed /\ fIrqEnabled[c]

\* A listed device that is not being enabled or disabled is served: it has its
\* thread, and its interrupt is enabled, or about to be.
ServedInv ==
  \A c \in Listed :
    \/ \E p \in Proc : call[p].pc \in {"dummy", "enable", "join"} /\ call[p].card = c
    \/ c \in unserved \/ ~fIrqEnabled[c]
    \/ /\ irqThread[c] \in {"test", "wait", "handlers"} /\ ~irq_stop[c]
       /\ \/ intReq[c] \/ irqThread[c] = "handlers"
          \/ \E p \in Proc : call[p].pc \in {"request", "hwEnable"} /\ call[p].card = c

\* The polling thread checks listed devices that are not in interrupt mode.
PollInv ==
  poller.pc = "cos" => /\ poller.idx \in DOMAIN g_pptDevices
                       /\ ~fIrqEnabled[g_pptDevices[poller.idx]]

\* A handle that still refers to a channel is counted there.
AppInv ==
  /\ app.pc # "idle" => app.card \in Card
  /\ app.pc = "open" /\ app.card \in started => ulOpenCount[app.card] # 0
  /\ call["user"].op = "restart" => ~AppBusy(call["user"].card)

DriverInv ==
  TypeOK /\ LockInv /\ FlowInv /\ FreshInv /\ KnowsInv /\ ListInv /\ ServedInv /\ PollInv /\ AppInv

-----------------------------------------------------------------------------
(* Sequences.                                                               *)

(* A device that is not in the list is appended to it. *)
LEMMA AppendListed ==
  ASSUME NEW S, NEW s \in Seq(S), NEW c \in S, IsInjective(s), c \notin Range(s)
  PROVE  /\ Append(s, c) \in Seq(S) /\ IsInjective(Append(s, c))
         /\ Range(Append(s, c)) = Range(s) \cup {c}
<1>1. /\ Append(s, c) \in Seq(S) /\ DOMAIN Append(s, c) = 1 .. Len(s) + 1
      /\ \A i \in 1 .. Len(s) : Append(s, c)[i] = s[i]
      /\ Append(s, c)[Len(s) + 1] = c
      /\ DOMAIN s = 1 .. Len(s) /\ Len(s) \in Nat
  OBVIOUS
<1>2. \A i \in 1 .. Len(s) : s[i] # c
  BY <1>1 DEF Range
<1>3. IsInjective(Append(s, c))
  BY <1>1, <1>2 DEF IsInjective
<1>4. ASSUME NEW x \in Range(Append(s, c)) PROVE x \in Range(s) \cup {c}
  BY <1>1 DEF Range
<1>5. ASSUME NEW x \in Range(s) PROVE x \in Range(Append(s, c))
  <2>1. PICK i \in 1 .. Len(s) : x = s[i]
    BY <1>1 DEF Range
  <2>2. i \in DOMAIN Append(s, c) /\ Append(s, c)[i] = x
    BY <1>1, <2>1
  <2> QED
    BY <2>2 DEF Range
<1>6. c \in Range(Append(s, c))
  <2>1. Len(s) + 1 \in DOMAIN Append(s, c)
    BY <1>1
  <2> QED
    BY <1>1, <2>1 DEF Range
<1> QED
  BY <1>1, <1>3, <1>4, <1>5, <1>6

(* cifXStopDevice takes exactly its device out of the list. *)
LEMMA UnlistedListed ==
  ASSUME NEW S, NEW s \in Seq(S), NEW c, IsInjective(s), c \in Range(s)
  PROVE  /\ Unlisted(s, c) \in Seq(S) /\ IsInjective(Unlisted(s, c))
         /\ Range(Unlisted(s, c)) = Range(s) \ {c}
<1> DEFINE i == CHOOSE k \in DOMAIN s : s[k] = c
           t == MovedUp(s, i)
<1>1. DOMAIN s = 1 .. Len(s) /\ Len(s) \in Nat
  OBVIOUS
<1>2. i \in 1 .. Len(s) /\ s[i] = c
  BY <1>1 DEF Range
<1>3. Unlisted(s, c) = t
  BY DEF Unlisted
<1> HIDE DEF i
<1>4. DOMAIN t = 1 .. Len(s) - 1 /\ Len(s) - 1 \in Nat
  BY <1>1, <1>2 DEF MovedUp
<1>5. \A j \in 1 .. Len(s) - 1 : t[j] = IF j < i THEN s[j] ELSE s[j + 1]
  BY DEF MovedUp
<1> HIDE DEF t
<1>6. \A j \in 1 .. Len(s) - 1 : t[j] \in S /\ t[j] # c
  BY <1>1, <1>2, <1>5, SMTT(30) DEF IsInjective
<1>7. t \in Seq(S)
  <2>1. t = [j \in 1 .. Len(s) - 1 |-> t[j]]
    BY <1>2 DEF t, MovedUp
  <2> QED
    BY <1>4, <1>6, <2>1, IsASeq
<1>8. IsInjective(t)
  <2> SUFFICES ASSUME NEW a \in 1 .. Len(s) - 1, NEW b \in 1 .. Len(s) - 1, t[a] = t[b]
               PROVE  a = b
    BY <1>4 DEF IsInjective
  <2> DEFINE f(j) == IF j < i THEN j ELSE j + 1
  <2>1. f(a) \in 1 .. Len(s) /\ f(b) \in 1 .. Len(s)
    BY <1>1, <1>2
  <2>2. s[f(a)] = s[f(b)]
    BY <1>5
  <2>3. f(a) = f(b)
    BY <1>1, <2>1, <2>2 DEF IsInjective
  <2> QED
    BY <1>1, <1>2, <2>3
<1>9. ASSUME NEW x \in Range(t) PROVE x \in Range(s) \ {c}
  <2>1. PICK j \in 1 .. Len(s) - 1 : x = t[j]
    BY <1>4 DEF Range
  <2>2. PICK k \in 1 .. Len(s) : x = s[k]
    BY <1>1, <1>2, <1>5, <2>1
  <2> QED
    BY <1>1, <1>6, <2>1, <2>2 DEF Range
<1>10. ASSUME NEW x \in Range(s) \ {c} PROVE x \in Range(t)
  <2>1. PICK k \in 1 .. Len(s) : x = s[k]
    BY <1>1 DEF Range
  <2>2. k # i
    BY <1>2, <2>1
  <2>3. PICK j \in 1 .. Len(s) - 1 : t[j] = s[k]
    <3>1. CASE k < i
      BY <1>2, <1>5, <3>1
    <3>2. CASE k > i
      <4>1. k - 1 \in 1 .. Len(s) - 1 /\ t[k - 1] = s[k]
        BY <1>2, <1>5, <3>2
      <4> QED
        BY <4>1
    <3> QED
      BY <1>2, <2>2, <3>1, <3>2
  <2> QED
    BY <1>4, <2>1, <2>3 DEF Range
<1> QED
  BY <1>3, <1>7, <1>8, <1>9, <1>10

-----------------------------------------------------------------------------
(* Types.                                                                   *)

CallRecord ==
  [op : {"none", "init", "deinit", "restart", "remove"}, pc : Label,
   card : Card \cup {NoCard}, irq : BOOLEAN]

\* TypeOK in parts.
TypeConfig == fIrqWanted \in [Card -> BOOLEAN] /\ fPollWanted \in BOOLEAN /\ fInitialized \in BOOLEAN

TypeLock ==
  /\ tkitLock \in [owner : Proc \cup {Poller, NoOwner}, depth : Nat]
  /\ (tkitLock.depth = 0) <=> (tkitLock.owner = NoOwner)

TypeList ==
  /\ g_pptDevices \in Seq(Card) /\ IsInjective(g_pptDevices)
  /\ allocated \subseteq Card /\ started \subseteq Card /\ unserved \subseteq Card

TypeIrq ==
  /\ fIrqEnabled \in [Card -> BOOLEAN] /\ intReq \in [Card -> BOOLEAN]
  /\ irq_stop \in [Card -> BOOLEAN]
  /\ irqThread \in [Card -> {"none", "test", "wait", "handlers", "ended"}]

TypePoll ==
  /\ polling_thread_stop \in BOOLEAN /\ polling_thread_running \in BOOLEAN
  /\ poller \in [pc : {"none", "test", "enter", "loop", "cos", "leave", "ended"}, idx : Nat \ {0}]

TypeApp ==
  /\ app \in [pc : {"idle", "scan", "count", "open"}, card : Card \cup {NoCard}, idx : Nat \ {0}]
  /\ ulOpenCount \in [Card -> Nat]

TypeUsed == calls \in 0 .. MaxCalls /\ opens \in 0 .. MaxOpens /\ faults \in 0 .. MaxFaults

TypeCall == call \in [Proc -> CallRecord]

(* The parts make up TypeOK. *)
LEMMA TypeParts ==
  TypeOK <=> /\ TypeConfig /\ TypeLock /\ TypeList /\ TypeIrq /\ TypePoll /\ TypeApp /\ TypeUsed
             /\ TypeCall
  BY DEF TypeOK, TypeConfig, TypeLock, TypeList, TypeIrq, TypePoll, TypeApp, TypeUsed, TypeCall,
     CallRecord

(* Going to a line changes nothing else of the calls. *)
LEMMA GoFact ==
  ASSUME TypeCall, NEW p \in Proc, NEW l, Go(p, l)
  PROVE  /\ call'[p].pc = l /\ call'[p].op = call[p].op
         /\ call'[p].card = call[p].card /\ call'[p].irq = call[p].irq
         /\ \A q \in Proc : q # p => call'[q] = call[q]
  BY DEF TypeCall, CallRecord, Go

(* ... and keeps their types. *)
LEMMA GoType ==
  ASSUME TypeCall, NEW p \in Proc, NEW l \in Label, Go(p, l)
  PROVE  TypeCall'
  BY DEF TypeCall, CallRecord, Go

(* The effect on the calls of looking the device up in the list. *)
LEMMA FindFact ==
  ASSUME TypeCall, NEW p \in Proc, FindDevice(p)
  PROVE  /\ call[p].pc = "find" /\ call'[p].pc \in {"rmLeave", "disable", "check"}
         /\ call'[p].pc = AfterFind(call[p].card)
         /\ call'[p].op = call[p].op /\ call'[p].card = call[p].card
         /\ \A q \in Proc : q # p => call'[q] = call[q]
<1>1. AfterFind(call[p].card) \in {"rmLeave", "disable", "check"}
  BY DEF AfterFind
<1>2. /\ call'[p].pc = AfterFind(call[p].card)
      /\ call'[p].op = call[p].op /\ call'[p].card = call[p].card
      /\ \A q \in Proc : q # p => call'[q] = call[q]
  BY DEF FindDevice, TypeCall, CallRecord
<1> QED
  BY <1>1, <1>2 DEF FindDevice, At

(* The effect of cifXDriverInit on the calls. *)
LEMMA DriverInitCall ==
  ASSUME TypeCall, DriverInit
  PROVE  /\ call'["user"] = call["user"]
         /\ call'["main"].card = NoCard
         /\ \/ call'["main"].op = "init" /\ call'["main"].pc = "next"
            \/ call'["main"].op = "none" /\ call'["main"].pc = "up"
<1>1. PICK r \in {[NoCall EXCEPT !.op = "init", !.pc = "next"], [NoCall EXCEPT !.pc = "up"]} :
        call' = [call EXCEPT !["main"] = r]
  BY DEF DriverInit
<1>2. call'["main"] = r /\ call'["user"] = call["user"]
  BY <1>1 DEF TypeCall, Proc
<1>3. /\ r.card = NoCard
      /\ \/ r.op = "init" /\ r.pc = "next"
         \/ r.op = "none" /\ r.pc = "up"
  <2>1. CASE r = [NoCall EXCEPT !.op = "init", !.pc = "next"]
    BY <2>1 DEF NoCall
  <2>2. CASE r = [NoCall EXCEPT !.pc = "up"]
    BY <2>2 DEF NoCall
  <2> QED
    BY <1>1, <2>1, <2>2
<1> QED
  BY <1>2, <1>3

(* The effect of the start of a call by the user. *)
LEMMA UserCall ==
  ASSUME TypeCall, NEW c \in Card, Restart(c) \/ RemoveUnforced(c)
  PROVE  /\ call'["main"] = call["main"] /\ call'["user"].card = c
         /\ \/ call'["user"].op = "restart" /\ call'["user"].pc = "search" /\ Restart(c)
            \/ call'["user"].op = "remove" /\ call'["user"].pc = "rmEnter" /\ RemoveUnforced(c)
<1>1. CASE Restart(c)
  BY <1>1, SMTT(20) DEF TypeCall, Proc, Restart, NoCall
<1>2. CASE RemoveUnforced(c)
  BY <1>2, SMTT(20) DEF TypeCall, Proc, RemoveUnforced, NoCall
<1> QED
  BY <1>1, <1>2

-----------------------------------------------------------------------------
(* The lock.                                                                *)

(* Nobody enters or leaves. *)
LEMMA LockKeep ==
  ASSUME LockInv, tkitLock' = tkitLock, PollHolds' <=> PollHolds,
         \A q \in Proc : Held(q)' = Held(q)
  PROVE  LockInv'
  BY DEF LockInv

(* A call enters the lock, once more or for the first time. *)
LEMMA LockEnter ==
  ASSUME LockInv, NEW p \in Proc, EnterLock(p), PollHolds' <=> PollHolds,
         Held(p) \in Nat, Held(p)' = Held(p) + 1, \A q \in Proc : q # p => Held(q)' = Held(q)
  PROVE  LockInv'
<1>1. ~PollHolds /\ tkitLock.owner # Poller
  BY DEF LockInv, EnterLock, CanEnter, Proc, Poller, NoOwner
<1>2. \A q \in Proc : q # p => Held(q) = 0
  BY DEF LockInv, EnterLock, CanEnter, Proc, NoOwner
<1>3. tkitLock.depth = Held(p)
  BY <1>1, <1>2 DEF LockInv
<1> QED
  BY <1>1, <1>2, <1>3 DEF LockInv, EnterLock

(* A call leaves the lock. *)
LEMMA LockLeave ==
  ASSUME LockInv, NEW p \in Proc, LeaveLock(p), PollHolds' <=> PollHolds,
         Held(p)' \in Nat, Held(p) = Held(p)' + 1, \A q \in Proc : q # p => Held(q)' = Held(q)
  PROVE  LockInv'
<1>1. tkitLock = [owner |-> p, depth |-> Held(p)]
  BY DEF LockInv
<1>2. ~PollHolds /\ \A q \in Proc : q # p => Held(q) = 0
  BY <1>1 DEF LockInv, Proc, Poller
<1> QED
  BY <1>1, <1>2 DEF LockInv, LeaveLock

(* Whoever is inside the lock is alone there. *)
LEMMA Alone ==
  ASSUME LockInv, NEW p \in Proc, call[p].pc \in InnerLabel \/ call[p].op = "restart"
  PROVE  /\ ~PollHolds
         /\ \A q \in Proc : q # p => call[q].pc \notin InnerLabel /\ call[q].op # "restart"
<1>1. Held(p) # 0
  BY DEF Held, Depth, Outer
<1>2. ~PollHolds /\ \A q \in Proc : q # p => Held(q) = 0
  BY <1>1 DEF LockInv, Proc, Poller
<1> QED
  BY <1>2 DEF Held, Depth, Outer

(* The polling thread is alone in the lock, too. *)
LEMMA PollerAlone ==
  ASSUME LockInv, PollHolds
  PROVE  \A p \in Proc : call[p].pc \notin InnerLabel /\ call[p].op # "restart"
<1>1. \A p \in Proc : Held(p) = 0
  BY DEF LockInv, Proc, Poller
<1> QED
  BY <1>1 DEF Held, Depth, Outer

-----------------------------------------------------------------------------
(* The list.                                                                *)

(* InsertDevice adds its device. *)
LEMMA ListedInsert ==
  ASSUME TypeList, FlowInv, KnowsInv, NEW p \in Proc, InsertDevice(p)
  PROVE  Listed' = Listed \cup {call[p].card}
<1>1. call[p].card \in Card /\ call[p].card \notin Range(g_pptDevices)
  BY DEF InsertDevice, At, FlowInv, AddLabel, KnowsInv, Knows, Listed
<1> QED
  BY <1>1, AppendListed DEF InsertDevice, TypeList, Listed

(* UnlistDevice takes its device out. *)
LEMMA ListedUnlist ==
  ASSUME TypeList, KnowsInv, NEW p \in Proc, UnlistDevice(p)
  PROVE  Listed' = Listed \ {call[p].card}
<1>1. call[p].card \in Range(g_pptDevices)
  BY DEF UnlistDevice, At, KnowsInv, Knows, Listed
<1> QED
  BY <1>1, UnlistedListed DEF UnlistDevice, TypeList, Listed

(* cifXTKitDeinit finds no device. *)
LEMMA ListedDeinit ==
  ASSUME FlowInv, TKitDeinit
  PROVE  g_pptDevices' = g_pptDevices /\ Listed' = Listed
  BY DEF FlowInv, TKitDeinit, At, Listed

(* The other steps keep the list. *)
LEMMA ListedKept ==
  ASSUME UNCHANGED g_pptDevices
  PROVE  Listed' = Listed
  BY DEF Listed


(* The records of the calls keep their type. *)
LEMMA TypeCallStep ==
  ASSUME DriverInv, [Next]_vars
  PROVE  TypeCall'
<1>0. TypeCall /\ TypeList /\ TypeIrq /\ FlowInv
  BY TypeParts DEF DriverInv
<1> USE GoType DEF At, Label, Proc, NoCard
<1>1. ASSUME DriverInit PROVE TypeCall'
  <2>1. \A r \in CallRecord : [call EXCEPT !["main"] = r] \in [Proc -> CallRecord]
    BY <1>0 DEF TypeCall
  <2>2. [NoCall EXCEPT !.op = "init", !.pc = "next"] \in CallRecord /\ [NoCall EXCEPT !.pc = "up"] \in CallRecord
    BY DEF NoCall, CallRecord
  <2> QED
    BY <1>1, <2>1, <2>2 DEF DriverInit, TypeCall
<1>2. ASSUME DriverAddDevice PROVE TypeCall'
  BY <1>2, <1>0, SMTT(20) DEF DriverAddDevice, TypeCall, CallRecord
<1>3. ASSUME DriverAdded PROVE TypeCall'
  BY <1>3, <1>0 DEF DriverAdded
<1>4. ASSUME NEW p \in Proc, StartDevice(p) PROVE TypeCall'
  BY <1>4, <1>0 DEF StartDevice, AfterAdd, CanEnter
<1>5. ASSUME NEW p \in Proc, AddEnter(p) PROVE TypeCall'
  BY <1>5, <1>0 DEF AddEnter, EnterLock, CanEnter
<1>6. ASSUME NEW p \in Proc, InsertDevice(p) PROVE TypeCall'
  BY <1>6, <1>0 DEF InsertDevice, EnablingStep
<1>7. ASSUME NEW p \in Proc, DummyCycle(p) PROVE TypeCall'
  BY <1>7, <1>0 DEF DummyCycle, EnablingStep
<1>8. ASSUME NEW p \in Proc, EnableInterrupts(p) PROVE TypeCall'
  BY <1>8, <1>0 DEF EnableInterrupts, EnablingStep, ResetStop
<1>8a. ASSUME NEW p \in Proc, RequestInterrupts(p) \/ EnableHWInterrupt(p) PROVE TypeCall'
  BY <1>8a, <1>0 DEF RequestInterrupts, EnableHWInterrupt, SetIntReq, EnablingStep
<1>9. ASSUME NEW p \in Proc, AddLeave(p) PROVE TypeCall'
  BY <1>9, <1>0 DEF AddLeave, LeaveLock, AfterAdd
<1>10. ASSUME NEW p \in Proc, RemoveEnter(p) PROVE TypeCall'
  BY <1>10, <1>0 DEF RemoveEnter, EnterLock, CanEnter
<1>11. ASSUME NEW p \in Proc, FindDevice(p) PROVE TypeCall'
  <2>1. call[p].card \in Card
    BY <1>11, <1>0 DEF FindDevice, FlowInv, RemoveLabel
  <2>2. fIrqEnabled[call[p].card] \in BOOLEAN /\ AfterFind(call[p].card) \in Label
    BY <1>0, <2>1 DEF TypeIrq, AfterFind
  <2>3. [call[p] EXCEPT !.irq = fIrqEnabled[call[p].card], !.pc = AfterFind(call[p].card)] \in CallRecord
    <3> HIDE DEF Label, At
    <3> QED
      BY <1>0, <2>2 DEF TypeCall, CallRecord
  <2>4. call' = [call EXCEPT ![p] = [call[p] EXCEPT !.irq = fIrqEnabled[call[p].card],
                                                   !.pc = AfterFind(call[p].card)]]
    BY <1>11, <1>0 DEF FindDevice, TypeCall, CallRecord
  <2> QED
    BY <1>0, <2>3, <2>4 DEF TypeCall
<1>12. ASSUME NEW p \in Proc, DisableInterrupts(p) PROVE TypeCall'
  BY <1>12, <1>0 DEF DisableInterrupts
<1>13. ASSUME NEW p \in Proc, JoinThread(p) PROVE TypeCall'
  BY <1>13, <1>0 DEF JoinThread, Joined
<1>14. ASSUME NEW p \in Proc, JoinNoThread(p) PROVE TypeCall'
  BY <1>14, <1>0 DEF JoinNoThread, Joined
<1>15. ASSUME NEW p \in Proc, CheckOpen(p) PROVE TypeCall'
  BY <1>15, <1>0 DEF CheckOpen
<1>16. ASSUME NEW p \in Proc, StopDevice(p) PROVE TypeCall'
  BY <1>16, <1>0 DEF StopDevice
<1>17. ASSUME NEW p \in Proc, UnlistDevice(p) PROVE TypeCall'
  BY <1>17, <1>0 DEF UnlistDevice
<1>18. ASSUME NEW p \in Proc, RemoveLeave(p) PROVE TypeCall'
  BY <1>18, <1>0 DEF RemoveLeave, LeaveLock, AfterRemove
<1>19. ASSUME NEW c \in Card, Restart(c) PROVE TypeCall'
  BY <1>19, <1>0 DEF Restart, EnterLock, CanEnter, NoCall, AppBusy, TypeCall, CallRecord
<1>20. ASSUME SearchDevice PROVE TypeCall'
  BY <1>20, <1>0 DEF SearchDevice
<1>21. ASSUME RestartLeave PROVE TypeCall'
  BY <1>21, <1>0 DEF RestartLeave, LeaveLock, NoCall, TypeCall, CallRecord
<1>22. ASSUME NEW c \in Card, RemoveUnforced(c) PROVE TypeCall'
  BY <1>22, <1>0 DEF RemoveUnforced, NoCall, TypeCall, CallRecord
<1>23. ASSUME DriverDeinit PROVE TypeCall'
  BY <1>23, <1>0 DEF DriverDeinit, NoCall, BeforeJoin, TypeCall, CallRecord
<1>24. ASSUME JoinPoller PROVE TypeCall'
  BY <1>24, <1>0 DEF JoinPoller, JoinedPoller
<1>25. ASSUME JoinNoPoller PROVE TypeCall'
  BY <1>25, <1>0 DEF JoinNoPoller, JoinedPoller
<1>26. ASSUME DeinitEnter PROVE TypeCall'
  BY <1>26, <1>0 DEF DeinitEnter, EnterLock, CanEnter
<1>27. ASSUME NextDevice PROVE TypeCall'
  BY <1>27, <1>0, SMTT(20) DEF NextDevice, TypeCall, CallRecord, TypeList
<1>28. ASSUME FreeDevice PROVE TypeCall'
  BY <1>28, <1>0 DEF FreeDevice
<1>29. ASSUME DeinitLeave PROVE TypeCall'
  BY <1>29, <1>0 DEF DeinitLeave, LeaveLock
<1>30. ASSUME TKitDeinit PROVE TypeCall'
  BY <1>30, <1>0 DEF TKitDeinit, NoCall, CanEnter, TypeCall, CallRecord
<1>31. ASSUME UNCHANGED <<call>> PROVE TypeCall'
  BY <1>31, <1>0 DEF TypeCall
<1> HIDE DEF At, Label, Proc, NoCard
<1> QED
  BY <1>1, <1>2, <1>3, <1>4, <1>5, <1>6, <1>7, <1>8, <1>8a, <1>9, <1>10, <1>11, <1>12, <1>13, <1>14,
     <1>15, <1>16, <1>17, <1>18, <1>19, <1>20, <1>21, <1>22, <1>23, <1>24, <1>25, <1>26, <1>27,
     <1>28, <1>29, <1>30, <1>31 DEF Next, MainStep, UserStep, Step, AddDevice, RemoveDevice,
     Deinit, IrqThread, App, PollingThread, Proc, vars, config, list, irq, polling, apps,
     PollTest, PollEnter, PollLoop, PollCos, PollLeave, IrqTest, IrqOccurs, IrqTimeout,
     IrqHandled, ChannelOpen, OpenScan, OpenCount, ChannelClose, irqElse

(* The configuration and fInitialized keep their types. *)
LEMMA TypeConfigStep ==
  ASSUME DriverInv, [Next]_vars
  PROVE  TypeConfig'
<1>0. TypeConfig
  BY TypeParts DEF DriverInv
<1> USE DEF config, TypeConfig
<1>1. ASSUME DriverInit PROVE TypeConfig'
  BY <1>1, <1>0 DEF DriverInit, NoCall
<1>2. ASSUME TKitDeinit PROVE TypeConfig'
  BY <1>2, <1>0 DEF TKitDeinit, NoCall, CanEnter
<1>3. ASSUME UNCHANGED <<fIrqWanted, fPollWanted, fInitialized>> PROVE TypeConfig'
  BY <1>3, <1>0
<1> HIDE DEF config, TypeConfig
<1> QED
  BY <1>1, <1>2, <1>3 DEF Next, MainStep, UserStep, Step, AddDevice, RemoveDevice, Deinit,
     IrqThread, App, PollingThread, Proc, vars, config, list, irq, polling, apps, DriverAddDevice,
     DriverAdded, StartDevice, AddEnter, InsertDevice, DummyCycle, EnableInterrupts, AddLeave,
     RemoveEnter, FindDevice, DisableInterrupts, JoinThread, JoinNoThread, CheckOpen, StopDevice,
     UnlistDevice, RemoveLeave, Restart, SearchDevice, RestartLeave, RemoveUnforced, DriverDeinit,
     JoinPoller, JoinNoPoller, DeinitEnter, NextDevice, FreeDevice, DeinitLeave, PollTest,
     PollEnter, PollLoop, PollCos, PollLeave, IrqTest, IrqOccurs, IrqTimeout, IrqHandled,
     ChannelOpen, OpenScan, OpenCount, ChannelClose, BeforeJoin, Joined, JoinedPoller, irqElse, EnableHWInterrupt,
     RequestInterrupts, SetIntReq

(* The lock keeps its type: it is left only where it is held. *)
LEMMA TypeLockStep ==
  ASSUME DriverInv, [Next]_vars
  PROVE  TypeLock'
<1>0. TypeLock /\ LockInv /\ FlowInv
  BY TypeParts DEF DriverInv
<1> USE DEF At, TypeLock, Proc, Poller, NoOwner
<1>1. ASSUME NEW p \in Proc, AddEnter(p) PROVE TypeLock'
  BY <1>1, <1>0 DEF AddEnter, EnterLock, CanEnter
<1>2. ASSUME NEW p \in Proc, AddLeave(p) PROVE TypeLock'
  BY <1>2, <1>0 DEF AddLeave, LeaveLock, AfterAdd, LockInv, Held, Depth, InnerLabel, Outer,
     PollHolds, FlowInv, FlowMain, RemoveLabel, FlowUser, AddLabel
<1>3. ASSUME NEW p \in Proc, RemoveEnter(p) PROVE TypeLock'
  BY <1>3, <1>0 DEF RemoveEnter, EnterLock, CanEnter
<1>4. ASSUME NEW p \in Proc, RemoveLeave(p) PROVE TypeLock'
  BY <1>4, <1>0 DEF RemoveLeave, LeaveLock, AfterRemove, LockInv, Held, Depth, InnerLabel, Outer,
     PollHolds, FlowInv, FlowMain, RemoveLabel, FlowUser, AddLabel
<1>5. ASSUME NEW c \in Card, Restart(c) PROVE TypeLock'
  BY <1>5, <1>0 DEF Restart, EnterLock, CanEnter, NoCall, AppBusy
<1>6. ASSUME RestartLeave PROVE TypeLock'
  BY <1>6, <1>0 DEF RestartLeave, LeaveLock, NoCall, LockInv, Held, Depth, InnerLabel, Outer,
     PollHolds, FlowInv, FlowMain, RemoveLabel, FlowUser, AddLabel
<1>7. ASSUME DeinitEnter PROVE TypeLock'
  BY <1>7, <1>0 DEF DeinitEnter, EnterLock, CanEnter
<1>8. ASSUME DeinitLeave PROVE TypeLock'
  BY <1>8, <1>0 DEF DeinitLeave, LeaveLock, LockInv, Held, Depth, InnerLabel, Outer, PollHolds,
     FlowInv, FlowMain, RemoveLabel, FlowUser, AddLabel
<1>9. ASSUME PollEnter PROVE TypeLock'
  BY <1>9, <1>0 DEF PollEnter, EnterLock, CanEnter
<1>10. ASSUME PollLeave PROVE TypeLock'
  BY <1>10, <1>0 DEF PollLeave, LeaveLock, LockInv, Held, Depth, InnerLabel, Outer, PollHolds,
     FlowInv, FlowMain, RemoveLabel, FlowUser, AddLabel
<1>11. ASSUME UNCHANGED <<tkitLock>> PROVE TypeLock'
  BY <1>11, <1>0
<1> HIDE DEF At, TypeLock, Proc, Poller, NoOwner
<1> QED
  BY <1>1, <1>2, <1>3, <1>4, <1>5, <1>6, <1>7, <1>8, <1>9, <1>10, <1>11 DEF Next, MainStep,
     UserStep, Step, AddDevice, RemoveDevice, Deinit, IrqThread, App, PollingThread, Proc, vars,
     config, list, irq, polling, apps, DriverInit, DriverAddDevice, DriverAdded, StartDevice,
     InsertDevice, DummyCycle, EnableInterrupts, FindDevice, DisableInterrupts, JoinThread,
     JoinNoThread, CheckOpen, StopDevice, UnlistDevice, SearchDevice, RemoveUnforced,
     DriverDeinit, JoinPoller, JoinNoPoller, NextDevice, FreeDevice, TKitDeinit, PollTest,
     PollLoop, PollCos, IrqTest, IrqOccurs, IrqTimeout, IrqHandled, ChannelOpen, OpenScan,
     OpenCount, ChannelClose, BeforeJoin, Joined, JoinedPoller, irqElse, EnableHWInterrupt,
     RequestInterrupts, SetIntReq

(* The list and the sets of cards keep their types; no device is listed twice. *)
LEMMA TypeListStep ==
  ASSUME DriverInv, [Next]_vars
  PROVE  TypeList'
<1>0. TypeList /\ TypeCall /\ FlowInv /\ KnowsInv
  BY TypeParts DEF DriverInv
<1> USE BoundsAssumption DEF At, TypeList, list, irq, Card
<1>1. ASSUME DriverAddDevice PROVE TypeList'
  BY <1>1, <1>0 DEF DriverAddDevice
<1>2. ASSUME DriverAdded PROVE TypeList'
  BY <1>2, <1>0 DEF DriverAdded
<1>3. ASSUME NEW p \in Proc, StartDevice(p) PROVE TypeList'
  BY <1>3, <1>0 DEF StartDevice, AfterAdd, CanEnter, FlowInv, AddLabel, RemoveLabel
<1>4. ASSUME NEW p \in Proc, InsertDevice(p) PROVE TypeList'
  <2>1. call[p].card \in Card /\ call[p].card \notin Range(g_pptDevices)
    BY <1>4, <1>0 DEF InsertDevice, FlowInv, AddLabel, KnowsInv, Knows, Listed
  <2> QED
    BY <1>4, <1>0, <2>1, AppendListed DEF InsertDevice
<1>5. ASSUME NEW p \in Proc, EnableInterrupts(p) PROVE TypeList'
  BY <1>5, <1>0 DEF EnableInterrupts, EnablingStep, ResetStop, FlowInv, AddLabel, RemoveLabel
<1>6. ASSUME NEW p \in Proc, CheckOpen(p) PROVE TypeList'
  BY <1>6, <1>0 DEF CheckOpen, FlowInv, AddLabel, RemoveLabel
<1>7. ASSUME NEW p \in Proc, StopDevice(p) PROVE TypeList'
  BY <1>7, <1>0 DEF StopDevice, FlowInv, AddLabel, RemoveLabel
<1>8. ASSUME NEW p \in Proc, UnlistDevice(p) PROVE TypeList'
  <2>1. call[p].card \in Range(g_pptDevices)
    BY <1>8, <1>0 DEF UnlistDevice, KnowsInv, Knows, Listed
  <2> QED
    BY <1>8, <1>0, <2>1, UnlistedListed DEF UnlistDevice
<1>9. ASSUME FreeDevice PROVE TypeList'
  BY <1>9, <1>0 DEF FreeDevice
<1>10. ASSUME TKitDeinit PROVE TypeList'
  BY <1>10, <1>0 DEF TKitDeinit, IsInjective
<1>11. ASSUME UNCHANGED <<g_pptDevices, allocated, started, unserved>> PROVE TypeList'
  BY <1>11, <1>0
<1> HIDE DEF At, TypeList, list, irq, Card
<1> QED
  BY <1>1, <1>2, <1>3, <1>4, <1>5, <1>6, <1>7, <1>8, <1>9, <1>10, <1>11 DEF Next, MainStep,
     UserStep, Step, AddDevice, RemoveDevice, Deinit, IrqThread, App, PollingThread, Proc, vars,
     config, list, irq, polling, apps, DriverInit, AddEnter, DummyCycle, AddLeave, RemoveEnter,
     FindDevice, DisableInterrupts, JoinThread, JoinNoThread, RemoveLeave, Restart, SearchDevice,
     RestartLeave, RemoveUnforced, DriverDeinit, JoinPoller, JoinNoPoller, DeinitEnter,
     NextDevice, DeinitLeave, PollTest, PollEnter, PollLoop, PollCos, PollLeave, IrqTest,
     IrqOccurs, IrqTimeout, IrqHandled, ChannelOpen, OpenScan, OpenCount, ChannelClose,
     BeforeJoin, Joined, JoinedPoller, irqElse, EnableHWInterrupt,
     RequestInterrupts, SetIntReq

(* The state of the interrupts keeps its type. *)
LEMMA TypeIrqStep ==
  ASSUME DriverInv, [Next]_vars
  PROVE  TypeIrq'
<1>0. TypeIrq /\ TypeCall /\ TypeConfig /\ FlowInv
  BY TypeParts DEF DriverInv
<1> USE DEF At, TypeIrq, irq
<1>1. ASSUME DriverAddDevice PROVE TypeIrq'
  BY <1>1, <1>0 DEF DriverAddDevice
<1>2. ASSUME NEW p \in Proc, StartDevice(p) PROVE TypeIrq'
  BY <1>2, <1>0 DEF StartDevice, AfterAdd, CanEnter, TypeConfig, FlowInv, AddLabel
<1>3. ASSUME NEW p \in Proc, EnableInterrupts(p) PROVE TypeIrq'
  BY <1>3, <1>0 DEF EnableInterrupts, EnablingStep, ResetStop
<1>3a. ASSUME NEW p \in Proc, RequestInterrupts(p) \/ EnableHWInterrupt(p) PROVE TypeIrq'
  BY <1>3a, <1>0 DEF RequestInterrupts, EnableHWInterrupt, SetIntReq, EnablingStep
<1>4. ASSUME NEW p \in Proc, DisableInterrupts(p) PROVE TypeIrq'
  BY <1>4, <1>0 DEF DisableInterrupts
<1>5. ASSUME NEW p \in Proc, JoinThread(p) PROVE TypeIrq'
  BY <1>5, <1>0 DEF JoinThread, Joined
<1>6. ASSUME NEW p \in Proc, JoinNoThread(p) PROVE TypeIrq'
  BY <1>6, <1>0 DEF JoinNoThread, Joined
<1>7. ASSUME NEW p \in Proc, CheckOpen(p) PROVE TypeIrq'
  BY <1>7, <1>0 DEF CheckOpen, TypeCall, CallRecord
<1>8. ASSUME NEW p \in Proc, UnlistDevice(p) PROVE TypeIrq'
  BY <1>8, <1>0 DEF UnlistDevice, TypeCall, CallRecord
<1>9. ASSUME NEW c \in Card, IrqTest(c) PROVE TypeIrq'
  BY <1>9, <1>0 DEF IrqTest, irqElse
<1>10. ASSUME NEW c \in Card, IrqOccurs(c) PROVE TypeIrq'
  BY <1>10, <1>0 DEF IrqOccurs, irqElse
<1>11. ASSUME NEW c \in Card, IrqTimeout(c) PROVE TypeIrq'
  BY <1>11, <1>0 DEF IrqTimeout, irqElse
<1>12. ASSUME NEW c \in Card, IrqHandled(c) PROVE TypeIrq'
  BY <1>12, <1>0 DEF IrqHandled, irqElse
<1>13. ASSUME UNCHANGED <<fIrqEnabled, intReq, irq_stop, irqThread>> PROVE TypeIrq'
  BY <1>13, <1>0
<1> HIDE DEF At, TypeIrq, irq
<1> QED
  BY <1>1, <1>2, <1>3, <1>3a, <1>4, <1>5, <1>6, <1>7, <1>8, <1>9, <1>10, <1>11, <1>12, <1>13 DEF Next,
     MainStep, UserStep, Step, AddDevice, RemoveDevice, Deinit, IrqThread, App, PollingThread,
     Proc, vars, config, list, irq, polling, apps, DriverInit, DriverAdded, AddEnter,
     InsertDevice, DummyCycle, AddLeave, RemoveEnter, FindDevice, StopDevice, RemoveLeave,
     Restart, SearchDevice, RestartLeave, RemoveUnforced, DriverDeinit, JoinPoller, JoinNoPoller,
     DeinitEnter, NextDevice, FreeDevice, DeinitLeave, TKitDeinit, PollTest, PollEnter, PollLoop,
     PollCos, PollLeave, ChannelOpen, OpenScan, OpenCount, ChannelClose, BeforeJoin, JoinedPoller

(* The state of the polling thread keeps its type. *)
LEMMA TypePollStep ==
  ASSUME DriverInv, [Next]_vars
  PROVE  TypePoll'
<1>0. TypePoll /\ TypeConfig
  BY TypeParts DEF DriverInv
<1> USE DEF At, TypePoll
<1>1. ASSUME DriverInit PROVE TypePoll'
  <2>1. polling_thread_running' \in BOOLEAN /\ polling_thread_stop' \in BOOLEAN
    BY <1>1, <1>0, Zenon DEF DriverInit, TypeConfig
  <2> QED
    BY <1>1, <1>0, <2>1 DEF DriverInit
<1>2. ASSUME DriverDeinit PROVE TypePoll'
  <2>1. polling_thread_stop' \in BOOLEAN
    BY <1>2, <1>0, Zenon DEF DriverDeinit
  <2> QED
    BY <1>2, <1>0, <2>1 DEF DriverDeinit
<1>3. ASSUME JoinPoller PROVE TypePoll'
  BY <1>3, <1>0 DEF JoinPoller, JoinedPoller
<1>4. ASSUME JoinNoPoller PROVE TypePoll'
  BY <1>4, <1>0 DEF JoinNoPoller, JoinedPoller
<1>5. ASSUME PollTest PROVE TypePoll'
  BY <1>5, <1>0 DEF PollTest
<1>6. ASSUME PollEnter PROVE TypePoll'
  BY <1>6, <1>0 DEF PollEnter, EnterLock, CanEnter
<1>7. ASSUME PollLoop PROVE TypePoll'
  BY <1>7, <1>0 DEF PollLoop
<1>8. ASSUME PollCos PROVE TypePoll'
  BY <1>8, <1>0 DEF PollCos
<1>9. ASSUME PollLeave PROVE TypePoll'
  BY <1>9, <1>0 DEF PollLeave, LeaveLock
<1>10. ASSUME UNCHANGED <<polling_thread_stop, polling_thread_running, poller>> PROVE TypePoll'
  BY <1>10, <1>0
<1> HIDE DEF At, TypePoll
<1> QED
  BY <1>1, <1>2, <1>3, <1>4, <1>5, <1>6, <1>7, <1>8, <1>9, <1>10 DEF Next, MainStep, UserStep,
     Step, AddDevice, RemoveDevice, Deinit, IrqThread, App, PollingThread, Proc, vars, config,
     list, irq, polling, apps, DriverAddDevice, DriverAdded, StartDevice, AddEnter, InsertDevice,
     DummyCycle, EnableInterrupts, AddLeave, RemoveEnter, FindDevice, DisableInterrupts,
     JoinThread, JoinNoThread, CheckOpen, StopDevice, UnlistDevice, RemoveLeave, Restart,
     SearchDevice, RestartLeave, RemoveUnforced, DeinitEnter, NextDevice, FreeDevice, DeinitLeave,
     TKitDeinit, IrqTest, IrqOccurs, IrqTimeout, IrqHandled, ChannelOpen, OpenScan, OpenCount,
     ChannelClose, Joined, irqElse, EnableHWInterrupt,
     RequestInterrupts, SetIntReq

(* The application and the open counts keep their types: a count never falls below zero. *)
LEMMA TypeAppStep ==
  ASSUME DriverInv, [Next]_vars
  PROVE  TypeApp'
<1>0. TypeApp /\ AppInv
  BY TypeParts DEF DriverInv
<1> USE DEF TypeApp, apps, NoCard
<1>1. ASSUME NEW p \in Proc, StopDevice(p) PROVE TypeApp'
  BY <1>1, <1>0 DEF StopDevice
<1>2. ASSUME NEW c \in Card, ChannelOpen(c) PROVE TypeApp'
  <2>1. app' = [pc |-> "scan", card |-> c, idx |-> 1]
    BY <1>2 DEF ChannelOpen, NoApp
  <2>2. ulOpenCount' = ulOpenCount
    BY <1>2 DEF ChannelOpen
  <2> QED
    BY <1>0, <2>1, <2>2
<1>3. ASSUME OpenScan PROVE TypeApp'
  BY <1>3, <1>0 DEF OpenScan, NoApp
<1>4. ASSUME OpenCount PROVE TypeApp'
  BY <1>4, <1>0 DEF OpenCount, Count, AppInv
<1>5. ASSUME ChannelClose PROVE TypeApp'
  BY <1>5, <1>0 DEF ChannelClose, Count, NoApp, AppInv
<1>6. ASSUME UNCHANGED <<app, ulOpenCount>> PROVE TypeApp'
  BY <1>6, <1>0
<1> HIDE DEF TypeApp, apps, NoCard
<1> QED
  BY <1>1, <1>2, <1>3, <1>4, <1>5, <1>6 DEF Next, MainStep, UserStep, Step, AddDevice,
     RemoveDevice, Deinit, IrqThread, App, PollingThread, Proc, vars, config, list, irq, polling,
     apps, DriverInit, DriverAddDevice, DriverAdded, StartDevice, AddEnter, InsertDevice,
     DummyCycle, EnableInterrupts, AddLeave, RemoveEnter, FindDevice, DisableInterrupts,
     JoinThread, JoinNoThread, CheckOpen, UnlistDevice, RemoveLeave, Restart, SearchDevice,
     RestartLeave, RemoveUnforced, DriverDeinit, JoinPoller, JoinNoPoller, DeinitEnter,
     NextDevice, FreeDevice, DeinitLeave, TKitDeinit, PollTest, PollEnter, PollLoop, PollCos,
     PollLeave, IrqTest, IrqOccurs, IrqTimeout, IrqHandled, BeforeJoin, Joined, JoinedPoller,
     irqElse, EnableHWInterrupt,
     RequestInterrupts, SetIntReq

(* The bounds are kept. *)
LEMMA TypeUsedStep ==
  ASSUME DriverInv, [Next]_vars
  PROVE  TypeUsed'
<1>0. TypeUsed /\ MaxCalls \in Nat /\ MaxOpens \in Nat /\ MaxFaults \in Nat
  BY TypeParts, BoundsAssumption DEF DriverInv
<1> USE DEF TypeUsed, apps
<1>1. ASSUME DriverInit PROVE TypeUsed'
  BY <1>1, <1>0 DEF DriverInit, NoCall
<1>2. ASSUME NEW p \in Proc, StartDevice(p) PROVE TypeUsed'
  BY <1>2, <1>0 DEF StartDevice, AfterAdd, CanEnter
<1>3. ASSUME NEW p \in Proc, EnableInterrupts(p) PROVE TypeUsed'
  BY <1>3, <1>0 DEF EnableInterrupts, EnablingStep, ResetStop
<1>4. ASSUME NEW c \in Card, Restart(c) PROVE TypeUsed'
  BY <1>4, <1>0 DEF Restart, EnterLock, CanEnter, NoCall, AppBusy
<1>5. ASSUME NEW c \in Card, RemoveUnforced(c) PROVE TypeUsed'
  BY <1>5, <1>0 DEF RemoveUnforced, NoCall
<1>6. ASSUME NEW c \in Card, ChannelOpen(c) PROVE TypeUsed'
  BY <1>6, <1>0 DEF ChannelOpen, NoApp
<1>7. ASSUME UNCHANGED <<calls, opens, faults>> PROVE TypeUsed'
  BY <1>7, <1>0
<1> HIDE DEF TypeUsed, apps
<1> QED
  BY <1>1, <1>2, <1>3, <1>4, <1>5, <1>6, <1>7 DEF Next, MainStep, UserStep, Step, AddDevice,
     RemoveDevice, Deinit, IrqThread, App, PollingThread, Proc, vars, config, list, irq, polling,
     apps, DriverAddDevice, DriverAdded, AddEnter, InsertDevice, DummyCycle, AddLeave,
     RemoveEnter, FindDevice, DisableInterrupts, JoinThread, JoinNoThread, CheckOpen, StopDevice,
     UnlistDevice, RemoveLeave, SearchDevice, RestartLeave, DriverDeinit, JoinPoller,
     JoinNoPoller, DeinitEnter, NextDevice, FreeDevice, DeinitLeave, TKitDeinit, PollTest,
     PollEnter, PollLoop, PollCos, PollLeave, IrqTest, IrqOccurs, IrqTimeout, IrqHandled,
     OpenScan, OpenCount, ChannelClose, BeforeJoin, Joined, JoinedPoller, irqElse, EnableHWInterrupt,
     RequestInterrupts, SetIntReq

(* The lock is always held as the lines of its holders say. *)
LEMMA LockStep ==
  ASSUME DriverInv, [Next]_vars
  PROVE  LockInv'
<1>0. TypeCall /\ TypeLock /\ TypePoll /\ LockInv /\ FlowInv
  BY TypeParts DEF DriverInv
<1>1. ASSUME DriverInit PROVE LockInv'
  <2>1. \A q \in Proc : Held(q)' = Held(q)
    <3>1. call["main"].pc = "idle" /\ call["main"].op = "none"
      BY <1>1, <1>0 DEF DriverInit, At, FlowInv, FlowMain, AddLabel, RemoveLabel
    <3> QED
      BY <1>1, <1>0, <3>1, DriverInitCall DEF Held, Depth, InnerLabel, Outer, Proc
  <2>2. tkitLock' = tkitLock /\ (PollHolds' <=> PollHolds)
    BY <1>1, <1>0 DEF DriverInit, At, PollHolds, TypePoll, FlowInv
  <2> QED
    BY <1>0, <2>1, <2>2, LockKeep
<1>2. ASSUME DriverAddDevice PROVE LockInv'
  <2>1. \A q \in Proc : Held(q)' = Held(q)
    BY <1>2, <1>0, GoFact DEF DriverAddDevice, TypeCall, CallRecord, At, Held, Depth, InnerLabel,
       Outer, Proc, FlowInv, FlowMain, FlowUser, AddLabel, RemoveLabel
  <2>2. tkitLock' = tkitLock /\ (PollHolds' <=> PollHolds)
    BY <1>2, <1>0 DEF DriverAddDevice, PollHolds, polling
  <2> QED
    BY <1>0, <2>1, <2>2, LockKeep
<1>3. ASSUME DriverAdded PROVE LockInv'
  <2>1. \A q \in Proc : Held(q)' = Held(q)
    BY <1>3, <1>0, GoFact DEF DriverAdded, At, Held, Depth, InnerLabel, Outer, Proc, FlowInv,
       FlowMain, FlowUser, AddLabel, RemoveLabel
  <2>2. tkitLock' = tkitLock /\ (PollHolds' <=> PollHolds)
    BY <1>3, <1>0 DEF DriverAdded, PollHolds, polling
  <2> QED
    BY <1>0, <2>1, <2>2, LockKeep
<1>4. ASSUME NEW p \in Proc, StartDevice(p) PROVE LockInv'
  <2>1. \A q \in Proc : Held(q)' = Held(q)
    BY <1>4, <1>0, GoFact DEF StartDevice, AfterAdd, At, Held, Depth, InnerLabel, Outer, Proc,
       FlowInv, FlowMain, FlowUser, AddLabel, RemoveLabel
  <2>2. tkitLock' = tkitLock /\ (PollHolds' <=> PollHolds)
    BY <1>4, <1>0 DEF StartDevice, AfterAdd, PollHolds, polling
  <2> QED
    BY <1>0, <2>1, <2>2, LockKeep
<1>5. ASSUME NEW p \in Proc, AddEnter(p) PROVE LockInv'
  <2>1. Held(p) \in Nat /\ Held(p)' = Held(p) + 1
    BY <1>5, <1>0, GoFact DEF AddEnter, At, Held, Depth, InnerLabel, Outer, Proc, FlowInv,
       FlowMain, FlowUser, AddLabel, RemoveLabel
  <2>2. \A q \in Proc : q # p => Held(q)' = Held(q)
    BY <1>5, <1>0, GoFact DEF AddEnter, Held, Proc
  <2>3. EnterLock(p) /\ (PollHolds' <=> PollHolds)
    BY <1>5 DEF AddEnter, PollHolds, polling
  <2> QED
    BY <1>0, <2>1, <2>2, <2>3, LockEnter DEF Proc
<1>6. ASSUME NEW p \in Proc, InsertDevice(p) PROVE LockInv'
  <2>1. \A q \in Proc : Held(q)' = Held(q)
    BY <1>6, <1>0, GoFact DEF InsertDevice, EnablingStep, At, Held, Depth, InnerLabel, Outer,
       Proc, FlowInv, FlowMain, FlowUser, AddLabel, RemoveLabel
  <2>2. tkitLock' = tkitLock /\ (PollHolds' <=> PollHolds)
    BY <1>6, <1>0 DEF InsertDevice, EnablingStep, PollHolds, polling
  <2> QED
    BY <1>0, <2>1, <2>2, LockKeep
<1>7. ASSUME NEW p \in Proc, DummyCycle(p) PROVE LockInv'
  <2>1. \A q \in Proc : Held(q)' = Held(q)
    BY <1>7, <1>0, GoFact DEF DummyCycle, EnablingStep, At, Held, Depth, InnerLabel, Outer, Proc,
       FlowInv, FlowMain, FlowUser, AddLabel, RemoveLabel
  <2>2. tkitLock' = tkitLock /\ (PollHolds' <=> PollHolds)
    BY <1>7, <1>0 DEF DummyCycle, EnablingStep, PollHolds, polling
  <2> QED
    BY <1>0, <2>1, <2>2, LockKeep
<1>8. ASSUME NEW p \in Proc, EnableInterrupts(p) PROVE LockInv'
  <2>1. \A q \in Proc : Held(q)' = Held(q)
    BY <1>8, <1>0, GoFact DEF EnableInterrupts, EnablingStep, ResetStop, At, Held, Depth,
       InnerLabel, Outer, Proc, FlowInv, FlowMain, FlowUser, AddLabel, RemoveLabel
  <2>2. tkitLock' = tkitLock /\ (PollHolds' <=> PollHolds)
    BY <1>8, <1>0 DEF EnableInterrupts, EnablingStep, ResetStop, PollHolds, polling
  <2> QED
    BY <1>0, <2>1, <2>2, LockKeep
<1>8a. ASSUME NEW p \in Proc, RequestInterrupts(p) \/ EnableHWInterrupt(p) PROVE LockInv'
  <2>1. \A q \in Proc : Held(q)' = Held(q)
    BY <1>8a, <1>0, GoFact DEF RequestInterrupts, EnableHWInterrupt, SetIntReq, EnablingStep, At, Held, Depth,
       InnerLabel, Outer, Proc, FlowInv, FlowMain, FlowUser, AddLabel, RemoveLabel
  <2>2. tkitLock' = tkitLock /\ (PollHolds' <=> PollHolds)
    BY <1>8a, <1>0 DEF RequestInterrupts, EnableHWInterrupt, SetIntReq, EnablingStep, PollHolds, polling
  <2> QED
    BY <1>0, <2>1, <2>2, LockKeep
<1>9. ASSUME NEW p \in Proc, AddLeave(p) PROVE LockInv'
  <2>1. Held(p)' \in Nat /\ Held(p) = Held(p)' + 1
    BY <1>9, <1>0, GoFact DEF AddLeave, AfterAdd, At, Held, Depth, InnerLabel, Outer, Proc,
       FlowInv, FlowMain, FlowUser, AddLabel, RemoveLabel
  <2>2. \A q \in Proc : q # p => Held(q)' = Held(q)
    BY <1>9, <1>0, GoFact DEF AddLeave, AfterAdd, Held, Proc
  <2>3. LeaveLock(p) /\ (PollHolds' <=> PollHolds)
    BY <1>9 DEF AddLeave, PollHolds, polling
  <2> QED
    BY <1>0, <2>1, <2>2, <2>3, LockLeave DEF Proc
<1>10. ASSUME NEW p \in Proc, RemoveEnter(p) PROVE LockInv'
  <2>1. Held(p) \in Nat /\ Held(p)' = Held(p) + 1
    BY <1>10, <1>0, GoFact DEF RemoveEnter, At, Held, Depth, InnerLabel, Outer, Proc, FlowInv,
       FlowMain, FlowUser, AddLabel, RemoveLabel
  <2>2. \A q \in Proc : q # p => Held(q)' = Held(q)
    BY <1>10, <1>0, GoFact DEF RemoveEnter, Held, Proc
  <2>3. EnterLock(p) /\ (PollHolds' <=> PollHolds)
    BY <1>10 DEF RemoveEnter, PollHolds, polling
  <2> QED
    BY <1>0, <2>1, <2>2, <2>3, LockEnter DEF Proc
<1>11. ASSUME NEW p \in Proc, FindDevice(p) PROVE LockInv'
  <2>1. \A q \in Proc : Held(q)' = Held(q)
    BY <1>11, <1>0 DEF FindDevice, AfterFind, TypeCall, CallRecord, At, Held, Depth, InnerLabel,
       Outer, Proc, FlowInv, FlowMain, FlowUser, AddLabel, RemoveLabel
  <2>2. tkitLock' = tkitLock /\ (PollHolds' <=> PollHolds)
    BY <1>11, <1>0 DEF FindDevice, AfterFind, PollHolds, polling
  <2> QED
    BY <1>0, <2>1, <2>2, LockKeep
<1>12. ASSUME NEW p \in Proc, DisableInterrupts(p) PROVE LockInv'
  <2>1. \A q \in Proc : Held(q)' = Held(q)
    BY <1>12, <1>0, GoFact DEF DisableInterrupts, At, Held, Depth, InnerLabel, Outer, Proc,
       FlowInv, FlowMain, FlowUser, AddLabel, RemoveLabel
  <2>2. tkitLock' = tkitLock /\ (PollHolds' <=> PollHolds)
    BY <1>12, <1>0 DEF DisableInterrupts, PollHolds, polling
  <2> QED
    BY <1>0, <2>1, <2>2, LockKeep
<1>13. ASSUME NEW p \in Proc, JoinThread(p) PROVE LockInv'
  <2>1. \A q \in Proc : Held(q)' = Held(q)
    BY <1>13, <1>0, GoFact DEF JoinThread, Joined, At, Held, Depth, InnerLabel, Outer, Proc,
       FlowInv, FlowMain, FlowUser, AddLabel, RemoveLabel
  <2>2. tkitLock' = tkitLock /\ (PollHolds' <=> PollHolds)
    BY <1>13, <1>0 DEF JoinThread, Joined, PollHolds, polling
  <2> QED
    BY <1>0, <2>1, <2>2, LockKeep
<1>14. ASSUME NEW p \in Proc, JoinNoThread(p) PROVE LockInv'
  <2>1. \A q \in Proc : Held(q)' = Held(q)
    BY <1>14, <1>0, GoFact DEF JoinNoThread, Joined, At, Held, Depth, InnerLabel, Outer, Proc,
       FlowInv, FlowMain, FlowUser, AddLabel, RemoveLabel
  <2>2. tkitLock' = tkitLock /\ (PollHolds' <=> PollHolds)
    BY <1>14, <1>0 DEF JoinNoThread, Joined, PollHolds, polling
  <2> QED
    BY <1>0, <2>1, <2>2, LockKeep
<1>15. ASSUME NEW p \in Proc, CheckOpen(p) PROVE LockInv'
  <2>1. \A q \in Proc : Held(q)' = Held(q)
    BY <1>15, <1>0, GoFact DEF CheckOpen, At, Held, Depth, InnerLabel, Outer, Proc, FlowInv,
       FlowMain, FlowUser, AddLabel, RemoveLabel
  <2>2. tkitLock' = tkitLock /\ (PollHolds' <=> PollHolds)
    BY <1>15, <1>0 DEF CheckOpen, PollHolds, polling
  <2> QED
    BY <1>0, <2>1, <2>2, LockKeep
<1>16. ASSUME NEW p \in Proc, StopDevice(p) PROVE LockInv'
  <2>1. \A q \in Proc : Held(q)' = Held(q)
    BY <1>16, <1>0, GoFact DEF StopDevice, At, Held, Depth, InnerLabel, Outer, Proc, FlowInv,
       FlowMain, FlowUser, AddLabel, RemoveLabel
  <2>2. tkitLock' = tkitLock /\ (PollHolds' <=> PollHolds)
    BY <1>16, <1>0 DEF StopDevice, PollHolds, polling
  <2> QED
    BY <1>0, <2>1, <2>2, LockKeep
<1>17. ASSUME NEW p \in Proc, UnlistDevice(p) PROVE LockInv'
  <2>1. \A q \in Proc : Held(q)' = Held(q)
    BY <1>17, <1>0, GoFact DEF UnlistDevice, At, Held, Depth, InnerLabel, Outer, Proc, FlowInv,
       FlowMain, FlowUser, AddLabel, RemoveLabel
  <2>2. tkitLock' = tkitLock /\ (PollHolds' <=> PollHolds)
    BY <1>17, <1>0 DEF UnlistDevice, PollHolds, polling
  <2> QED
    BY <1>0, <2>1, <2>2, LockKeep
<1>18. ASSUME NEW p \in Proc, RemoveLeave(p) PROVE LockInv'
  <2>1. Held(p)' \in Nat /\ Held(p) = Held(p)' + 1
    BY <1>18, <1>0, GoFact DEF RemoveLeave, AfterRemove, At, Held, Depth, InnerLabel, Outer, Proc,
       FlowInv, FlowMain, FlowUser, AddLabel, RemoveLabel
  <2>2. \A q \in Proc : q # p => Held(q)' = Held(q)
    BY <1>18, <1>0, GoFact DEF RemoveLeave, AfterRemove, Held, Proc
  <2>3. LeaveLock(p) /\ (PollHolds' <=> PollHolds)
    BY <1>18 DEF RemoveLeave, PollHolds, polling
  <2> QED
    BY <1>0, <2>1, <2>2, <2>3, LockLeave DEF Proc
<1>19. ASSUME NEW c \in Card, Restart(c) PROVE LockInv'
  <2>1. Held("user") \in Nat /\ Held("user")' = Held("user") + 1
    BY <1>19, <1>0 DEF Restart, NoCall, AppBusy, TypeCall, CallRecord, At, Held, Depth,
       InnerLabel, Outer, Proc, FlowInv, FlowMain, FlowUser, AddLabel, RemoveLabel
  <2>2. \A q \in Proc : q # "user" => Held(q)' = Held(q)
    BY <1>19, <1>0 DEF Restart, NoCall, AppBusy, TypeCall, CallRecord, Held, Proc
  <2>3. EnterLock("user") /\ (PollHolds' <=> PollHolds)
    BY <1>19 DEF Restart, PollHolds, polling
  <2> QED
    BY <1>0, <2>1, <2>2, <2>3, LockEnter DEF Proc
<1>20. ASSUME SearchDevice PROVE LockInv'
  <2>1. \A q \in Proc : Held(q)' = Held(q)
    BY <1>20, <1>0, GoFact DEF SearchDevice, At, Held, Depth, InnerLabel, Outer, Proc, FlowInv,
       FlowMain, FlowUser, AddLabel, RemoveLabel
  <2>2. tkitLock' = tkitLock /\ (PollHolds' <=> PollHolds)
    BY <1>20, <1>0 DEF SearchDevice, PollHolds, polling
  <2> QED
    BY <1>0, <2>1, <2>2, LockKeep
<1>21. ASSUME RestartLeave PROVE LockInv'
  <2>1. Held("user")' \in Nat /\ Held("user") = Held("user")' + 1
    BY <1>21, <1>0 DEF RestartLeave, NoCall, TypeCall, CallRecord, At, Held, Depth, InnerLabel,
       Outer, Proc, FlowInv, FlowMain, FlowUser, AddLabel, RemoveLabel
  <2>2. \A q \in Proc : q # "user" => Held(q)' = Held(q)
    BY <1>21, <1>0 DEF RestartLeave, NoCall, TypeCall, CallRecord, Held, Proc
  <2>3. LeaveLock("user") /\ (PollHolds' <=> PollHolds)
    BY <1>21 DEF RestartLeave, PollHolds, polling
  <2> QED
    BY <1>0, <2>1, <2>2, <2>3, LockLeave DEF Proc
<1>22. ASSUME NEW c \in Card, RemoveUnforced(c) PROVE LockInv'
  <2>1. \A q \in Proc : Held(q)' = Held(q)
    BY <1>22, <1>0 DEF RemoveUnforced, NoCall, TypeCall, CallRecord, At, Held, Depth, InnerLabel,
       Outer, Proc, FlowInv, FlowMain, FlowUser, AddLabel, RemoveLabel
  <2>2. tkitLock' = tkitLock /\ (PollHolds' <=> PollHolds)
    BY <1>22, <1>0 DEF RemoveUnforced, NoCall, PollHolds, polling
  <2> QED
    BY <1>0, <2>1, <2>2, LockKeep
<1>23. ASSUME DriverDeinit PROVE LockInv'
  <2>1. \A q \in Proc : Held(q)' = Held(q)
    BY <1>23, <1>0 DEF DriverDeinit, NoCall, BeforeJoin, TypeCall, CallRecord, At, Held, Depth,
       InnerLabel, Outer, Proc, FlowInv, FlowMain, FlowUser, AddLabel, RemoveLabel
  <2>2. tkitLock' = tkitLock /\ (PollHolds' <=> PollHolds)
    BY <1>23, <1>0 DEF DriverDeinit, NoCall, BeforeJoin, PollHolds, polling
  <2> QED
    BY <1>0, <2>1, <2>2, LockKeep
<1>24. ASSUME JoinPoller PROVE LockInv'
  <2>1. \A q \in Proc : Held(q)' = Held(q)
    BY <1>24, <1>0, GoFact DEF JoinPoller, JoinedPoller, At, Held, Depth, InnerLabel, Outer, Proc,
       FlowInv, FlowMain, FlowUser, AddLabel, RemoveLabel
  <2>2. tkitLock' = tkitLock /\ (PollHolds' <=> PollHolds)
    BY <1>24, <1>0 DEF JoinPoller, JoinedPoller, PollHolds, polling, TypePoll, FlowInv
  <2> QED
    BY <1>0, <2>1, <2>2, LockKeep
<1>25. ASSUME JoinNoPoller PROVE LockInv'
  <2>1. \A q \in Proc : Held(q)' = Held(q)
    BY <1>25, <1>0, GoFact DEF JoinNoPoller, JoinedPoller, At, Held, Depth, InnerLabel, Outer,
       Proc, FlowInv, FlowMain, FlowUser, AddLabel, RemoveLabel
  <2>2. tkitLock' = tkitLock /\ (PollHolds' <=> PollHolds)
    BY <1>25, <1>0 DEF JoinNoPoller, JoinedPoller, PollHolds, polling
  <2> QED
    BY <1>0, <2>1, <2>2, LockKeep
<1>26. ASSUME DeinitEnter PROVE LockInv'
  <2>1. Held("main") \in Nat /\ Held("main")' = Held("main") + 1
    BY <1>26, <1>0, GoFact DEF DeinitEnter, At, Held, Depth, InnerLabel, Outer, Proc, FlowInv,
       FlowMain, FlowUser, AddLabel, RemoveLabel
  <2>2. \A q \in Proc : q # "main" => Held(q)' = Held(q)
    BY <1>26, <1>0, GoFact DEF DeinitEnter, Held, Proc
  <2>3. EnterLock("main") /\ (PollHolds' <=> PollHolds)
    BY <1>26 DEF DeinitEnter, PollHolds, polling
  <2> QED
    BY <1>0, <2>1, <2>2, <2>3, LockEnter DEF Proc
<1>27. ASSUME NextDevice PROVE LockInv'
  <2>1. \A q \in Proc : Held(q)' = Held(q)
    BY <1>27, <1>0, GoFact DEF NextDevice, TypeCall, CallRecord, At, Held, Depth, InnerLabel,
       Outer, Proc, FlowInv, FlowMain, FlowUser, AddLabel, RemoveLabel
  <2>2. tkitLock' = tkitLock /\ (PollHolds' <=> PollHolds)
    BY <1>27, <1>0 DEF NextDevice, PollHolds, polling
  <2> QED
    BY <1>0, <2>1, <2>2, LockKeep
<1>28. ASSUME FreeDevice PROVE LockInv'
  <2>1. \A q \in Proc : Held(q)' = Held(q)
    BY <1>28, <1>0, GoFact DEF FreeDevice, At, Held, Depth, InnerLabel, Outer, Proc, FlowInv,
       FlowMain, FlowUser, AddLabel, RemoveLabel
  <2>2. tkitLock' = tkitLock /\ (PollHolds' <=> PollHolds)
    BY <1>28, <1>0 DEF FreeDevice, PollHolds, polling
  <2> QED
    BY <1>0, <2>1, <2>2, LockKeep
<1>29. ASSUME DeinitLeave PROVE LockInv'
  <2>1. Held("main")' \in Nat /\ Held("main") = Held("main")' + 1
    BY <1>29, <1>0, GoFact DEF DeinitLeave, At, Held, Depth, InnerLabel, Outer, Proc, FlowInv,
       FlowMain, FlowUser, AddLabel, RemoveLabel
  <2>2. \A q \in Proc : q # "main" => Held(q)' = Held(q)
    BY <1>29, <1>0, GoFact DEF DeinitLeave, Held, Proc
  <2>3. LeaveLock("main") /\ (PollHolds' <=> PollHolds)
    BY <1>29 DEF DeinitLeave, PollHolds, polling
  <2> QED
    BY <1>0, <2>1, <2>2, <2>3, LockLeave DEF Proc
<1>30. ASSUME TKitDeinit PROVE LockInv'
  <2>1. \A q \in Proc : Held(q)' = Held(q)
    BY <1>30, <1>0 DEF TKitDeinit, NoCall, TypeCall, CallRecord, At, Held, Depth, InnerLabel,
       Outer, Proc, FlowInv, FlowMain, FlowUser, AddLabel, RemoveLabel
  <2>2. tkitLock' = tkitLock /\ (PollHolds' <=> PollHolds)
    BY <1>30, <1>0 DEF TKitDeinit, NoCall, PollHolds, polling
  <2> QED
    BY <1>0, <2>1, <2>2, LockKeep
<1>31. ASSUME PollTest PROVE LockInv'
  <2>1. tkitLock' = tkitLock /\ (PollHolds' <=> PollHolds) /\ UNCHANGED call
    BY <1>31, <1>0 DEF PollTest, PollHolds, TypePoll
  <2> QED
    BY <1>0, <2>1, LockKeep DEF Held
<1>32. ASSUME PollEnter PROVE LockInv'
  <2>1. \A q \in Proc : Held(q)' = Held(q) /\ Held(q) = 0
    BY <1>32, <1>0 DEF PollEnter, EnterLock, CanEnter, LockInv, Proc, Poller, NoOwner, Held,
       PollHolds
  <2>2. tkitLock.depth = 0 /\ PollHolds'
    BY <1>32, <1>0, <2>1 DEF PollEnter, LockInv, PollHolds
  <2> QED
    BY <1>32, <1>0, <2>1, <2>2 DEF PollEnter, EnterLock, LockInv
<1>33. ASSUME PollLoop PROVE LockInv'
  <2>1. tkitLock' = tkitLock /\ (PollHolds' <=> PollHolds) /\ UNCHANGED call
    BY <1>33, <1>0 DEF PollLoop, PollHolds, TypePoll
  <2> QED
    BY <1>0, <2>1, LockKeep DEF Held
<1>34. ASSUME PollCos PROVE LockInv'
  <2>1. tkitLock' = tkitLock /\ (PollHolds' <=> PollHolds) /\ UNCHANGED call
    BY <1>34, <1>0 DEF PollCos, PollHolds, TypePoll
  <2> QED
    BY <1>0, <2>1, LockKeep DEF Held
<1>35. ASSUME PollLeave PROVE LockInv'
  <2>1. tkitLock = [owner |-> Poller, depth |-> 1]
    BY <1>35, <1>0 DEF PollLeave, LockInv, PollHolds
  <2>2. \A q \in Proc : Held(q)' = Held(q) /\ Held(q) = 0
    BY <1>35, <1>0, <2>1 DEF PollLeave, LockInv, Proc, Poller, Held
  <2>3. ~PollHolds'
    BY <1>35, <1>0 DEF PollLeave, PollHolds, TypePoll
  <2> QED
    BY <1>35, <2>1, <2>2, <2>3 DEF PollLeave, LeaveLock, LockInv
<1>36. ASSUME UNCHANGED <<tkitLock, call, poller>> PROVE LockInv'
  BY <1>36, <1>0, LockKeep DEF Held, PollHolds
<1> QED
  BY <1>1, <1>2, <1>3, <1>4, <1>5, <1>6, <1>7, <1>8, <1>8a, <1>9, <1>10, <1>11, <1>12, <1>13, <1>14,
     <1>15, <1>16, <1>17, <1>18, <1>19, <1>20, <1>21, <1>22, <1>23, <1>24, <1>25, <1>26, <1>27,
     <1>28, <1>29, <1>30, <1>31, <1>32, <1>33, <1>34, <1>35, <1>36 DEF Next, MainStep, UserStep,
     Step, AddDevice, RemoveDevice, Deinit, IrqThread, App, PollingThread, Proc, vars, config,
     list, irq, polling, apps, IrqTest, IrqOccurs, IrqTimeout, IrqHandled, ChannelOpen, OpenScan,
     OpenCount, ChannelClose, irqElse

(* The operations run through their lines in order. *)
LEMMA FlowStep ==
  ASSUME DriverInv, [Next]_vars
  PROVE  FlowInv'
<1>0. TypeCall /\ TypeList /\ TypePoll /\ FlowInv
  BY TypeParts DEF DriverInv
<1> USE DEF FlowInv, FlowMain, FlowUser, AddLabel, RemoveLabel, polling, list
<1>1. ASSUME DriverInit PROVE FlowInv'
  BY <1>1, <1>0, DriverInitCall DEF DriverInit, At, Proc
<1>2. ASSUME DriverAddDevice PROVE FlowInv'
  BY <1>2, <1>0, GoFact DEF DriverAddDevice, TypeCall, CallRecord, At, Proc
<1>3. ASSUME DriverAdded PROVE FlowInv'
  BY <1>3, <1>0, GoFact DEF DriverAdded, At, Proc
<1>4. ASSUME NEW p \in Proc, StartDevice(p) PROVE FlowInv'
  BY <1>4, <1>0, GoFact DEF StartDevice, AfterAdd, At, Proc
<1>5. ASSUME NEW p \in Proc, AddEnter(p) PROVE FlowInv'
  BY <1>5, <1>0, GoFact DEF AddEnter, At, Proc
<1>6. ASSUME NEW p \in Proc, InsertDevice(p) PROVE FlowInv'
  BY <1>6, <1>0, GoFact DEF InsertDevice, EnablingStep, At, Proc
<1>7. ASSUME NEW p \in Proc, DummyCycle(p) PROVE FlowInv'
  BY <1>7, <1>0, GoFact DEF DummyCycle, EnablingStep, At, Proc
<1>8. ASSUME NEW p \in Proc, EnableInterrupts(p) PROVE FlowInv'
  BY <1>8, <1>0, GoFact DEF EnableInterrupts, EnablingStep, ResetStop, At, Proc
<1>8a. ASSUME NEW p \in Proc, RequestInterrupts(p) \/ EnableHWInterrupt(p) PROVE FlowInv'
  BY <1>8a, <1>0, GoFact DEF RequestInterrupts, EnableHWInterrupt, SetIntReq, EnablingStep, At, Proc
<1>9. ASSUME NEW p \in Proc, AddLeave(p) PROVE FlowInv'
  BY <1>9, <1>0, GoFact DEF AddLeave, AfterAdd, At, Proc
<1>10. ASSUME NEW p \in Proc, RemoveEnter(p) PROVE FlowInv'
  BY <1>10, <1>0, GoFact DEF RemoveEnter, At, Proc
<1>11. ASSUME NEW p \in Proc, FindDevice(p) PROVE FlowInv'
  <2>1. /\ call[p].pc = "find" /\ call'[p].pc \in {"rmLeave", "disable", "check"}
        /\ call'[p].op = call[p].op /\ call'[p].card = call[p].card
        /\ \A q \in Proc : q # p => call'[q] = call[q]
    BY <1>11, <1>0, FindFact
  <2>2. UNCHANGED <<poller, fInitialized, g_pptDevices>>
    BY <1>11 DEF FindDevice
  <2>3. CASE p = "main"
    BY <1>0, <2>1, <2>2, <2>3, SMTT(20) DEF Proc
  <2>4. CASE p = "user"
    BY <1>0, <2>1, <2>2, <2>4, SMTT(20) DEF Proc
  <2> QED
    BY <2>3, <2>4 DEF Proc
<1>12. ASSUME NEW p \in Proc, DisableInterrupts(p) PROVE FlowInv'
  BY <1>12, <1>0, GoFact DEF DisableInterrupts, At, Proc
<1>13. ASSUME NEW p \in Proc, JoinThread(p) PROVE FlowInv'
  BY <1>13, <1>0, GoFact DEF JoinThread, Joined, At, Proc
<1>14. ASSUME NEW p \in Proc, JoinNoThread(p) PROVE FlowInv'
  BY <1>14, <1>0, GoFact DEF JoinNoThread, Joined, At, Proc
<1>15. ASSUME NEW p \in Proc, CheckOpen(p) PROVE FlowInv'
  BY <1>15, <1>0, GoFact DEF CheckOpen, At, Proc
<1>16. ASSUME NEW p \in Proc, StopDevice(p) PROVE FlowInv'
  BY <1>16, <1>0, GoFact DEF StopDevice, At, Proc
<1>17. ASSUME NEW p \in Proc, UnlistDevice(p) PROVE FlowInv'
  BY <1>17, <1>0, GoFact DEF UnlistDevice, At, Proc
<1>18. ASSUME NEW p \in Proc, RemoveLeave(p) PROVE FlowInv'
  BY <1>18, <1>0, GoFact DEF RemoveLeave, AfterRemove, At, Proc
<1>19. ASSUME NEW c \in Card, Restart(c) PROVE FlowInv'
  <2>1. fInitialized /\ UNCHANGED <<fInitialized, g_pptDevices, poller>> /\ call["main"].op # "deinit"
    BY <1>19 DEF Restart
  <2> QED
    BY <1>19, <1>0, <2>1, UserCall DEF Proc
<1>20. ASSUME SearchDevice PROVE FlowInv'
  BY <1>20, <1>0, GoFact DEF SearchDevice, At, Proc
<1>21. ASSUME RestartLeave PROVE FlowInv'
  BY <1>21, <1>0 DEF RestartLeave, NoCall, TypeCall, CallRecord, At, Proc
<1>22. ASSUME NEW c \in Card, RemoveUnforced(c) PROVE FlowInv'
  <2>1. fInitialized /\ UNCHANGED <<fInitialized, g_pptDevices, poller>> /\ call["main"].op # "deinit"
    BY <1>22 DEF RemoveUnforced
  <2> QED
    BY <1>22, <1>0, <2>1, UserCall DEF Proc
<1>23. ASSUME DriverDeinit PROVE FlowInv'
  BY <1>23, <1>0 DEF DriverDeinit, NoCall, BeforeJoin, TypeCall, CallRecord, At, Proc
<1>24. ASSUME JoinPoller PROVE FlowInv'
  BY <1>24, <1>0, GoFact DEF JoinPoller, JoinedPoller, At, Proc
<1>25. ASSUME JoinNoPoller PROVE FlowInv'
  BY <1>25, <1>0, GoFact DEF JoinNoPoller, JoinedPoller, At, Proc
<1>26. ASSUME DeinitEnter PROVE FlowInv'
  BY <1>26, <1>0, GoFact DEF DeinitEnter, At, Proc
<1>27. ASSUME NextDevice PROVE FlowInv'
  BY <1>27, <1>0, GoFact DEF NextDevice, TypeCall, CallRecord, At, Proc
<1>28. ASSUME FreeDevice PROVE FlowInv'
  BY <1>28, <1>0, GoFact DEF FreeDevice, At, Proc
<1>29. ASSUME DeinitLeave PROVE FlowInv'
  BY <1>29, <1>0, GoFact DEF DeinitLeave, At, Proc
<1>30. ASSUME TKitDeinit PROVE FlowInv'
  BY <1>30, <1>0 DEF TKitDeinit, NoCall, TypeCall, CallRecord, At, Proc
<1>31. ASSUME PollTest PROVE FlowInv'
  BY <1>31, <1>0 DEF PollTest, TypeCall, CallRecord, At, Proc
<1>32. ASSUME PollEnter PROVE FlowInv'
  BY <1>32, <1>0 DEF PollEnter, TypeCall, CallRecord, At, Proc
<1>33. ASSUME PollLoop PROVE FlowInv'
  BY <1>33, <1>0 DEF PollLoop, TypeCall, CallRecord, At, Proc
<1>34. ASSUME PollCos PROVE FlowInv'
  BY <1>34, <1>0 DEF PollCos, TypeCall, CallRecord, At, Proc
<1>35. ASSUME PollLeave PROVE FlowInv'
  BY <1>35, <1>0 DEF PollLeave, TypeCall, CallRecord, At, Proc
<1>36. ASSUME UNCHANGED <<call, fInitialized, g_pptDevices, poller>> PROVE FlowInv'
  BY <1>36, <1>0
<1> HIDE DEF FlowInv, FlowMain, FlowUser, AddLabel, RemoveLabel, polling, list
<1> QED
  BY <1>1, <1>2, <1>3, <1>4, <1>5, <1>6, <1>7, <1>8, <1>8a, <1>9, <1>10, <1>11, <1>12, <1>13, <1>14,
     <1>15, <1>16, <1>17, <1>18, <1>19, <1>20, <1>21, <1>22, <1>23, <1>24, <1>25, <1>26, <1>27,
     <1>28, <1>29, <1>30, <1>31, <1>32, <1>33, <1>34, <1>35, <1>36 DEF Next, MainStep, UserStep,
     Step, AddDevice, RemoveDevice, Deinit, IrqThread, App, PollingThread, Proc, vars, config,
     list, irq, polling, apps, IrqTest, IrqOccurs, IrqTimeout, IrqHandled, ChannelOpen, OpenScan,
     OpenCount, ChannelClose, irqElse

(* A card that was not put into the list is not in it. *)
LEMMA FreshStep ==
  ASSUME DriverInv, [Next]_vars
  PROVE  FreshInv'
<1>0. TypeCall /\ TypeList /\ FlowInv /\ LockInv /\ KnowsInv /\ FreshInv /\ TypeApp
  BY TypeParts DEF DriverInv
<1> USE DEF At, FreshInv, NotYet, Restarts, FlowMain, FlowUser, AddLabel, RemoveLabel, Proc, Card,
   NoCard, list, apps, FlowInv
<1>1. ASSUME DriverInit PROVE FreshInv'
  BY <1>1, <1>0, DriverInitCall, ListedKept DEF DriverInit, NoCall
<1>2. ASSUME DriverAddDevice PROVE FreshInv'
  BY <1>2, <1>0, GoFact, ListedKept DEF DriverAddDevice, TypeCall, CallRecord
<1>3. ASSUME DriverAdded PROVE FreshInv'
  BY <1>3, <1>0, GoFact, ListedKept DEF DriverAdded
<1>4. ASSUME NEW p \in Proc, StartDevice(p) PROVE FreshInv'
  BY <1>4, <1>0, GoFact, ListedKept DEF StartDevice, AfterAdd
<1>5. ASSUME NEW p \in Proc, AddEnter(p) PROVE FreshInv'
  BY <1>5, <1>0, GoFact, ListedKept DEF AddEnter
<1>6. ASSUME NEW p \in Proc, InsertDevice(p) PROVE FreshInv'
  BY <1>6, <1>0, GoFact, ListedInsert DEF InsertDevice, EnablingStep
<1>7. ASSUME NEW p \in Proc, DummyCycle(p) PROVE FreshInv'
  BY <1>7, <1>0, GoFact, ListedKept DEF DummyCycle, EnablingStep
<1>8. ASSUME NEW p \in Proc, EnableInterrupts(p) PROVE FreshInv'
  BY <1>8, <1>0, GoFact, ListedKept DEF EnableInterrupts, EnablingStep, ResetStop
<1>8a. ASSUME NEW p \in Proc, RequestInterrupts(p) \/ EnableHWInterrupt(p) PROVE FreshInv'
  BY <1>8a, <1>0, GoFact, ListedKept DEF RequestInterrupts, EnableHWInterrupt, SetIntReq, EnablingStep
<1>9. ASSUME NEW p \in Proc, AddLeave(p) PROVE FreshInv'
  BY <1>9, <1>0, GoFact, ListedKept DEF AddLeave, AfterAdd
<1>10. ASSUME NEW p \in Proc, RemoveEnter(p) PROVE FreshInv'
  BY <1>10, <1>0, GoFact, ListedKept DEF RemoveEnter
<1>11. ASSUME NEW p \in Proc, FindDevice(p) PROVE FreshInv'
  BY <1>11, <1>0, ListedKept DEF FindDevice, AfterFind, TypeCall, CallRecord
<1>12. ASSUME NEW p \in Proc, DisableInterrupts(p) PROVE FreshInv'
  BY <1>12, <1>0, GoFact, ListedKept DEF DisableInterrupts
<1>13. ASSUME NEW p \in Proc, JoinThread(p) PROVE FreshInv'
  BY <1>13, <1>0, GoFact, ListedKept DEF JoinThread, Joined
<1>14. ASSUME NEW p \in Proc, JoinNoThread(p) PROVE FreshInv'
  BY <1>14, <1>0, GoFact, ListedKept DEF JoinNoThread, Joined
<1>15. ASSUME NEW p \in Proc, CheckOpen(p) PROVE FreshInv'
  BY <1>15, <1>0, GoFact, ListedKept DEF CheckOpen
<1>16. ASSUME NEW p \in Proc, StopDevice(p) PROVE FreshInv'
  BY <1>16, <1>0, GoFact, ListedKept DEF StopDevice
<1>17. ASSUME NEW p \in Proc, UnlistDevice(p) PROVE FreshInv'
  <2>1. Go(p, "rmLeave") /\ Listed' \subseteq Listed /\ app' = app /\ call[p].pc = "unlist"
    BY <1>17, <1>0, ListedUnlist DEF UnlistDevice
  <2> QED
    BY <1>0, <2>1, GoFact DEF FlowInv
<1>18. ASSUME NEW p \in Proc, RemoveLeave(p) PROVE FreshInv'
  BY <1>18, <1>0, GoFact, ListedKept DEF RemoveLeave, AfterRemove
<1>19. ASSUME NEW c \in Card, Restart(c) PROVE FreshInv'
  <2>1. call'["main"] = call["main"] /\ call'["user"].pc = "search"
    BY <1>19, <1>0, SMTT(20) DEF Restart, TypeCall, NoCall
  <2>2. Listed' = Listed /\ app' = app
    BY <1>19, ListedKept DEF Restart
  <2> QED
    BY <1>0, <2>1, <2>2
<1>20. ASSUME SearchDevice PROVE FreshInv'
  BY <1>20, <1>0, GoFact, ListedKept DEF SearchDevice
<1>21. ASSUME RestartLeave PROVE FreshInv'
  BY <1>21, <1>0, ListedKept DEF RestartLeave, NoCall, TypeCall, CallRecord
<1>22. ASSUME NEW c \in Card, RemoveUnforced(c) PROVE FreshInv'
  <2>1. call'["main"] = call["main"] /\ call'["user"].op # "restart"
    BY <1>22, <1>0, UserCall DEF RemoveUnforced, Restart, NoCall, TypeCall, CallRecord
  <2>2. Listed' = Listed /\ app' = app
    BY <1>22, ListedKept DEF RemoveUnforced
  <2> QED
    BY <1>0, <2>1, <2>2
<1>23. ASSUME DriverDeinit PROVE FreshInv'
  BY <1>23, <1>0, ListedKept DEF DriverDeinit, NoCall, BeforeJoin, TypeCall, CallRecord
<1>24. ASSUME JoinPoller PROVE FreshInv'
  BY <1>24, <1>0, GoFact, ListedKept DEF JoinPoller, JoinedPoller
<1>25. ASSUME JoinNoPoller PROVE FreshInv'
  BY <1>25, <1>0, GoFact, ListedKept DEF JoinNoPoller, JoinedPoller
<1>26. ASSUME DeinitEnter PROVE FreshInv'
  BY <1>26, <1>0, GoFact, ListedKept DEF DeinitEnter
<1>27. ASSUME NextDevice PROVE FreshInv'
  BY <1>27, <1>0, GoFact, ListedKept DEF NextDevice, TypeCall, CallRecord
<1>28. ASSUME FreeDevice PROVE FreshInv'
  BY <1>28, <1>0, GoFact, ListedKept DEF FreeDevice
<1>29. ASSUME DeinitLeave PROVE FreshInv'
  BY <1>29, <1>0, GoFact, ListedKept DEF DeinitLeave
<1>30. ASSUME TKitDeinit PROVE FreshInv'
  BY <1>30, <1>0, ListedDeinit DEF TKitDeinit, NoCall, TypeCall, CallRecord
<1>31. ASSUME NEW c \in Card, ChannelOpen(c) PROVE FreshInv'
  BY <1>31, <1>0, ListedKept DEF ChannelOpen, NoApp
<1>32. ASSUME OpenScan PROVE FreshInv'
  <2>1. app'.pc = "count" => app'.card = app.card /\ app.card \in Listed
    BY <1>32, <1>0 DEF OpenScan, NoApp, TypeApp, TypeList, Listed, Range
  <2>2. app'.pc # "open"
    BY <1>32, <1>0 DEF OpenScan, NoApp, TypeApp
  <2>3. call' = call /\ Listed' = Listed
    BY <1>32, ListedKept DEF OpenScan
  <2> QED
    BY <1>0, <2>1, <2>2, <2>3
<1>33. ASSUME OpenCount PROVE FreshInv'
  BY <1>33, <1>0, ListedKept DEF OpenCount, Count
<1>34. ASSUME ChannelClose PROVE FreshInv'
  BY <1>34, <1>0, ListedKept DEF ChannelClose, Count, NoApp
<1>35. ASSUME UNCHANGED <<call, g_pptDevices, app>> PROVE FreshInv'
  BY <1>35, <1>0, ListedKept
<1> HIDE DEF At, FreshInv, NotYet, Restarts, FlowMain, FlowUser, AddLabel, RemoveLabel, Proc,
   Card, NoCard, list, apps, FlowInv
<1> QED
  BY <1>1, <1>2, <1>3, <1>4, <1>5, <1>6, <1>7, <1>8, <1>8a, <1>9, <1>10, <1>11, <1>12, <1>13, <1>14,
     <1>15, <1>16, <1>17, <1>18, <1>19, <1>20, <1>21, <1>22, <1>23, <1>24, <1>25, <1>26, <1>27,
     <1>28, <1>29, <1>30, <1>31, <1>32, <1>33, <1>34, <1>35 DEF Next, MainStep, UserStep, Step,
     AddDevice, RemoveDevice, Deinit, IrqThread, App, PollingThread, Proc, vars, config, list,
     irq, polling, apps, PollTest, PollEnter, PollLoop, PollCos, PollLeave, IrqTest, IrqOccurs,
     IrqTimeout, IrqHandled, irqElse

(* Each call knows its device. *)
LEMMA KnowsStep ==
  ASSUME DriverInv, [Next]_vars
  PROVE  KnowsInv'
<1>0. TypeCall /\ TypeList /\ FlowInv /\ LockInv /\ KnowsInv /\ FreshInv /\ TypeIrq /\ ListInv
  BY TypeParts DEF DriverInv
<1> USE DEF At, KnowsInv, Knows, Proc, list, irq, InnerLabel, FlowInv, FreshInv, NotYet, Restarts,
   FlowMain, FlowUser, AddLabel, RemoveLabel, TypeIrq, ListInv
<1>1. ASSUME DriverInit PROVE KnowsInv'
  BY <1>1, <1>0, Alone, DriverInitCall, ListedKept DEF DriverInit, NoCall
<1>2. ASSUME DriverAddDevice PROVE KnowsInv'
  BY <1>2, <1>0, Alone, GoFact, ListedKept DEF DriverAddDevice, TypeCall, CallRecord
<1>3. ASSUME DriverAdded PROVE KnowsInv'
  BY <1>3, <1>0, Alone, GoFact, ListedKept DEF DriverAdded
<1>4. ASSUME NEW p \in Proc, StartDevice(p) PROVE KnowsInv'
  BY <1>4, <1>0, Alone, GoFact, ListedKept DEF StartDevice, AfterAdd
<1>5. ASSUME NEW p \in Proc, AddEnter(p) PROVE KnowsInv'
  BY <1>5, <1>0, Alone, GoFact, ListedKept DEF AddEnter
<1>6. ASSUME NEW p \in Proc, InsertDevice(p) PROVE KnowsInv'
  BY <1>6, <1>0, Alone, GoFact, ListedInsert DEF InsertDevice, EnablingStep
<1>7. ASSUME NEW p \in Proc, DummyCycle(p) PROVE KnowsInv'
  BY <1>7, <1>0, Alone, GoFact, ListedKept DEF DummyCycle, EnablingStep
<1>8. ASSUME NEW p \in Proc, EnableInterrupts(p) PROVE KnowsInv'
  BY <1>8, <1>0, Alone, GoFact, ListedKept DEF EnableInterrupts, EnablingStep, ResetStop
<1>8a. ASSUME NEW p \in Proc, RequestInterrupts(p) \/ EnableHWInterrupt(p) PROVE KnowsInv'
  BY <1>8a, <1>0, Alone, GoFact, ListedKept DEF RequestInterrupts, EnableHWInterrupt, SetIntReq, EnablingStep
<1>9. ASSUME NEW p \in Proc, AddLeave(p) PROVE KnowsInv'
  BY <1>9, <1>0, Alone, GoFact, ListedKept DEF AddLeave, AfterAdd
<1>10. ASSUME NEW p \in Proc, RemoveEnter(p) PROVE KnowsInv'
  BY <1>10, <1>0, Alone, GoFact, ListedKept DEF RemoveEnter
<1>11. ASSUME NEW p \in Proc, FindDevice(p) PROVE KnowsInv'
  <2>1. /\ call[p].pc = "find" /\ call'[p].pc = AfterFind(call[p].card)
        /\ call'[p].op = call[p].op /\ call'[p].card = call[p].card
        /\ \A q \in Proc : q # p => call'[q] = call[q]
    BY <1>11, <1>0, FindFact
  <2>2. Listed' = Listed /\ UNCHANGED <<allocated, started, fIrqEnabled, irqThread>>
    BY <1>11, ListedKept DEF FindDevice
  <2>3. KnowsInv
    BY <1>0
  <2>4. Knows(p)'
    BY <2>1, <2>2, <2>3, SMTT(20) DEF AfterFind
  <2>5. ASSUME NEW q \in Proc, q # p PROVE Knows(q)'
    BY <2>1, <2>2, <2>3, <2>5
  <2> QED
    BY <2>4, <2>5
<1>12. ASSUME NEW p \in Proc, DisableInterrupts(p) PROVE KnowsInv'
  BY <1>12, <1>0, Alone, GoFact, ListedKept DEF DisableInterrupts
<1>13. ASSUME NEW p \in Proc, JoinThread(p) PROVE KnowsInv'
  BY <1>13, <1>0, Alone, GoFact, ListedKept DEF JoinThread, Joined
<1>14. ASSUME NEW p \in Proc, JoinNoThread(p) PROVE KnowsInv'
  BY <1>14, <1>0, Alone, GoFact, ListedKept DEF JoinNoThread, Joined
<1>15. ASSUME NEW p \in Proc, CheckOpen(p) PROVE KnowsInv'
  BY <1>15, <1>0, Alone, GoFact, ListedKept DEF CheckOpen
<1>16. ASSUME NEW p \in Proc, StopDevice(p) PROVE KnowsInv'
  BY <1>16, <1>0, Alone, GoFact, ListedKept DEF StopDevice
<1>17. ASSUME NEW p \in Proc, UnlistDevice(p) PROVE KnowsInv'
  <2>1. /\ Go(p, "rmLeave") /\ call[p].pc = "unlist" /\ call[p].card \in Card
        /\ UNCHANGED <<allocated, started, irqThread>>
        /\ fIrqEnabled' = [fIrqEnabled EXCEPT ![call[p].card] = call[p].irq]
        /\ call[p].card \in allocated
    BY <1>17, <1>0 DEF UnlistDevice, FlowInv, RemoveLabel, ListInv
  <2>2. Listed' = Listed \ {call[p].card}
    BY <1>17, <1>0, ListedUnlist
  <2>3. Knows(p)'
    BY <1>0, <2>1, <2>2, GoFact
  <2>4. \A q \in Proc : q # p => call'[q] = call[q] /\ call[q].pc \notin InnerLabel /\ call[q].op # "restart"
    BY <1>0, <2>1, GoFact, Alone DEF InnerLabel
  <2>5. \A q \in Proc : q # p => Knows(q)'
    BY <1>0, <2>1, <2>2, <2>4 DEF InnerLabel
  <2> QED
    BY <2>3, <2>5
<1>18. ASSUME NEW p \in Proc, RemoveLeave(p) PROVE KnowsInv'
  BY <1>18, <1>0, Alone, GoFact, ListedKept DEF RemoveLeave, AfterRemove
<1>19. ASSUME NEW c \in Card, Restart(c) PROVE KnowsInv'
  <2>1. call'["main"] = call["main"] /\ call'["user"].pc \in {"search", "rmEnter"}
        /\ (call'["user"].pc = "rmEnter" => call'["user"].op = "remove")
    BY <1>19, <1>0, UserCall DEF Restart, NoCall, TypeCall, CallRecord
  <2>2. Listed' = Listed /\ UNCHANGED <<allocated, started, fIrqEnabled, irqThread>>
    BY <1>19, ListedKept DEF Restart
  <2> QED
    BY <1>0, <2>1, <2>2
<1>20. ASSUME SearchDevice PROVE KnowsInv'
  BY <1>20, <1>0, Alone, GoFact, ListedKept DEF SearchDevice
<1>21. ASSUME RestartLeave PROVE KnowsInv'
  BY <1>21, <1>0, Alone, ListedKept DEF RestartLeave, NoCall, TypeCall, CallRecord
<1>22. ASSUME NEW c \in Card, RemoveUnforced(c) PROVE KnowsInv'
  <2>1. call'["main"] = call["main"] /\ call'["user"].pc \in {"search", "rmEnter"}
        /\ (call'["user"].pc = "rmEnter" => call'["user"].op = "remove")
    BY <1>22, <1>0, UserCall DEF RemoveUnforced, NoCall, TypeCall, CallRecord
  <2>2. Listed' = Listed /\ UNCHANGED <<allocated, started, fIrqEnabled, irqThread>>
    BY <1>22, ListedKept DEF RemoveUnforced
  <2> QED
    BY <1>0, <2>1, <2>2
<1>23. ASSUME DriverDeinit PROVE KnowsInv'
  BY <1>23, <1>0, Alone, ListedKept DEF DriverDeinit, NoCall, BeforeJoin, TypeCall, CallRecord
<1>24. ASSUME JoinPoller PROVE KnowsInv'
  BY <1>24, <1>0, Alone, GoFact, ListedKept DEF JoinPoller, JoinedPoller
<1>25. ASSUME JoinNoPoller PROVE KnowsInv'
  BY <1>25, <1>0, Alone, GoFact, ListedKept DEF JoinNoPoller, JoinedPoller
<1>26. ASSUME DeinitEnter PROVE KnowsInv'
  BY <1>26, <1>0, Alone, GoFact, ListedKept DEF DeinitEnter
<1>27. ASSUME NextDevice PROVE KnowsInv'
  BY <1>27, <1>0, Alone, GoFact, ListedKept DEF NextDevice, TypeCall, CallRecord
<1>28. ASSUME FreeDevice PROVE KnowsInv'
  BY <1>28, <1>0, Alone, GoFact, ListedKept DEF FreeDevice
<1>29. ASSUME DeinitLeave PROVE KnowsInv'
  BY <1>29, <1>0, Alone, GoFact, ListedKept DEF DeinitLeave
<1>30. ASSUME TKitDeinit PROVE KnowsInv'
  BY <1>30, <1>0, Alone, ListedDeinit DEF TKitDeinit, NoCall, TypeCall, CallRecord
<1>31. ASSUME NEW c \in Card, IrqTest(c) PROVE KnowsInv'
  BY <1>31, <1>0, Alone, ListedKept DEF IrqTest, irqElse
<1>32. ASSUME NEW c \in Card, IrqOccurs(c) PROVE KnowsInv'
  BY <1>32, <1>0, Alone, ListedKept DEF IrqOccurs, irqElse
<1>33. ASSUME NEW c \in Card, IrqTimeout(c) PROVE KnowsInv'
  BY <1>33, <1>0, Alone, ListedKept DEF IrqTimeout, irqElse
<1>34. ASSUME NEW c \in Card, IrqHandled(c) PROVE KnowsInv'
  BY <1>34, <1>0, Alone, ListedKept DEF IrqHandled, irqElse
<1>35. ASSUME UNCHANGED <<call, g_pptDevices, allocated, started, fIrqEnabled, irqThread>> PROVE KnowsInv'
  BY <1>35, <1>0, ListedKept
<1> HIDE DEF At, KnowsInv, Knows, Proc, list, irq, InnerLabel, FlowInv, FreshInv, NotYet,
   Restarts, FlowMain, FlowUser, AddLabel, RemoveLabel, TypeIrq, ListInv
<1> QED
  BY <1>1, <1>2, <1>3, <1>4, <1>5, <1>6, <1>7, <1>8, <1>8a, <1>9, <1>10, <1>11, <1>12, <1>13, <1>14,
     <1>15, <1>16, <1>17, <1>18, <1>19, <1>20, <1>21, <1>22, <1>23, <1>24, <1>25, <1>26, <1>27,
     <1>28, <1>29, <1>30, <1>31, <1>32, <1>33, <1>34, <1>35 DEF Next, MainStep, UserStep, Step,
     AddDevice, RemoveDevice, Deinit, IrqThread, App, PollingThread, Proc, vars, config, list,
     irq, polling, apps, PollTest, PollEnter, PollLoop, PollCos, PollLeave, ChannelOpen, OpenScan,
     OpenCount, ChannelClose

(* Listed devices exist, and only they have threads and interrupts. *)
LEMMA ListStep ==
  ASSUME DriverInv, [Next]_vars
  PROVE  ListInv'
<1>0. TypeCall /\ TypeList /\ FlowInv /\ LockInv /\ KnowsInv /\ FreshInv /\ TypeIrq /\ ListInv
  BY TypeParts DEF DriverInv
<1> USE DEF At, ListInv, Proc, list, irq, KnowsInv, Knows, InnerLabel, FlowInv, FreshInv, NotYet,
   Restarts, FlowMain, FlowUser, AddLabel, RemoveLabel, TypeIrq
<1>1. ASSUME DriverInit PROVE ListInv'
  BY <1>1, <1>0, Alone, DriverInitCall, ListedKept DEF DriverInit, NoCall
<1>2. ASSUME DriverAddDevice PROVE ListInv'
  BY <1>2, <1>0, Alone, GoFact, ListedKept DEF DriverAddDevice, TypeCall, CallRecord
<1>3. ASSUME DriverAdded PROVE ListInv'
  BY <1>3, <1>0, Alone, GoFact, ListedKept DEF DriverAdded
<1>4. ASSUME NEW p \in Proc, StartDevice(p) PROVE ListInv'
  <2>1. call[p].card \notin Listed /\ call[p].card \in Card /\ call[p].pc = "start"
    BY <1>4, <1>0 DEF StartDevice, KnowsInv, Knows, FlowInv, AddLabel
  <2>2. \E l : Go(p, l)
    BY <1>4 DEF StartDevice
  <2>3. \A q \in Proc : call[q].pc = "unlist" => call'[q] = call[q]
    BY <1>0, <2>1, <2>2, GoFact
  <2>4. /\ started \subseteq started' /\ UNCHANGED <<g_pptDevices, allocated, intReq, irqThread>>
        /\ \E b : fIrqEnabled' = [fIrqEnabled EXCEPT ![call[p].card] = b]
    BY <1>4 DEF StartDevice
  <2>5. Listed' = Listed /\ \A d \in Card : d # call[p].card => fIrqEnabled'[d] = fIrqEnabled[d]
    BY <1>0, <2>4, ListedKept DEF TypeIrq
  <2>6. Listed \subseteq Card /\ allocated \subseteq Card
    BY <1>0 DEF TypeList, Listed, Range
  <2> QED
    BY <1>0, <2>1, <2>3, <2>4, <2>6, <2>5
<1>5. ASSUME NEW p \in Proc, AddEnter(p) PROVE ListInv'
  BY <1>5, <1>0, Alone, GoFact, ListedKept DEF AddEnter
<1>6. ASSUME NEW p \in Proc, InsertDevice(p) PROVE ListInv'
  BY <1>6, <1>0, Alone, GoFact, ListedInsert DEF InsertDevice, EnablingStep
<1>7. ASSUME NEW p \in Proc, DummyCycle(p) PROVE ListInv'
  BY <1>7, <1>0, Alone, GoFact, ListedKept DEF DummyCycle, EnablingStep
<1>8. ASSUME NEW p \in Proc, EnableInterrupts(p) PROVE ListInv'
  BY <1>8, <1>0, Alone, GoFact, ListedKept DEF EnableInterrupts, EnablingStep, ResetStop
<1>8a. ASSUME NEW p \in Proc, RequestInterrupts(p) \/ EnableHWInterrupt(p) PROVE ListInv'
  <2>1. /\ call[p].pc \in {"request", "hwEnable"} /\ call[p].card \in Card /\ Listed' = Listed
        /\ UNCHANGED <<allocated, started, fIrqEnabled, irqThread>>
        /\ intReq' = [intReq EXCEPT ![call[p].card] = TRUE]
    BY <1>8a, <1>0, ListedKept DEF RequestInterrupts, EnableHWInterrupt, SetIntReq, FlowInv, AddLabel
  <2>2. \A q \in Proc : q # p => call'[q] = call[q]
    BY <1>8a, <1>0, GoFact DEF RequestInterrupts, EnableHWInterrupt, SetIntReq
  <2>3. call[p].card \in Listed /\ fIrqEnabled[call[p].card]
    BY <1>0, <2>1 DEF KnowsInv, Knows
  <2>4. \A d \in Card : d # call[p].card => intReq'[d] = intReq[d]
    BY <1>0, <2>1 DEF TypeIrq
  <2>5. allocated \subseteq Card
    BY <1>0 DEF TypeList
  <2> QED
    BY <1>0, <2>1, <2>2, <2>3, <2>4, <2>5
<1>9. ASSUME NEW p \in Proc, AddLeave(p) PROVE ListInv'
  BY <1>9, <1>0, Alone, GoFact, ListedKept DEF AddLeave, AfterAdd
<1>10. ASSUME NEW p \in Proc, RemoveEnter(p) PROVE ListInv'
  BY <1>10, <1>0, Alone, GoFact, ListedKept DEF RemoveEnter
<1>11. ASSUME NEW p \in Proc, FindDevice(p) PROVE ListInv'
  BY <1>11, <1>0, Alone, ListedKept DEF FindDevice, AfterFind, TypeCall, CallRecord
<1>12. ASSUME NEW p \in Proc, DisableInterrupts(p) PROVE ListInv'
  BY <1>12, <1>0, Alone, GoFact, ListedKept DEF DisableInterrupts
<1>13. ASSUME NEW p \in Proc, JoinThread(p) PROVE ListInv'
  BY <1>13, <1>0, Alone, GoFact, ListedKept DEF JoinThread, Joined
<1>14. ASSUME NEW p \in Proc, JoinNoThread(p) PROVE ListInv'
  BY <1>14, <1>0, Alone, GoFact, ListedKept DEF JoinNoThread, Joined
<1>15. ASSUME NEW p \in Proc, CheckOpen(p) PROVE ListInv'
  <2>1. /\ call[p].card \in Listed /\ call[p].card \in Card /\ call[p].pc = "check"
        /\ ~fIrqEnabled[call[p].card]
    BY <1>15, <1>0 DEF CheckOpen, KnowsInv, Knows, FlowInv, RemoveLabel
  <2>2. \A q \in Proc : call[q].pc = "unlist" => call'[q] = call[q]
    BY <1>15, <1>0, <2>1, GoFact DEF CheckOpen
  <2>3. /\ Listed' = Listed /\ UNCHANGED <<started, allocated, intReq, irqThread>>
        /\ \A d \in Card : d # call[p].card => fIrqEnabled'[d] = fIrqEnabled[d]
    BY <1>15, <1>0, <2>1, ListedKept DEF CheckOpen, TypeIrq
  <2>4. Listed \subseteq Card /\ allocated \subseteq Card
    BY <1>0 DEF TypeList, Listed, Range
  <2> QED
    BY <1>0, <2>1, <2>2, <2>3, <2>4
<1>16. ASSUME NEW p \in Proc, StopDevice(p) PROVE ListInv'
  BY <1>16, <1>0, Alone, GoFact, ListedKept DEF StopDevice
<1>17. ASSUME NEW p \in Proc, UnlistDevice(p) PROVE ListInv'
  <2>1. /\ call[p].card \in Listed /\ call[p].card \in Card /\ call[p].pc = "unlist"
        /\ ~fIrqEnabled[call[p].card]
    BY <1>17, <1>0 DEF UnlistDevice, KnowsInv, Knows, FlowInv, RemoveLabel
  <2>2. \A q \in Proc : q # p => call[q].pc # "unlist"
    BY <1>0, <2>1, Alone DEF InnerLabel
  <2>3. /\ UNCHANGED <<started, allocated, intReq, irqThread>>
        /\ fIrqEnabled' = [fIrqEnabled EXCEPT ![call[p].card] = call[p].irq]
    BY <1>17 DEF UnlistDevice
  <2>4. /\ Listed' = Listed \ {call[p].card}
        /\ \A d \in Card : d # call[p].card => fIrqEnabled'[d] = fIrqEnabled[d]
    BY <1>17, <1>0, <2>3, ListedUnlist DEF TypeIrq
  <2>5. Listed \subseteq Card /\ allocated \subseteq Card
    BY <1>0 DEF TypeList, Listed, Range
  <2> QED
    BY <1>0, <2>1, <2>2, <2>3, <2>5, <2>4
<1>18. ASSUME NEW p \in Proc, RemoveLeave(p) PROVE ListInv'
  BY <1>18, <1>0, Alone, GoFact, ListedKept DEF RemoveLeave, AfterRemove
<1>19. ASSUME NEW c \in Card, Restart(c) PROVE ListInv'
  BY <1>19, <1>0, Alone, UserCall, ListedKept DEF Restart, NoCall, AppBusy
<1>20. ASSUME SearchDevice PROVE ListInv'
  BY <1>20, <1>0, Alone, GoFact, ListedKept DEF SearchDevice
<1>21. ASSUME RestartLeave PROVE ListInv'
  BY <1>21, <1>0, Alone, ListedKept DEF RestartLeave, NoCall, TypeCall, CallRecord
<1>22. ASSUME NEW c \in Card, RemoveUnforced(c) PROVE ListInv'
  BY <1>22, <1>0, Alone, UserCall, ListedKept DEF RemoveUnforced, NoCall
<1>23. ASSUME DriverDeinit PROVE ListInv'
  BY <1>23, <1>0, Alone, ListedKept DEF DriverDeinit, NoCall, BeforeJoin, TypeCall, CallRecord
<1>24. ASSUME JoinPoller PROVE ListInv'
  BY <1>24, <1>0, Alone, GoFact, ListedKept DEF JoinPoller, JoinedPoller
<1>25. ASSUME JoinNoPoller PROVE ListInv'
  BY <1>25, <1>0, Alone, GoFact, ListedKept DEF JoinNoPoller, JoinedPoller
<1>26. ASSUME DeinitEnter PROVE ListInv'
  BY <1>26, <1>0, Alone, GoFact, ListedKept DEF DeinitEnter
<1>27. ASSUME NextDevice PROVE ListInv'
  BY <1>27, <1>0, Alone, GoFact, ListedKept DEF NextDevice, TypeCall, CallRecord
<1>28. ASSUME FreeDevice PROVE ListInv'
  BY <1>28, <1>0, Alone, GoFact, ListedKept DEF FreeDevice
<1>29. ASSUME DeinitLeave PROVE ListInv'
  BY <1>29, <1>0, Alone, GoFact, ListedKept DEF DeinitLeave
<1>30. ASSUME TKitDeinit PROVE ListInv'
  BY <1>30, <1>0, Alone, ListedDeinit DEF TKitDeinit, NoCall, TypeCall, CallRecord
<1>31. ASSUME NEW c \in Card, IrqTest(c) PROVE ListInv'
  BY <1>31, <1>0, Alone, ListedKept DEF IrqTest, irqElse
<1>32. ASSUME NEW c \in Card, IrqOccurs(c) PROVE ListInv'
  BY <1>32, <1>0, Alone, ListedKept DEF IrqOccurs, irqElse
<1>33. ASSUME NEW c \in Card, IrqTimeout(c) PROVE ListInv'
  BY <1>33, <1>0, Alone, ListedKept DEF IrqTimeout, irqElse
<1>34. ASSUME NEW c \in Card, IrqHandled(c) PROVE ListInv'
  BY <1>34, <1>0, Alone, ListedKept DEF IrqHandled, irqElse
<1>35. ASSUME UNCHANGED <<call, g_pptDevices, allocated, started, fIrqEnabled, intReq, irqThread>> PROVE ListInv'
  BY <1>35, <1>0, ListedKept
<1> HIDE DEF At, ListInv, Proc, list, irq, KnowsInv, Knows, InnerLabel, FlowInv, FreshInv, NotYet,
   Restarts, FlowMain, FlowUser, AddLabel, RemoveLabel, TypeIrq
<1> QED
  BY <1>1, <1>2, <1>3, <1>4, <1>5, <1>6, <1>7, <1>8, <1>8a, <1>9, <1>10, <1>11, <1>12, <1>13, <1>14,
     <1>15, <1>16, <1>17, <1>18, <1>19, <1>20, <1>21, <1>22, <1>23, <1>24, <1>25, <1>26, <1>27,
     <1>28, <1>29, <1>30, <1>31, <1>32, <1>33, <1>34, <1>35 DEF Next, MainStep, UserStep, Step,
     AddDevice, RemoveDevice, Deinit, IrqThread, App, PollingThread, Proc, vars, config, list,
     irq, polling, apps, PollTest, PollEnter, PollLoop, PollCos, PollLeave, ChannelOpen, OpenScan,
     OpenCount, ChannelClose

(* A listed device that nobody enables or disables is served. *)
LEMMA ServedStep ==
  ASSUME DriverInv, [Next]_vars
  PROVE  ServedInv'
<1>0. TypeCall /\ TypeList /\ FlowInv /\ LockInv /\ KnowsInv /\ FreshInv /\ TypeIrq /\ ListInv /\ ServedInv
  BY TypeParts DEF DriverInv
<1> USE DEF At, ServedInv, Proc, list, irq, KnowsInv, Knows, InnerLabel, FlowInv, FreshInv,
   NotYet, Restarts, FlowMain, FlowUser, AddLabel, RemoveLabel, TypeIrq, ListInv
<1>1. ASSUME DriverInit PROVE ServedInv'
  BY <1>1, <1>0, Alone, DriverInitCall, ListedKept DEF DriverInit, NoCall
<1>2. ASSUME DriverAddDevice PROVE ServedInv'
  BY <1>2, <1>0, Alone, GoFact, ListedKept DEF DriverAddDevice, TypeCall, CallRecord
<1>3. ASSUME DriverAdded PROVE ServedInv'
  BY <1>3, <1>0, Alone, GoFact, ListedKept DEF DriverAdded
<1>4. ASSUME NEW p \in Proc, StartDevice(p) PROVE ServedInv'
  <2>1. call[p].card \notin Listed /\ call[p].pc = "start"
    BY <1>4, <1>0 DEF StartDevice, KnowsInv, Knows
  <2>2. \A q \in Proc : call[q].pc \in {"dummy", "enable", "request", "hwEnable", "join"} =>
          call'[q] = call[q]
    <3>1. PICK l : Go(p, l)
      BY <1>4, Zenon DEF StartDevice
    <3>2. TypeCall
      BY <1>0
    <3>3. \A q \in Proc : q # p => call'[q] = call[q]
      <4> HIDE DEF Proc
      <4> QED
        BY <3>1, <3>2, GoFact, Zenon
    <3> QED
      BY <2>1, <3>3
  <2>3. /\ UNCHANGED <<g_pptDevices, unserved, intReq, irqThread, irq_stop>>
        /\ \E b : fIrqEnabled' = [fIrqEnabled EXCEPT ![call[p].card] = b]
    BY <1>4 DEF StartDevice
  <2>4. Listed' = Listed /\ Listed \subseteq Card
    BY <1>0, <2>3, ListedKept DEF TypeList, Listed, Range
  <2>5. \A d \in Listed : fIrqEnabled'[d] = fIrqEnabled[d]
    BY <1>0, <2>1, <2>3, <2>4 DEF TypeIrq
  <2> QED
    BY <1>0, <2>2, <2>3, <2>4, <2>5
<1>5. ASSUME NEW p \in Proc, AddEnter(p) PROVE ServedInv'
  BY <1>5, <1>0, Alone, GoFact, ListedKept DEF AddEnter
<1>6. ASSUME NEW p \in Proc, InsertDevice(p) PROVE ServedInv'
  BY <1>6, <1>0, Alone, GoFact, ListedInsert DEF InsertDevice, EnablingStep
<1>7. ASSUME NEW p \in Proc, DummyCycle(p) PROVE ServedInv'
  BY <1>7, <1>0, Alone, GoFact, ListedKept DEF DummyCycle, EnablingStep
<1>8. ASSUME NEW p \in Proc, EnableInterrupts(p) PROVE ServedInv'
  <2>1. call[p].pc = "enable" /\ call[p].card \in Card /\ Listed' = Listed /\ fIrqEnabled' = fIrqEnabled
    BY <1>8, <1>0, ListedKept DEF EnableInterrupts, FlowInv, AddLabel
  <2>2. \A q \in Proc : q # p => call'[q] = call[q]
    BY <1>8, <1>0, GoFact DEF EnableInterrupts
  <2>3. Listed \subseteq Card
    BY <1>0 DEF TypeList, Listed, Range
  <2>4. \A d \in Card : d # call[p].card =>
          /\ irqThread'[d] = irqThread[d] /\ irq_stop'[d] = irq_stop[d] /\ intReq'[d] = intReq[d]
          /\ d \in unserved' <=> d \in unserved
    BY <1>8, <1>0 DEF EnableInterrupts, TypeIrq
  <2>5. \/ /\ irqThread'[call[p].card] = "test" /\ ~irq_stop'[call[p].card]
           /\ call'[p].pc = "request" /\ call'[p].card = call[p].card
        \/ call[p].card \in unserved'
    BY <1>8, <1>0, <2>1, GoFact DEF EnableInterrupts, ResetStop, TypeIrq
  <2> QED
    BY <1>0, <2>1, <2>2, <2>3, <2>4, <2>5
<1>8a. ASSUME NEW p \in Proc, RequestInterrupts(p) \/ EnableHWInterrupt(p) PROVE ServedInv'
  <2>1. /\ call[p].pc \in {"request", "hwEnable"} /\ call[p].card \in Card /\ Listed' = Listed
        /\ UNCHANGED <<fIrqEnabled, irqThread, irq_stop, unserved>>
        /\ intReq' = [intReq EXCEPT ![call[p].card] = TRUE]
    BY <1>8a, <1>0, ListedKept DEF RequestInterrupts, EnableHWInterrupt, SetIntReq, FlowInv, AddLabel
  <2>2. \A q \in Proc : q # p => call'[q] = call[q]
    BY <1>8a, <1>0, GoFact DEF RequestInterrupts, EnableHWInterrupt, SetIntReq
  <2>3. Listed \subseteq Card
    BY <1>0 DEF TypeList, Listed, Range
  <2>4. intReq'[call[p].card] /\ \A d \in Card : d # call[p].card => intReq'[d] = intReq[d]
    BY <1>0, <2>1 DEF TypeIrq
  <2> QED
    BY <1>0, <2>1, <2>2, <2>3, <2>4
<1>9. ASSUME NEW p \in Proc, AddLeave(p) PROVE ServedInv'
  BY <1>9, <1>0, Alone, GoFact, ListedKept DEF AddLeave, AfterAdd
<1>10. ASSUME NEW p \in Proc, RemoveEnter(p) PROVE ServedInv'
  BY <1>10, <1>0, Alone, GoFact, ListedKept DEF RemoveEnter
<1>11. ASSUME NEW p \in Proc, FindDevice(p) PROVE ServedInv'
  BY <1>11, <1>0, Alone, ListedKept DEF FindDevice, AfterFind, TypeCall, CallRecord
<1>12. ASSUME NEW p \in Proc, DisableInterrupts(p) PROVE ServedInv'
  BY <1>12, <1>0, Alone, GoFact, ListedKept DEF DisableInterrupts
<1>13. ASSUME NEW p \in Proc, JoinThread(p) PROVE ServedInv'
  BY <1>13, <1>0, Alone, GoFact, ListedKept DEF JoinThread, Joined
<1>14. ASSUME NEW p \in Proc, JoinNoThread(p) PROVE ServedInv'
  BY <1>14, <1>0, Alone, GoFact, ListedKept DEF JoinNoThread, Joined
<1>15. ASSUME NEW p \in Proc, CheckOpen(p) PROVE ServedInv'
  <2>1. /\ call[p].pc = "check" /\ call[p].card \in Card /\ Listed' = Listed /\ Listed \subseteq Card
        /\ ~fIrqEnabled[call[p].card]
    BY <1>15, <1>0, ListedKept DEF CheckOpen, FlowInv, RemoveLabel, KnowsInv, Knows, TypeList,
       Listed, Range
  <2>2. \A q \in Proc : q # p => call'[q] = call[q]
    BY <1>15, <1>0, GoFact DEF CheckOpen
  <2>3. /\ UNCHANGED <<intReq, irqThread, irq_stop>> /\ unserved \subseteq unserved'
        /\ \A d \in Card : d # call[p].card => fIrqEnabled'[d] = fIrqEnabled[d]
    BY <1>15, <1>0 DEF CheckOpen, TypeIrq
  <2>4. call[p].card \in unserved' \/ ~fIrqEnabled'[call[p].card]
    BY <1>15, <1>0, <2>1 DEF CheckOpen, TypeIrq
  <2> QED
    BY <1>0, <2>1, <2>2, <2>3, <2>4
<1>16. ASSUME NEW p \in Proc, StopDevice(p) PROVE ServedInv'
  BY <1>16, <1>0, Alone, GoFact, ListedKept DEF StopDevice
<1>17. ASSUME NEW p \in Proc, UnlistDevice(p) PROVE ServedInv'
  <2>1. call[p].pc = "unlist" /\ Listed' = Listed \ {call[p].card}
    BY <1>17, <1>0, ListedUnlist DEF UnlistDevice
  <2>2. \A q \in Proc : q # p => call'[q] = call[q]
    BY <1>17, <1>0, GoFact DEF UnlistDevice
  <2>3. /\ UNCHANGED <<intReq, irqThread, irq_stop, unserved>>
        /\ \A d \in Card : d # call[p].card => fIrqEnabled'[d] = fIrqEnabled[d]
    BY <1>17, <1>0 DEF UnlistDevice, TypeIrq
  <2>4. Listed \subseteq Card
    BY <1>0 DEF TypeList, Listed, Range
  <2> QED
    BY <1>0, <2>1, <2>2, <2>3, <2>4
<1>18. ASSUME NEW p \in Proc, RemoveLeave(p) PROVE ServedInv'
  BY <1>18, <1>0, Alone, GoFact, ListedKept DEF RemoveLeave, AfterRemove
<1>19. ASSUME NEW c \in Card, Restart(c) PROVE ServedInv'
  <2>1. call'["main"] = call["main"] /\ call["user"].pc = "idle"
    BY <1>19, <1>0, UserCall DEF Restart
  <2>2. Listed' = Listed /\ UNCHANGED <<unserved, fIrqEnabled, intReq, irqThread, irq_stop>>
    BY <1>19, ListedKept DEF Restart
  <2> QED
    BY <1>0, <2>1, <2>2
<1>20. ASSUME SearchDevice PROVE ServedInv'
  BY <1>20, <1>0, Alone, GoFact, ListedKept DEF SearchDevice
<1>21. ASSUME RestartLeave PROVE ServedInv'
  BY <1>21, <1>0, Alone, ListedKept DEF RestartLeave, NoCall, TypeCall, CallRecord
<1>22. ASSUME NEW c \in Card, RemoveUnforced(c) PROVE ServedInv'
  <2>1. call'["main"] = call["main"] /\ call["user"].pc = "idle"
    BY <1>22, <1>0, UserCall DEF RemoveUnforced
  <2>2. Listed' = Listed /\ UNCHANGED <<unserved, fIrqEnabled, intReq, irqThread, irq_stop>>
    BY <1>22, ListedKept DEF RemoveUnforced
  <2> QED
    BY <1>0, <2>1, <2>2
<1>23. ASSUME DriverDeinit PROVE ServedInv'
  BY <1>23, <1>0, Alone, ListedKept DEF DriverDeinit, NoCall, BeforeJoin, TypeCall, CallRecord
<1>24. ASSUME JoinPoller PROVE ServedInv'
  BY <1>24, <1>0, Alone, GoFact, ListedKept DEF JoinPoller, JoinedPoller
<1>25. ASSUME JoinNoPoller PROVE ServedInv'
  BY <1>25, <1>0, Alone, GoFact, ListedKept DEF JoinNoPoller, JoinedPoller
<1>26. ASSUME DeinitEnter PROVE ServedInv'
  BY <1>26, <1>0, Alone, GoFact, ListedKept DEF DeinitEnter
<1>27. ASSUME NextDevice PROVE ServedInv'
  BY <1>27, <1>0, Alone, GoFact, ListedKept DEF NextDevice, TypeCall, CallRecord
<1>28. ASSUME FreeDevice PROVE ServedInv'
  BY <1>28, <1>0, Alone, GoFact, ListedKept DEF FreeDevice
<1>29. ASSUME DeinitLeave PROVE ServedInv'
  BY <1>29, <1>0, Alone, GoFact, ListedKept DEF DeinitLeave
<1>30. ASSUME TKitDeinit PROVE ServedInv'
  BY <1>30, <1>0, Alone, ListedDeinit DEF TKitDeinit, NoCall, TypeCall, CallRecord
<1>31. ASSUME NEW c \in Card, IrqTest(c) PROVE ServedInv'
  BY <1>31, <1>0, Alone, ListedKept DEF IrqTest, irqElse
<1>32. ASSUME NEW c \in Card, IrqOccurs(c) PROVE ServedInv'
  BY <1>32, <1>0, Alone, ListedKept DEF IrqOccurs, irqElse
<1>33. ASSUME NEW c \in Card, IrqTimeout(c) PROVE ServedInv'
  BY <1>33, <1>0, Alone, ListedKept DEF IrqTimeout, irqElse
<1>34. ASSUME NEW c \in Card, IrqHandled(c) PROVE ServedInv'
  BY <1>34, <1>0, Alone, ListedKept DEF IrqHandled, irqElse
<1>35. ASSUME UNCHANGED <<call, g_pptDevices, unserved, fIrqEnabled, intReq, irqThread, irq_stop>> PROVE ServedInv'
  BY <1>35, <1>0, ListedKept
<1> HIDE DEF At, ServedInv, Proc, list, irq, KnowsInv, Knows, InnerLabel, FlowInv, FreshInv,
   NotYet, Restarts, FlowMain, FlowUser, AddLabel, RemoveLabel, TypeIrq, ListInv
<1> QED
  BY <1>1, <1>2, <1>3, <1>4, <1>5, <1>6, <1>7, <1>8, <1>8a, <1>9, <1>10, <1>11, <1>12, <1>13, <1>14,
     <1>15, <1>16, <1>17, <1>18, <1>19, <1>20, <1>21, <1>22, <1>23, <1>24, <1>25, <1>26, <1>27,
     <1>28, <1>29, <1>30, <1>31, <1>32, <1>33, <1>34, <1>35 DEF Next, MainStep, UserStep, Step,
     AddDevice, RemoveDevice, Deinit, IrqThread, App, PollingThread, Proc, vars, config, list,
     irq, polling, apps, PollTest, PollEnter, PollLoop, PollCos, PollLeave, ChannelOpen, OpenScan,
     OpenCount, ChannelClose

(* The polling thread serves a listed device without interrupts. *)
LEMMA PollStep ==
  ASSUME DriverInv, [Next]_vars
  PROVE  PollInv'
<1>0. TypeCall /\ TypeList /\ FlowInv /\ LockInv /\ KnowsInv /\ FreshInv /\ TypeIrq /\ TypePoll /\ ListInv /\ PollInv
  BY TypeParts DEF DriverInv
<1> USE DEF At, PollInv, Proc, list, irq, KnowsInv, Knows, PollHolds, InnerLabel, FlowInv,
   FreshInv, NotYet, Restarts, FlowMain, FlowUser, AddLabel, RemoveLabel, TypeIrq, TypePoll
<1>1. ASSUME DriverInit PROVE PollInv'
  BY <1>1, <1>0, Alone, DriverInitCall, ListedKept DEF DriverInit, NoCall
<1>2. ASSUME NEW p \in Proc, StartDevice(p) PROVE PollInv'
  <2>1. call[p].card \notin Listed /\ UNCHANGED <<g_pptDevices, poller>>
        /\ \E b : fIrqEnabled' = [fIrqEnabled EXCEPT ![call[p].card] = b]
    BY <1>2, <1>0 DEF StartDevice, KnowsInv, Knows, polling
  <2>2. \A i \in DOMAIN g_pptDevices : g_pptDevices[i] \in Listed /\ g_pptDevices[i] \in Card
    BY <1>0 DEF TypeList, Listed, Range
  <2> QED
    BY <1>0, <2>1, <2>2 DEF TypeIrq
<1>3. ASSUME NEW p \in Proc, InsertDevice(p) PROVE PollInv'
  <2>1. ~PollHolds /\ poller' = poller
    BY <1>3, <1>0, Alone DEF InsertDevice, InnerLabel, polling
  <2> QED
    BY <2>1 DEF PollHolds
<1>4. ASSUME NEW p \in Proc, JoinThread(p) PROVE PollInv'
  <2>1. ~PollHolds /\ poller' = poller
    BY <1>4, <1>0, Alone DEF JoinThread, Joined, InnerLabel, polling
  <2> QED
    BY <2>1 DEF PollHolds
<1>5. ASSUME NEW p \in Proc, JoinNoThread(p) PROVE PollInv'
  <2>1. ~PollHolds /\ poller' = poller
    BY <1>5, <1>0, Alone DEF JoinNoThread, Joined, InnerLabel, polling
  <2> QED
    BY <2>1 DEF PollHolds
<1>6. ASSUME NEW p \in Proc, CheckOpen(p) PROVE PollInv'
  <2>1. ~PollHolds /\ poller' = poller
    BY <1>6, <1>0, Alone DEF CheckOpen, InnerLabel, polling
  <2> QED
    BY <2>1 DEF PollHolds
<1>7. ASSUME NEW p \in Proc, UnlistDevice(p) PROVE PollInv'
  <2>1. ~PollHolds /\ poller' = poller
    BY <1>7, <1>0, Alone DEF UnlistDevice, InnerLabel, polling
  <2> QED
    BY <2>1 DEF PollHolds
<1>8. ASSUME JoinPoller PROVE PollInv'
  BY <1>8, <1>0, Alone, GoFact, ListedKept DEF JoinPoller, JoinedPoller
<1>9. ASSUME TKitDeinit PROVE PollInv'
  BY <1>9, <1>0, ListedDeinit DEF TKitDeinit, polling
<1>10. ASSUME PollTest PROVE PollInv'
  BY <1>10, <1>0, Alone, ListedKept DEF PollTest
<1>11. ASSUME PollEnter PROVE PollInv'
  BY <1>11, <1>0, Alone, ListedKept DEF PollEnter
<1>12. ASSUME PollLoop PROVE PollInv'
  BY <1>12, <1>0, Alone, ListedKept DEF PollLoop
<1>13. ASSUME PollCos PROVE PollInv'
  BY <1>13, <1>0, Alone, ListedKept DEF PollCos
<1>14. ASSUME PollLeave PROVE PollInv'
  BY <1>14, <1>0, Alone, ListedKept DEF PollLeave
<1>15. ASSUME UNCHANGED <<poller, g_pptDevices, fIrqEnabled>> PROVE PollInv'
  BY <1>15, <1>0, ListedKept
<1> HIDE DEF At, PollInv, Proc, list, irq, KnowsInv, Knows, PollHolds, InnerLabel, FlowInv,
   FreshInv, NotYet, Restarts, FlowMain, FlowUser, AddLabel, RemoveLabel, TypeIrq, TypePoll
<1> QED
  BY <1>1, <1>2, <1>3, <1>4, <1>5, <1>6, <1>7, <1>8, <1>9, <1>10, <1>11, <1>12, <1>13, <1>14,
     <1>15 DEF Next, MainStep, UserStep, Step, AddDevice, RemoveDevice, Deinit, IrqThread, App,
     PollingThread, Proc, vars, config, list, irq, polling, apps, DriverAddDevice, DriverAdded,
     AddEnter, DummyCycle, EnableInterrupts, AddLeave, RemoveEnter, FindDevice, DisableInterrupts,
     StopDevice, RemoveLeave, Restart, SearchDevice, RestartLeave, RemoveUnforced, DriverDeinit,
     JoinNoPoller, DeinitEnter, NextDevice, FreeDevice, DeinitLeave, IrqTest, IrqOccurs,
     IrqTimeout, IrqHandled, ChannelOpen, OpenScan, OpenCount, ChannelClose, BeforeJoin,
     JoinedPoller, irqElse, EnableHWInterrupt,
     RequestInterrupts, SetIntReq

(* An open handle to an existing channel is counted. *)
LEMMA AppStep ==
  ASSUME DriverInv, [Next]_vars
  PROVE  AppInv'
<1>0. TypeCall /\ TypeList /\ FlowInv /\ LockInv /\ KnowsInv /\ FreshInv /\ TypeApp /\ AppInv
  BY TypeParts DEF DriverInv
<1> USE DEF At, AppInv, AppBusy, Proc, apps, list, KnowsInv, Knows, FlowInv, FreshInv, NotYet,
   Restarts, FlowMain, FlowUser, AddLabel, RemoveLabel, TypeApp
<1>1. ASSUME DriverInit PROVE AppInv'
  BY <1>1, <1>0, DriverInitCall, ListedKept DEF DriverInit, NoCall
<1>2. ASSUME DriverAddDevice PROVE AppInv'
  BY <1>2, <1>0, GoFact, ListedKept DEF DriverAddDevice, TypeCall, CallRecord
<1>3. ASSUME DriverAdded PROVE AppInv'
  BY <1>3, <1>0, GoFact, ListedKept DEF DriverAdded
<1>4. ASSUME NEW p \in Proc, StartDevice(p) PROVE AppInv'
  BY <1>4, <1>0, GoFact, ListedKept DEF StartDevice, AfterAdd
<1>5. ASSUME NEW p \in Proc, AddEnter(p) PROVE AppInv'
  BY <1>5, <1>0, GoFact, ListedKept DEF AddEnter
<1>6. ASSUME NEW p \in Proc, InsertDevice(p) PROVE AppInv'
  BY <1>6, <1>0, GoFact, ListedInsert DEF InsertDevice, EnablingStep
<1>7. ASSUME NEW p \in Proc, DummyCycle(p) PROVE AppInv'
  BY <1>7, <1>0, GoFact, ListedKept DEF DummyCycle, EnablingStep
<1>8. ASSUME NEW p \in Proc, EnableInterrupts(p) PROVE AppInv'
  BY <1>8, <1>0, GoFact, ListedKept DEF EnableInterrupts, EnablingStep, ResetStop
<1>8a. ASSUME NEW p \in Proc, RequestInterrupts(p) \/ EnableHWInterrupt(p) PROVE AppInv'
  BY <1>8a, <1>0, GoFact, ListedKept DEF RequestInterrupts, EnableHWInterrupt, SetIntReq, EnablingStep
<1>9. ASSUME NEW p \in Proc, AddLeave(p) PROVE AppInv'
  BY <1>9, <1>0, GoFact, ListedKept DEF AddLeave, AfterAdd
<1>10. ASSUME NEW p \in Proc, RemoveEnter(p) PROVE AppInv'
  BY <1>10, <1>0, GoFact, ListedKept DEF RemoveEnter
<1>11. ASSUME NEW p \in Proc, FindDevice(p) PROVE AppInv'
  BY <1>11, <1>0, ListedKept DEF FindDevice, AfterFind, TypeCall, CallRecord
<1>12. ASSUME NEW p \in Proc, DisableInterrupts(p) PROVE AppInv'
  BY <1>12, <1>0, GoFact, ListedKept DEF DisableInterrupts
<1>13. ASSUME NEW p \in Proc, JoinThread(p) PROVE AppInv'
  BY <1>13, <1>0, GoFact, ListedKept DEF JoinThread, Joined
<1>14. ASSUME NEW p \in Proc, JoinNoThread(p) PROVE AppInv'
  BY <1>14, <1>0, GoFact, ListedKept DEF JoinNoThread, Joined
<1>15. ASSUME NEW p \in Proc, CheckOpen(p) PROVE AppInv'
  BY <1>15, <1>0, GoFact, ListedKept DEF CheckOpen
<1>16. ASSUME NEW p \in Proc, StopDevice(p) PROVE AppInv'
  BY <1>16, <1>0, GoFact, ListedKept DEF StopDevice
<1>17. ASSUME NEW p \in Proc, UnlistDevice(p) PROVE AppInv'
  BY <1>17, <1>0, GoFact, ListedUnlist DEF UnlistDevice
<1>18. ASSUME NEW p \in Proc, RemoveLeave(p) PROVE AppInv'
  BY <1>18, <1>0, GoFact, ListedKept DEF RemoveLeave, AfterRemove
<1>19. ASSUME NEW c \in Card, Restart(c) PROVE AppInv'
  BY <1>19, <1>0, UserCall, ListedKept DEF Restart, NoCall, AppBusy
<1>20. ASSUME SearchDevice PROVE AppInv'
  BY <1>20, <1>0, GoFact, ListedKept DEF SearchDevice
<1>21. ASSUME RestartLeave PROVE AppInv'
  BY <1>21, <1>0, ListedKept DEF RestartLeave, NoCall, TypeCall, CallRecord
<1>22. ASSUME NEW c \in Card, RemoveUnforced(c) PROVE AppInv'
  <2>1. call'["user"].op = "remove" /\ UNCHANGED <<app, started, ulOpenCount>>
    BY <1>22, <1>0 DEF RemoveUnforced, NoCall, TypeCall, CallRecord
  <2> QED
    BY <1>0, <2>1
<1>23. ASSUME DriverDeinit PROVE AppInv'
  BY <1>23, <1>0, ListedKept DEF DriverDeinit, NoCall, BeforeJoin, TypeCall, CallRecord
<1>24. ASSUME JoinPoller PROVE AppInv'
  BY <1>24, <1>0, GoFact, ListedKept DEF JoinPoller, JoinedPoller
<1>25. ASSUME JoinNoPoller PROVE AppInv'
  BY <1>25, <1>0, GoFact, ListedKept DEF JoinNoPoller, JoinedPoller
<1>26. ASSUME DeinitEnter PROVE AppInv'
  BY <1>26, <1>0, GoFact, ListedKept DEF DeinitEnter
<1>27. ASSUME NextDevice PROVE AppInv'
  BY <1>27, <1>0, GoFact, ListedKept DEF NextDevice, TypeCall, CallRecord
<1>28. ASSUME FreeDevice PROVE AppInv'
  BY <1>28, <1>0, GoFact, ListedKept DEF FreeDevice
<1>29. ASSUME DeinitLeave PROVE AppInv'
  BY <1>29, <1>0, GoFact, ListedKept DEF DeinitLeave
<1>30. ASSUME TKitDeinit PROVE AppInv'
  BY <1>30, <1>0, ListedDeinit DEF TKitDeinit, NoCall, TypeCall, CallRecord
<1>31. ASSUME NEW c \in Card, ChannelOpen(c) PROVE AppInv'
  BY <1>31, <1>0, ListedKept DEF ChannelOpen, NoApp
<1>32. ASSUME OpenScan PROVE AppInv'
  BY <1>32, <1>0, ListedKept DEF OpenScan, NoApp
<1>33. ASSUME OpenCount PROVE AppInv'
  BY <1>33, <1>0, ListedKept DEF OpenCount, Count
<1>34. ASSUME ChannelClose PROVE AppInv'
  BY <1>34, <1>0, ListedKept DEF ChannelClose, Count, NoApp
<1>35. ASSUME UNCHANGED <<call, started, ulOpenCount, app>> PROVE AppInv'
  BY <1>35, <1>0
<1> HIDE DEF At, AppInv, AppBusy, Proc, apps, list, KnowsInv, Knows, FlowInv, FreshInv, NotYet,
   Restarts, FlowMain, FlowUser, AddLabel, RemoveLabel, TypeApp
<1> QED
  BY <1>1, <1>2, <1>3, <1>4, <1>5, <1>6, <1>7, <1>8, <1>8a, <1>9, <1>10, <1>11, <1>12, <1>13, <1>14,
     <1>15, <1>16, <1>17, <1>18, <1>19, <1>20, <1>21, <1>22, <1>23, <1>24, <1>25, <1>26, <1>27,
     <1>28, <1>29, <1>30, <1>31, <1>32, <1>33, <1>34, <1>35 DEF Next, MainStep, UserStep, Step,
     AddDevice, RemoveDevice, Deinit, IrqThread, App, PollingThread, Proc, vars, config, list,
     irq, polling, apps, PollTest, PollEnter, PollLoop, PollCos, PollLeave, IrqTest, IrqOccurs,
     IrqTimeout, IrqHandled, irqElse

-----------------------------------------------------------------------------
(* The theorems.                                                            *)

(* The invariant holds in the initial states. *)
LEMMA InvInit == Init => DriverInv
<1> SUFFICES ASSUME Init PROVE DriverInv
  OBVIOUS
<1>1. Listed = {} /\ IsInjective(g_pptDevices) /\ g_pptDevices \in Seq(Card)
  BY DEF Init, Listed, Range, IsInjective
<1>2. TypeConfig
  BY BoundsAssumption DEF Init, TypeConfig, Card
<1>3. TypeList
  BY <1>1 DEF Init, TypeList
<1>4. TypePoll
  <2>1. poller = [pc |-> "none", idx |-> 1]
    BY DEF Init
  <2>2. polling_thread_stop \in BOOLEAN /\ polling_thread_running \in BOOLEAN
    BY Zenon DEF Init
  <2> QED
    BY <2>1, <2>2 DEF TypePoll
<1>5. TypeLock
  BY DEF Init, TypeLock
<1>6. TypeIrq
  BY DEF Init, TypeIrq
<1>7. TypeApp /\ TypeUsed
  BY BoundsAssumption DEF Init, TypeApp, TypeUsed, NoApp, NoCard
<1>8. TypeCall
  BY DEF Init, TypeCall, CallRecord, NoCall, NoCard, Label
<1>9. TypeOK
  BY <1>2, <1>3, <1>6, <1>7, <1>8, <1>5, <1>4, TypeParts
<1>10. \A p \in Proc : call[p].op = "none" /\ call[p].pc = "idle"
  BY DEF Init, NoCall
<1>11. LockInv
  BY <1>10 DEF Init, LockInv, Held, Depth, Outer, InnerLabel, PollHolds
<1>12. FlowInv
  BY <1>10 DEF Init, FlowInv, FlowMain, FlowUser, AddLabel, RemoveLabel, Proc
<1>13. FreshInv /\ AppInv
  BY <1>1, <1>10 DEF Init, FreshInv, Restarts, AppInv, NoApp, AppBusy, Proc
<1>14. KnowsInv
  BY <1>10 DEF KnowsInv, Knows
<1>15. ListInv /\ ServedInv /\ PollInv
  BY <1>1 DEF Init, ListInv, ServedInv, PollInv
<1> QED
  BY <1>9, <1>11, <1>12, <1>13, <1>14, <1>15 DEF DriverInv

(* Every step keeps the invariant. *)
LEMMA InvStep ==
  ASSUME DriverInv, [Next]_vars
  PROVE  DriverInv'
<1>1. TypeOK'
  BY TypeParts, TypeCallStep, TypeConfigStep, TypeLockStep, TypeListStep, TypeIrqStep, TypePollStep,
     TypeAppStep, TypeUsedStep DEF TypeOK, TypeConfig, TypeLock, TypeList, TypeIrq, TypePoll,
     TypeApp, TypeUsed, TypeCall, CallRecord
<1> QED
  BY <1>1, LockStep, FlowStep, FreshStep, KnowsStep, ListStep, ServedStep, PollStep, AppStep
     DEF DriverInv

(* The inductive invariant holds in every state. *)
THEOREM Invariance == Spec => []DriverInv
  BY InvInit, InvStep, PTL DEF Spec

(* Type correctness; in particular no device is ever listed twice, the lock *)
(* is left as often as it is entered, and no open count falls below zero.   *)
THEOREM TypeCorrect == Spec => []TypeOK
<1>1. DriverInv => TypeOK
  BY DEF DriverInv
<1> QED
  BY <1>1, Invariance, PTL

(* The handlers of a device run in one thread at a time: the dummy cycle,   *)
(* the interrupt thread and the polling thread exclude each other.          *)
LEMMA OneServer ==
  ASSUME DriverInv, NEW c \in Card
  PROVE  /\ \E x : Servers(c) \subseteq {x}
         /\ Servers(c) # {} => c \in started
<1>0. /\ TypePoll /\ TypeList /\ TypeIrq /\ LockInv /\ KnowsInv /\ ListInv /\ PollInv /\ FlowInv
  BY TypeParts DEF DriverInv
<1>1. ASSUME NEW p \in Proc, call[p].pc = "dummy", call[p].card = c
      PROVE  Servers(c) = {p} /\ c \in started
  <2>1. ~PollHolds /\ \A q \in Proc : q # p => call[q].pc \notin InnerLabel
    BY <1>0, <1>1, Alone DEF InnerLabel
  <2>2. c \in Listed /\ irqThread[c] = "none"
    BY <1>0, <1>1 DEF KnowsInv, Knows
  <2>3. c \in started
    BY <1>0, <1>1, <2>1, <2>2 DEF ListInv, InnerLabel
  <2> QED
    BY <1>1, <2>1, <2>2, <2>3 DEF Servers, InnerLabel, PollHolds
<1>2. ASSUME \A p \in Proc : ~(call[p].pc = "dummy" /\ call[p].card = c),
             irqThread[c] = "handlers"
      PROVE  Servers(c) = {"irq"} /\ c \in started
  <2>1. c \in Listed /\ fIrqEnabled[c]
    BY <1>0, <1>2 DEF ListInv
  <2>2. ~(poller.pc = "cos" /\ g_pptDevices[poller.idx] = c)
    BY <1>0, <2>1 DEF PollInv
  <2>3. c \in started
    BY <1>0, <2>1 DEF ListInv, KnowsInv, Knows
  <2> QED
    BY <1>2, <2>2, <2>3 DEF Servers
<1>3. ASSUME \A p \in Proc : ~(call[p].pc = "dummy" /\ call[p].card = c),
             irqThread[c] # "handlers"
      PROVE  /\ Servers(c) \subseteq {Poller}
             /\ Servers(c) # {} => c \in started
  <2>1. Servers(c) = IF poller.pc = "cos" /\ g_pptDevices[poller.idx] = c THEN {Poller} ELSE {}
    BY <1>3 DEF Servers
  <2>2. ASSUME poller.pc = "cos", g_pptDevices[poller.idx] = c PROVE c \in started
    <3>1. c \in Listed
      BY <1>0, <2>2 DEF PollInv, Listed, Range
    <3>2. \A p \in Proc : call[p].pc # "unlist"
      BY <1>0, <2>2, PollerAlone DEF PollHolds, InnerLabel
    <3> QED
      BY <1>0, <3>1, <3>2 DEF ListInv
  <2> QED
    BY <2>1, <2>2
<1> QED
  BY <1>1, <1>2, <1>3

(* HandlersSafe: the handlers run in one thread at a time and only while    *)
(* the channels exist, and the interrupt thread only while the instance     *)
(* exists, whatever restarts, removals and the driver's end interleave.     *)
THEOREM HandlersAreSafe == Spec => []HandlersSafe
<1>1. ASSUME DriverInv PROVE HandlersSafe
  <2> SUFFICES ASSUME NEW c \in Card
               PROVE  /\ Cardinality(Servers(c)) <= 1
                      /\ Servers(c) # {} => c \in started
                      /\ irqThread[c] \in {"test", "wait", "handlers"} => c \in allocated
    BY DEF HandlersSafe
  <2>1. PICK x : Servers(c) \subseteq {x}
    BY <1>1, OneServer
  <2>2. Cardinality(Servers(c)) <= 1
    <3>1. IsFiniteSet({x}) /\ Cardinality({x}) = 1
      BY FS_Singleton
    <3>2. Servers(c) \in SUBSET {x}
      BY <2>1
    <3>3. Cardinality(Servers(c)) <= Cardinality({x})
      BY <3>1, <3>2, FS_Subset
    <3> QED
      BY <3>1, <3>3
  <2>3. irqThread[c] # "none" => c \in allocated
    BY <1>1 DEF DriverInv, ListInv
  <2> QED
    BY <1>1, <2>2, <2>3, OneServer
<1> QED
  BY <1>1, Invariance, PTL

(* InterruptsMatch: while nobody holds the lock, a listed device in         *)
(* interrupt mode is served, and an unlisted one is quiet.                  *)
THEOREM InterruptsAreServed == Spec => []InterruptsMatch
<1>1. ASSUME DriverInv PROVE InterruptsMatch
  <2> SUFFICES ASSUME tkitLock.owner = NoOwner, NEW c \in allocated
               PROVE  IF c \in Listed
                        THEN fIrqEnabled[c] /\ c \notin unserved =>
                               /\ irqThread[c] \in {"test", "wait", "handlers"} /\ ~irq_stop[c]
                               /\ intReq[c] \/ irqThread[c] = "handlers"
                        ELSE irqThread[c] = "none" /\ ~intReq[c]
    BY DEF InterruptsMatch
  <2>1. TypeList /\ LockInv /\ ListInv /\ ServedInv
    BY <1>1, TypeParts DEF DriverInv
  <2>2. \A p \in Proc : call[p].pc \notin InnerLabel
    BY <2>1 DEF LockInv, Held, Depth, Proc, NoOwner
  <2>3. c \in Card
    BY <2>1 DEF TypeList
  <2> QED
    BY <2>1, <2>2, <2>3 DEF ListInv, ServedInv, InnerLabel
<1> QED
  BY <1>1, Invariance, PTL

===============================================================================
