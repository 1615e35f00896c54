------------------------------ MODULE CifxDriver ------------------------------
(***************************************************************************)
(* Life cycle of the driver and of its devices: cifXDriverInit and         *)
(* cifXDriverDeinit (cifxlinux.c), xDriverRestartDevice, the toolkit's     *)
(* cifXTKitAddDevice and cifXTKitRemoveDevice (cifXInit.c), the polling    *)
(* thread, and one interrupt thread per device (os_linux.c), all of which  *)
(* share the device list under the recursive lock g_pvTkitLock.            *)
(*                                                                         *)
(* "main" initialises and ends the driver, "user" restarts and removes     *)
(* devices, and "app" opens and closes one channel at a time. As the       *)
(* comment on cifXStopDevice demands, no handle is open, and none is being *)
(* opened, when a device is restarted or the driver ended; a removal       *)
(* without force may meet open handles. The driver is ended when no other  *)
(* call is running. The cards have the full 64 KByte DPM.                  *)
(***************************************************************************)
EXTENDS Naturals, Sequences, FiniteSets, Functions

CONSTANTS
  NumCards,    \* cards the driver finds
  Config,      \* configurations: interrupts per card, and the polling thread
  MaxCalls,    \* restarts and removals by "user"
  MaxOpens,    \* channels opened by "app"
  MaxFaults    \* devices and threads that cannot be started

ASSUME BoundsAssumption ==
  /\ NumCards \in Nat \ {0}
  /\ Config \subseteq [irq : [1 .. NumCards -> BOOLEAN], poll : BOOLEAN]
  /\ MaxCalls \in Nat /\ MaxOpens \in Nat /\ MaxFaults \in Nat

Card == 1 .. NumCards
Proc == {"main", "user"}
Poller == "poll"
NoOwner == "nobody"
NoCard == 0

VARIABLES
  fIrqWanted,             \* card -> USER_GetInterruptEnable, configuration
  fPollWanted,            \* poll_interval is not DISABLETHREAD, configuration
  fInitialized,           \* g_tDriverInfo.fInitialized, and g_pvTkitLock exists
  tkitLock,               \* owner and depth of g_pvTkitLock
  g_pptDevices,           \* the list of devices the toolkit handles
  allocated,              \* cards whose device instance exists
  started,                \* cards whose channels, locks and events exist
  fIrqEnabled,            \* card -> its fIrqEnabled
  intReq,                 \* card -> MSK_IRQ_EN0_INT_REQ is set in its DPM
  irq_stop,               \* card -> stop flag of its interrupt thread
  irqThread,              \* card -> where its interrupt thread is
  polling_thread_stop,
  polling_thread_running,
  poller,                 \* where the polling thread is, and its device index
  call,                   \* the call each of Proc is executing
  app,                    \* where the opening thread is
  ulOpenCount,            \* card -> open count of its channel
  unserved,               \* cards left without interrupt thread by a refusal or an error
  calls, opens, faults    \* used up of the bounds

config == <<fIrqWanted, fPollWanted>>
list == <<g_pptDevices, allocated, started>>
irq == <<fIrqEnabled, intReq, irq_stop, irqThread, unserved>>
polling == <<polling_thread_stop, polling_thread_running, poller>>
apps == <<app, ulOpenCount, opens>>
vars == <<config, fInitialized, tkitLock, list, irq, polling, call, apps, calls, faults>>

Listed == Range(g_pptDevices)

NoCall == [op |-> "none", pc |-> "idle", card |-> NoCard, irq |-> FALSE]

Label ==
  {"idle", "start", "addEnter", "insert", "dummy", "enable", "request", "hwEnable", "addLeave",
   "added", "failed", "rmEnter", "find", "disable", "join", "check", "stop", "unlist", "rmLeave", "removed",
   "next", "search", "rsLeave", "pollJoin", "dnEnter", "device", "dnLeave", "tkit",
   "up", "down"}

-----------------------------------------------------------------------------
(* The recursive lock: OS_EnterLock, OS_LeaveLock.                          *)

CanEnter(t) == tkitLock.owner \in {t, NoOwner}

EnterLock(t) ==
  /\ CanEnter(t)
  /\ tkitLock' = [owner |-> t, depth |-> tkitLock.depth + 1]

(* Mutant: leaving once releases a lock entered twice. *)
LeaveLockFreed(t) == tkitLock' = [owner |-> NoOwner, depth |-> tkitLock.depth - 1]

LeaveLock(t) ==
  tkitLock' = [owner |-> IF tkitLock.depth = 1 THEN NoOwner ELSE t,
               depth |-> tkitLock.depth - 1]

At(p, label) == call[p].pc = label

Go(p, label) == call' = [call EXCEPT ![p].pc = label]

\* Where a finished cifXTKitRemoveDevice or cifXTKitAddDevice returns to.
AfterRemove(op) ==
  CASE op = "restart" -> "start"
    [] op = "deinit" -> "removed"
    [] OTHER -> "idle"

AfterAdd(op, ok) ==
  CASE op = "restart" -> "rsLeave"
    [] OTHER -> IF ok THEN "added" ELSE "failed"

-----------------------------------------------------------------------------
(* cifXDriverInit: the toolkit and the polling thread, then every card.     *)

DriverInit ==
  /\ At("main", "idle") /\ ~fInitialized
  /\ fInitialized' = TRUE
  /\ polling_thread_running' = fPollWanted
  /\ polling_thread_stop' = (polling_thread_stop /\ ~fPollWanted)
  /\ \/ /\ poller' = [poller EXCEPT !.pc = IF fPollWanted THEN "test" ELSE "none"]
        /\ call' = [call EXCEPT !["main"] = [NoCall EXCEPT !.op = "init", !.pc = "next"]]
        /\ UNCHANGED faults
     \/ /\ fPollWanted /\ faults < MaxFaults     \* pthread_create fails
        /\ call' = [call EXCEPT !["main"] = [NoCall EXCEPT !.pc = "up"]]
        /\ faults' = faults + 1
        /\ UNCHANGED poller
  /\ UNCHANGED <<config, tkitLock, list, irq, apps, calls>>

\* cifXDriverAddDevice up to cifXTKitAddDevice: the instance is allocated and
\* the interrupt of the card, whatever it was, is disabled.
DriverAddDevice ==
  /\ At("main", "next")
  /\ LET c == call["main"].card + 1 IN
       IF c \in Card
         THEN /\ call' = [call EXCEPT !["main"].card = c, !["main"].pc = "start"]
              /\ allocated' = allocated \cup {c}
              /\ intReq' = [intReq EXCEPT ![c] = FALSE]
         ELSE /\ Go("main", "up")
              /\ UNCHANGED <<allocated, intReq>>
  /\ UNCHANGED <<config, fInitialized, tkitLock, g_pptDevices, started, fIrqEnabled, irq_stop,
                 irqThread, unserved, polling, apps, calls, faults>>

\* The rest of cifXDriverAddDevice: a card that could not be added is freed.
DriverAdded ==
  /\ call["main"].pc \in {"added", "failed"}
  /\ allocated' = IF At("main", "added") THEN allocated ELSE allocated \ {call["main"].card}
  /\ Go("main", "next")
  /\ UNCHANGED <<config, fInitialized, tkitLock, g_pptDevices, started, irq, polling, apps,
                 calls, faults>>

-----------------------------------------------------------------------------
(* cifXTKitAddDevice.                                                       *)

\* cifXStartDevice, outside of the lock (which it takes for a moment when it
\* reads the alias). On success the channels exist and fIrqEnabled is set; it
\* fails like the hwif_init that precedes it.
StartDevice(p) ==
  /\ At(p, "start") /\ CanEnter(p)
  /\ LET c == call[p].card IN
       \/ /\ started' = started \cup {c}
          /\ fIrqEnabled' = [fIrqEnabled EXCEPT ![c] = fIrqWanted[c]]
          /\ Go(p, "addEnter")
          /\ UNCHANGED faults
       \/ /\ faults < MaxFaults
          /\ faults' = faults + 1
          /\ fIrqEnabled' = [fIrqEnabled EXCEPT ![c] = FALSE]
          /\ Go(p, AfterAdd(call[p].op, FALSE))
          /\ UNCHANGED started
  /\ UNCHANGED <<config, fInitialized, tkitLock, g_pptDevices, allocated, intReq, irq_stop,
                 irqThread, unserved, polling, apps, calls>>

AddEnter(p) ==
  /\ At(p, "addEnter")
  /\ EnterLock(p)
  /\ Go(p, "insert")
  /\ UNCHANGED <<config, fInitialized, list, irq, polling, apps, calls, faults>>

(* Mutant: the interrupt thread is created before the dummy cycle. *)
EnablingStepSwapped(label) ==
  CASE label = "insert" -> "enable" [] label = "hwEnable" -> "dummy" [] OTHER -> "addLeave"

\* The order in which a device with interrupts is brought into operation.
EnablingStep(label) ==
  CASE label = "insert" -> "dummy" [] label = "dummy" -> "enable" [] OTHER -> "addLeave"

InsertDevice(p) ==
  /\ At(p, "insert")
  /\ g_pptDevices' = Append(g_pptDevices, call[p].card)
  /\ Go(p, IF fIrqEnabled[call[p].card] THEN EnablingStep("insert") ELSE "addLeave")
  /\ UNCHANGED <<config, fInitialized, tkitLock, allocated, started, irq, polling, apps, calls,
                 faults>>

\* The dummy interrupt cycle runs the handlers in the calling thread.
DummyCycle(p) ==
  /\ At(p, "dummy")
  /\ Go(p, EnablingStep("dummy"))
  /\ UNCHANGED <<config, fInitialized, tkitLock, list, irq, polling, apps, calls, faults>>

(* Mutant: the stop flag of the previous thread is not reset. *)
ResetStopKept(c) == irq_stop[c]

ResetStop(c) == FALSE

\* OS_EnableInterrupts: the thread runs as soon as it exists. That it could
\* not be created is only printed.
EnableInterrupts(p) ==
  /\ At(p, "enable")
  /\ LET c == call[p].card IN
       /\ irq_stop' = [irq_stop EXCEPT ![c] = ResetStop(c)]
       /\ \/ /\ irqThread' = [irqThread EXCEPT ![c] = "test"]
             /\ unserved' = unserved \ {c}
             /\ Go(p, "request")
             /\ UNCHANGED faults
          \/ /\ faults < MaxFaults
             /\ faults' = faults + 1
             /\ unserved' = unserved \cup {c}
             /\ Go(p, "hwEnable")
             /\ UNCHANGED irqThread
  /\ UNCHANGED <<config, fInitialized, tkitLock, list, fIrqEnabled, intReq, polling, apps, calls>>

\* MSK_IRQ_EN0_INT_REQ is set twice: at the end of OS_EnableInterrupts, and by
\* cifXTKitEnableHWInterrupt, also if there is no thread.
SetIntReq(p, from, to) ==
  /\ At(p, from)
  /\ intReq' = [intReq EXCEPT ![call[p].card] = TRUE]
  /\ Go(p, to)
  /\ UNCHANGED <<config, fInitialized, tkitLock, list, fIrqEnabled, irq_stop, irqThread, unserved,
                 polling, apps, calls, faults>>

RequestInterrupts(p) == SetIntReq(p, "request", "hwEnable")

EnableHWInterrupt(p) == SetIntReq(p, "hwEnable", EnablingStep("hwEnable"))

AddLeave(p) ==
  /\ At(p, "addLeave")
  /\ LeaveLock(p)
  /\ Go(p, AfterAdd(call[p].op, TRUE))
  /\ UNCHANGED <<config, fInitialized, list, irq, polling, apps, calls, faults>>

AddDevice(p) ==
  StartDevice(p) \/ AddEnter(p) \/ InsertDevice(p) \/ DummyCycle(p) \/ EnableInterrupts(p)
    \/ RequestInterrupts(p) \/ EnableHWInterrupt(p) \/ AddLeave(p)

-----------------------------------------------------------------------------
(* cifXTKitRemoveDevice; "remove" is without force, the others force.       *)

RemoveEnter(p) ==
  /\ At(p, "rmEnter")
  /\ EnterLock(p)
  /\ Go(p, "find")
  /\ UNCHANGED <<config, fInitialized, list, irq, polling, apps, calls, faults>>

AfterFind(c) ==
  CASE c \notin Listed -> "rmLeave"
    [] c \in Listed /\ fIrqEnabled[c] -> "disable"
    [] OTHER -> "check"

FindDevice(p) ==
  /\ At(p, "find")
  /\ LET c == call[p].card IN
       call' = [call EXCEPT ![p].irq = fIrqEnabled[c], ![p].pc = AfterFind(c)]
  /\ UNCHANGED <<config, fInitialized, tkitLock, list, irq, polling, apps, calls, faults>>

\* cifXTKitDisableHWInterrupt, and OS_DisableInterrupts up to the join.
DisableInterrupts(p) ==
  /\ At(p, "disable")
  /\ intReq' = [intReq EXCEPT ![call[p].card] = FALSE]
  /\ irq_stop' = [irq_stop EXCEPT ![call[p].card] = TRUE]
  /\ Go(p, "join")
  /\ UNCHANGED <<config, fInitialized, tkitLock, list, fIrqEnabled, irqThread, unserved, polling,
                 apps, calls, faults>>

\* pthread_join, then the enable bit is cleared again: the thread may have set
\* it on its way out.
Joined(p, c) ==
  /\ intReq' = [intReq EXCEPT ![c] = FALSE]
  /\ fIrqEnabled' = [fIrqEnabled EXCEPT ![c] = FALSE]
  /\ Go(p, "check")
  /\ UNCHANGED <<config, fInitialized, tkitLock, list, irq_stop, unserved, polling, apps, calls,
                 faults>>

JoinThread(p) ==
  /\ At(p, "join") /\ irqThread[call[p].card] = "ended"
  /\ irqThread' = [irqThread EXCEPT ![call[p].card] = "none"]
  /\ Joined(p, call[p].card)

\* The thread was never created, or has been joined before: what pthread_join
\* does is undefined. It may return, and nothing says that it does.
JoinNoThread(p) ==
  /\ At(p, "join") /\ irqThread[call[p].card] = "none"
  /\ Joined(p, call[p].card)
  /\ UNCHANGED irqThread

\* Whether the device may be stopped. A refusal restores fIrqEnabled, but
\* neither the thread nor the interrupt of the card.
CheckOpen(p) ==
  /\ At(p, "check")
  /\ LET c == call[p].card IN
       IF call[p].op # "remove" \/ ulOpenCount[c] = 0
         THEN /\ Go(p, "stop")
              /\ UNCHANGED <<fIrqEnabled, unserved>>
         ELSE /\ fIrqEnabled' = [fIrqEnabled EXCEPT ![c] = call[p].irq]
              /\ unserved' = IF call[p].irq THEN unserved \cup {c} ELSE unserved
              /\ Go(p, "rmLeave")
  /\ UNCHANGED <<config, fInitialized, tkitLock, list, intReq, irq_stop, irqThread, polling, apps,
                 calls, faults>>

\* cifXStopDevice: first the channels and their objects ...
StopDevice(p) ==
  /\ At(p, "stop")
  /\ started' = started \ {call[p].card}
  /\ ulOpenCount' = [ulOpenCount EXCEPT ![call[p].card] = 0]
  /\ Go(p, "unlist")
  /\ UNCHANGED <<config, fInitialized, tkitLock, g_pptDevices, allocated, irq, polling, app, opens,
                 calls, faults>>

\* The entries behind the one that goes move up by one.
MovedUp(s, i) == [j \in 1 .. Len(s) - 1 |-> IF j < i THEN s[j] ELSE s[j + 1]]

Unlisted(s, c) ==
  IF c \in Range(s) THEN MovedUp(s, CHOOSE i \in DOMAIN s : s[i] = c) ELSE s

\* ... then the entry of the list; cifXTKitRemoveDevice restores fIrqEnabled.
UnlistDevice(p) ==
  /\ At(p, "unlist")
  /\ g_pptDevices' = Unlisted(g_pptDevices, call[p].card)
  /\ fIrqEnabled' = [fIrqEnabled EXCEPT ![call[p].card] = call[p].irq]
  /\ Go(p, "rmLeave")
  /\ UNCHANGED <<config, fInitialized, tkitLock, allocated, started, intReq, irq_stop, irqThread,
                 unserved, polling, apps, calls, faults>>

RemoveLeave(p) ==
  /\ At(p, "rmLeave")
  /\ LeaveLock(p)
  /\ Go(p, AfterRemove(call[p].op))
  /\ UNCHANGED <<config, fInitialized, list, irq, polling, apps, calls, faults>>

RemoveDevice(p) ==
  RemoveEnter(p) \/ FindDevice(p) \/ DisableInterrupts(p) \/ JoinThread(p) \/ CheckOpen(p)
    \/ StopDevice(p) \/ UnlistDevice(p) \/ RemoveLeave(p)

-----------------------------------------------------------------------------
(* xDriverRestartDevice, and a removal without force, in thread "user".     *)

AppBusy(c) == app.pc # "idle" /\ app.card = c

Restart(c) ==
  /\ At("user", "idle") /\ fInitialized /\ calls < MaxCalls
  /\ call["main"].op # "deinit" /\ ~AppBusy(c)
  /\ EnterLock("user")
  /\ calls' = calls + 1
  /\ call' = [call EXCEPT !["user"] = [NoCall EXCEPT !.op = "restart", !.pc = "search", !.card = c]]
  /\ UNCHANGED <<config, fInitialized, list, irq, polling, apps, faults>>

SearchDevice ==
  /\ At("user", "search")
  /\ Go("user", IF call["user"].card \in Listed THEN "rmEnter" ELSE "rsLeave")
  /\ UNCHANGED <<config, fInitialized, tkitLock, list, irq, polling, apps, calls, faults>>

RestartLeave ==
  /\ At("user", "rsLeave")
  /\ LeaveLock("user")
  /\ call' = [call EXCEPT !["user"] = NoCall]
  /\ UNCHANGED <<config, fInitialized, list, irq, polling, apps, calls, faults>>

RemoveUnforced(c) ==
  /\ At("user", "idle") /\ fInitialized /\ calls < MaxCalls
  /\ call["main"].op # "deinit"
  /\ calls' = calls + 1
  /\ call' = [call EXCEPT !["user"] = [NoCall EXCEPT !.op = "remove", !.pc = "rmEnter", !.card = c]]
  /\ UNCHANGED <<config, fInitialized, tkitLock, list, irq, polling, apps, faults>>

-----------------------------------------------------------------------------
(* cifXDriverDeinit: the polling thread first, and without the lock, then   *)
(* every device, then the toolkit.                                          *)

(* Mutant: the lock is taken before the polling thread is joined. *)
BeforeJoinEnter == IF polling_thread_running THEN EnterLock("main") ELSE UNCHANGED tkitLock

BeforeJoin == UNCHANGED tkitLock

DriverDeinit ==
  /\ At("main", "up")
  /\ At("user", "idle") /\ app.pc = "idle"
  /\ polling_thread_stop' = (polling_thread_stop \/ polling_thread_running)
  /\ call' = [call EXCEPT !["main"] =
                [NoCall EXCEPT !.op = "deinit",
                               !.pc = IF polling_thread_running THEN "pollJoin" ELSE "dnEnter"]]
  /\ BeforeJoin
  /\ UNCHANGED <<config, fInitialized, list, irq, polling_thread_running, poller, apps,
                 calls, faults>>

JoinedPoller ==
  /\ polling_thread_running' = FALSE
  /\ Go("main", "dnEnter")
  /\ UNCHANGED <<config, fInitialized, tkitLock, list, irq, polling_thread_stop, apps, calls,
                 faults>>

JoinPoller ==
  /\ At("main", "pollJoin") /\ poller.pc = "ended"
  /\ poller' = [poller EXCEPT !.pc = "none"]
  /\ JoinedPoller

\* The thread could not be created, but was marked as running.
JoinNoPoller ==
  /\ At("main", "pollJoin") /\ poller.pc = "none"
  /\ JoinedPoller
  /\ UNCHANGED poller

DeinitEnter ==
  /\ At("main", "dnEnter")
  /\ EnterLock("main")
  /\ Go("main", "device")
  /\ UNCHANGED <<config, fInitialized, list, irq, polling, apps, calls, faults>>

NextDevice ==
  /\ At("main", "device")
  /\ IF g_pptDevices = <<>>
       THEN Go("main", "dnLeave")
       ELSE call' = [call EXCEPT !["main"].card = Head(g_pptDevices), !["main"].pc = "rmEnter"]
  /\ UNCHANGED <<config, fInitialized, tkitLock, list, irq, polling, apps, calls, faults>>

FreeDevice ==
  /\ At("main", "removed")
  /\ allocated' = allocated \ {call["main"].card}
  /\ Go("main", "device")
  /\ UNCHANGED <<config, fInitialized, tkitLock, g_pptDevices, started, irq, polling, apps, calls,
                 faults>>

DeinitLeave ==
  /\ At("main", "dnLeave")
  /\ LeaveLock("main")
  /\ Go("main", "tkit")
  /\ UNCHANGED <<config, fInitialized, list, irq, polling, apps, calls, faults>>

\* cifXTKitDeinit: there is no device left to stop.
TKitDeinit ==
  /\ At("main", "tkit") /\ CanEnter("main")
  /\ g_pptDevices' = <<>>
  /\ fInitialized' = FALSE
  /\ call' = [call EXCEPT !["main"] = [NoCall EXCEPT !.pc = "down"]]
  /\ UNCHANGED <<config, tkitLock, allocated, started, irq, polling, apps, calls, faults>>

Deinit ==
  JoinPoller \/ DeinitEnter \/ NextDevice \/ FreeDevice \/ DeinitLeave \/ TKitDeinit

-----------------------------------------------------------------------------
(* cifXPollingThread and cifXTKitCyclicTimer.                               *)

PollTest ==
  /\ poller.pc = "test"
  /\ poller' = [poller EXCEPT !.pc = IF polling_thread_stop THEN "ended" ELSE "enter"]
  /\ UNCHANGED <<config, fInitialized, tkitLock, list, irq, polling_thread_stop,
                 polling_thread_running, call, apps, calls, faults>>

PollEnter ==
  /\ poller.pc = "enter"
  /\ EnterLock(Poller)
  /\ poller' = [pc |-> "loop", idx |-> 1]
  /\ UNCHANGED <<config, fInitialized, list, irq, polling_thread_stop, polling_thread_running,
                 call, apps, calls, faults>>

PollLoop ==
  /\ poller.pc = "loop"
  /\ poller' = CASE poller.idx > Len(g_pptDevices) -> [pc |-> "leave", idx |-> 1]
                 [] poller.idx <= Len(g_pptDevices) /\ ~fIrqEnabled[g_pptDevices[poller.idx]]
                      -> [poller EXCEPT !.pc = "cos"]
                 [] OTHER -> [poller EXCEPT !.idx = @ + 1]
  /\ UNCHANGED <<config, fInitialized, tkitLock, list, irq, polling_thread_stop,
                 polling_thread_running, call, apps, calls, faults>>

\* DEV_CheckCOSFlags of the device.
PollCos ==
  /\ poller.pc = "cos"
  /\ poller' = [pc |-> "loop", idx |-> poller.idx + 1]
  /\ UNCHANGED <<config, fInitialized, tkitLock, list, irq, polling_thread_stop,
                 polling_thread_running, call, apps, calls, faults>>

PollLeave ==
  /\ poller.pc = "leave"
  /\ LeaveLock(Poller)
  /\ poller' = [poller EXCEPT !.pc = "test"]
  /\ UNCHANGED <<config, fInitialized, list, irq, polling_thread_stop, polling_thread_running,
                 call, apps, calls, faults>>

PollingThread == PollTest \/ PollEnter \/ PollLoop \/ PollCos \/ PollLeave

-----------------------------------------------------------------------------
(* netx_irq_thread of card c. Waiting for an interrupt ends after 500 ms.   *)

irqElse == <<config, fInitialized, tkitLock, list, fIrqEnabled, irq_stop, unserved, polling, call,
             apps, calls, faults>>

IrqTest(c) ==
  /\ irqThread[c] = "test"
  /\ irqThread' = [irqThread EXCEPT ![c] = IF irq_stop[c] THEN "ended" ELSE "wait"]
  /\ UNCHANGED <<irqElse, intReq>>

\* The kernel module disables the interrupt it delivers.
IrqOccurs(c) ==
  /\ irqThread[c] = "wait" /\ intReq[c]
  /\ irqThread' = [irqThread EXCEPT ![c] = "handlers"]
  /\ intReq' = [intReq EXCEPT ![c] = FALSE]
  /\ UNCHANGED irqElse

IrqTimeout(c) ==
  /\ irqThread[c] = "wait"
  /\ irqThread' = [irqThread EXCEPT ![c] = "test"]
  /\ UNCHANGED <<irqElse, intReq>>

\* After cifXTKitISRHandler and cifXTKitDSRHandler the interrupt is enabled.
IrqHandled(c) ==
  /\ irqThread[c] = "handlers"
  /\ irqThread' = [irqThread EXCEPT ![c] = "test"]
  /\ intReq' = [intReq EXCEPT ![c] = TRUE]
  /\ UNCHANGED irqElse

IrqThread(c) == IrqTest(c) \/ IrqTimeout(c) \/ IrqHandled(c)

-----------------------------------------------------------------------------
(* xChannelOpen and xChannelClose, neither of which takes the lock.         *)

NoApp == [pc |-> "idle", card |-> NoCard, idx |-> 1]

ChannelOpen(c) ==
  /\ app.pc = "idle" /\ fInitialized /\ opens < MaxOpens
  /\ call["main"].op # "deinit"
  /\ ~(call["user"].op = "restart" /\ call["user"].card = c)
  /\ opens' = opens + 1
  /\ app' = [NoApp EXCEPT !.pc = "scan", !.card = c]
  /\ UNCHANGED <<config, fInitialized, tkitLock, list, irq, polling, call, ulOpenCount, calls,
                 faults>>

\* One entry of the list; a device whose channels are gone has none to open.
OpenScan ==
  /\ app.pc = "scan"
  /\ app' = CASE app.idx > Len(g_pptDevices) -> NoApp
              [] app.idx <= Len(g_pptDevices) /\ g_pptDevices[app.idx] # app.card
                   -> [app EXCEPT !.idx = @ + 1]
              [] OTHER -> IF app.card \in started THEN [app EXCEPT !.pc = "count"] ELSE NoApp
  /\ UNCHANGED <<config, fInitialized, tkitLock, list, irq, polling, call, ulOpenCount, opens,
                 calls, faults>>

\* Nothing keeps a removal without force from freeing the channel between the
\* search and the count, or while it is open but not counted yet. The code then
\* writes to freed memory. What that memory is used for by then is not in this
\* model, so the count is lost in it; no property says anything about it.
Count(n) ==
  ulOpenCount' = IF app.card \in started THEN [ulOpenCount EXCEPT ![app.card] = n] ELSE ulOpenCount

OpenCount ==
  /\ app.pc = "count"
  /\ Count(ulOpenCount[app.card] + 1)
  /\ app' = [app EXCEPT !.pc = "open"]
  /\ UNCHANGED <<config, fInitialized, tkitLock, list, irq, polling, call, opens, calls, faults>>

ChannelClose ==
  /\ app.pc = "open"
  /\ Count(ulOpenCount[app.card] - 1)
  /\ app' = NoApp
  /\ UNCHANGED <<config, fInitialized, tkitLock, list, irq, polling, call, opens, calls, faults>>

App == OpenScan \/ OpenCount \/ ChannelClose

-----------------------------------------------------------------------------
Init ==
  /\ \E cfg \in Config : fIrqWanted = cfg.irq /\ fPollWanted = cfg.poll
  /\ fInitialized = FALSE
  /\ tkitLock = [owner |-> NoOwner, depth |-> 0]
  /\ g_pptDevices = <<>> /\ allocated = {} /\ started = {}
  /\ fIrqEnabled = [c \in Card |-> FALSE]
  /\ intReq \in {[c \in Card |-> b] : b \in BOOLEAN}   \* as the program before left it
  /\ irq_stop = [c \in Card |-> FALSE]
  /\ irqThread = [c \in Card |-> "none"]
  /\ polling_thread_stop = FALSE /\ polling_thread_running = FALSE
  /\ poller = [pc |-> "none", idx |-> 1]
  /\ call = [p \in Proc |-> NoCall]
  /\ app = NoApp
  /\ ulOpenCount = [c \in Card |-> 0]
  /\ unserved = {}
  /\ calls = 0 /\ opens = 0 /\ faults = 0

Step(p) == AddDevice(p) \/ RemoveDevice(p)

MainStep == DriverAddDevice \/ DriverAdded \/ Step("main") \/ Deinit

UserStep == SearchDevice \/ RestartLeave \/ Step("user")

Next ==
  \/ DriverInit \/ DriverDeinit \/ JoinNoPoller
  \/ MainStep \/ UserStep
  \/ \E p \in Proc : JoinNoThread(p)
  \/ \E c \in Card : Restart(c) \/ RemoveUnforced(c) \/ ChannelOpen(c)
  \/ \E c \in Card : IrqThread(c) \/ IrqOccurs(c)
  \/ App
  \/ PollingThread

Spec == Init /\ [][Next]_vars

\* The scheduler runs every thread that can run; nothing is assumed of who gets
\* a contended lock, of the application, or of the card.
FairSpec ==
  /\ Spec
  /\ WF_vars(MainStep) /\ WF_vars(UserStep) /\ WF_vars(PollingThread)
  /\ \A c \in Card : WF_vars(IrqThread(c))

-----------------------------------------------------------------------------
(* Properties                                                               *)

\* Type correctness. The list holds every device at most once, and the lock is
\* held exactly as often as it was entered.
TypeOK ==
  /\ fIrqWanted \in [Card -> BOOLEAN] /\ fPollWanted \in BOOLEAN /\ fInitialized \in BOOLEAN
  /\ tkitLock \in [owner : Proc \cup {Poller, NoOwner}, depth : Nat]
  /\ (tkitLock.depth = 0) <=> (tkitLock.owner = NoOwner)
  /\ g_pptDevices \in Seq(Card) /\ IsInjective(g_pptDevices)
  /\ allocated \subseteq Card /\ started \subseteq Card /\ unserved \subseteq Card
  /\ fIrqEnabled \in [Card -> BOOLEAN] /\ intReq \in [Card -> BOOLEAN]
  /\ irq_stop \in [Card -> BOOLEAN]
  /\ irqThread \in [Card -> {"none", "test", "wait", "handlers", "ended"}]
  /\ polling_thread_stop \in BOOLEAN /\ polling_thread_running \in BOOLEAN
  /\ poller \in [pc : {"none", "test", "enter", "loop", "cos", "leave", "ended"}, idx : Nat \ {0}]
  /\ call \in [Proc -> [op : {"none", "init", "deinit", "restart", "remove"}, pc : Label,
                       card : Card \cup {NoCard}, irq : BOOLEAN]]
  /\ app \in [pc : {"idle", "scan", "count", "open"}, card : Card \cup {NoCard}, idx : Nat \ {0}]
  /\ ulOpenCount \in [Card -> Nat]
  /\ calls \in 0 .. MaxCalls /\ opens \in 0 .. MaxOpens /\ faults \in 0 .. MaxFaults

\* The threads that are running the ISR, the DSR or the COS check of a device.
Servers(c) ==
  {p \in Proc : call[p].pc = "dummy" /\ call[p].card = c}
    \cup (IF irqThread[c] = "handlers" THEN {"irq"} ELSE {})
    \cup (IF poller.pc = "cos" /\ g_pptDevices[poller.idx] = c THEN {Poller} ELSE {})

\* Handlers of a device run in one thread at a time (ISR and DSR exchange the
\* flags in fields no lock protects), and only while its channels, locks and
\* events exist; its interrupt thread runs only while the instance exists,
\* whatever restarts, removals and the end of the driver interleave.
HandlersSafe ==
  \A c \in Card :
    /\ Cardinality(Servers(c)) <= 1
    /\ Servers(c) # {} => c \in started
    /\ irqThread[c] \in {"test", "wait", "handlers"} => c \in allocated

\* While nobody changes the list, a device in interrupt mode has a running
\* interrupt thread with the interrupt enabled or being handled, except after
\* a refused removal or an error of pthread_create, which leave it without;
\* and a device that is not in the list neither has a thread nor interrupts.
InterruptsMatch ==
  tkitLock.owner = NoOwner =>
    \A c \in allocated :
      IF c \in Listed
        THEN fIrqEnabled[c] /\ c \notin unserved =>
               /\ irqThread[c] \in {"test", "wait", "handlers"} /\ ~irq_stop[c]
               /\ intReq[c] \/ irqThread[c] = "handlers"
        ELSE irqThread[c] = "none" /\ ~intReq[c]

\* cifXDriverDeinit is running, and the threads it joins exist: what becomes of
\* it otherwise is not known.
Ending ==
  /\ call["main"].op = "deinit" /\ unserved = {}
  /\ polling_thread_running => poller.pc # "none"

Ended ==
  /\ call["main"].pc = "down" /\ poller.pc = "none"
  /\ \A c \in Card : irqThread[c] = "none"

\* cifXDriverDeinit returns with no thread left, and has freed the instances if
\* all cards were in its list (one that was removed, or whose restart failed,
\* is not in the list any more and stays allocated): it joins the polling
\* thread before it takes the lock the thread needs, and each interrupt thread
\* leaves its wait after a timeout.
DeinitReturns ==
  /\ Ending ~> Ended
  /\ (Ending /\ Listed = Card) ~> (Ended /\ allocated = {})

=============================================================================
