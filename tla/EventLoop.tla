------------------------------ MODULE EventLoop ------------------------------
(***************************************************************************)
(* The event core of CraftOSOS: main2's resume loop (main.cpp), the event  *)
(* functions of os.cpp (getNextEvent, os.queueEvent, timers, shutdown and  *)
(* reboot) and the keyboard they poll.                                     *)
(*                                                                         *)
(* Everything runs on one processor without preemption, so the interleaving*)
(* is that of the program with the outside: keys that arrive byte by byte  *)
(* and timers, whose callbacks run only inside Events::process_events,     *)
(* which get_scancode calls while it waits for a byte.                     *)
(*                                                                         *)
(* An event is queued in two halves: its name in eventQueue, its arguments *)
(* as a thread on the stack of the Lua thread paramQueue.  An argument     *)
(* list is abstracted to the one number that matters in it; eventQueue and *)
(* timerQueue are sequences, which LinkedQueue shows queue.c to implement. *)
(***************************************************************************)
EXTENDS Keyboard, Sequences, FiniteSets

CONSTANTS
  ProgramName,    \* names programs give to os.queueEvent
  Payload,        \* arguments programs give to os.queueEvent
  TimerId,        \* ids Timers::oneshot can return
  Keys,           \* byte sequences the keyboard can send, one per key action
  KeyNumber,      \* the number keys.lua has for each of them
  Filter,         \* what programs wait for
  MaxQueue,       \* bound: programs queue no event beyond this length
  MaxBytes,       \* bound: bytes typed and not yet read
  StackMayFill,   \* may lua_checkstack fail in getNextEvent?
  MayCollect,     \* may a queued name be collected while it waits?
  PowerReturns    \* do os::shutdown and os::reboot return?

KernelName == {"key", "key_up", "char", "timer"}
Name == ProgramName \cup KernelName \cup {"garbage"}
NoFilter == "none"       \* the filter of a yield without a string
NoEvent == [name |-> "none", arg |-> 0]

ASSUME ConstantsAssumption ==
  /\ ProgramName \cap (KernelName \cup {"garbage", NoFilter}) = {}
  /\ Payload \subseteq Nat
  /\ TimerId \subseteq Nat
  /\ Keys \subseteq Seq(Byte)
  /\ NoFilter \in Filter
  /\ MaxQueue \in Nat
  /\ MaxBytes \in Nat
  /\ StackMayFill \in BOOLEAN
  /\ MayCollect \in BOOLEAN
  /\ PowerReturns \in BOOLEAN

(* The keys of a keyboard: one byte, the prefix and one byte, or Pause.    *)
(* keys.lua numbers them by the byte without its release bit, and those of *)
(* the extended block 128 higher.                                          *)
ASSUME KeysAssumption ==
  \A key \in Keys :
    \/ \E b \in Byte \ {0, EXTENDED, PAUSE} :
         key = <<b>> /\ KeyNumber[key] = b % 128
    \/ \E b \in Byte : key = <<EXTENDED, b>> /\ KeyNumber[key] = (b % 128) + 128
    \/ Len(key) = 3 /\ key[1] = PAUSE

VARIABLES
  running,        \* 1 running, 0 shut down, 2 reboot
  pc,             \* where main2 and getNextEvent are
  bios,           \* does luaL_loadbuffer accept bios.lua?
  eventQueue,     \* names of the queued events
  paramQueue,     \* their arguments
  timerQueue,     \* ids of timers that fired and have no event yet
  timers,         \* ids of the timers that run
  modifiers,      \* modifier keys held, as convert_ps2_code sees them
  wire,           \* bytes the keyboard still has to send
  obf,            \* the byte in the keyboard controller, if any
  code,           \* bytes getkey has read of the current key
  filter,         \* what the program waits for
  last            \* the event it was resumed with last

queues == <<eventQueue, paramQueue, timerQueue>>
keyboard == <<wire, obf>>
vars == <<running, pc, bios, queues, timers, modifiers, keyboard, code, filter, last>>

PC == {"start", "lua", "pull", "scan", "close", "off"}

TypeOK ==
  /\ running \in {0, 1, 2}
  /\ pc \in PC
  /\ bios \in BOOLEAN
  /\ eventQueue \in Seq(Name)
  /\ paramQueue \in Seq(Nat)
  /\ timerQueue \in Seq(TimerId)
  /\ timers \in SUBSET TimerId
  /\ modifiers \in SUBSET Modifier
  /\ wire \in Seq(Byte)
  /\ obf \in Seq(Byte) /\ Len(obf) <= 1
  /\ code \in Seq(Byte)
  /\ filter \in Filter
  /\ last \in [name : Name, arg : Nat] \cup {NoEvent}

Init ==
  /\ running = 1
  /\ pc = "start"
  /\ bios \in BOOLEAN
  /\ eventQueue = <<>> /\ paramQueue = <<>> /\ timerQueue = <<>>
  /\ timers = {}
  /\ modifiers = {}
  /\ wire = <<>> /\ obf = <<>>
  /\ code = <<>>
  /\ filter = NoFilter
  /\ last = NoEvent

-----------------------------------------------------------------------------
(* main2: a session and its end.                                           *)

(* Where main2 goes once the loop is left and the state closed. *)
AfterClose == IF running = 2 THEN "start" ELSE "off"

(* start: a new Lua state and with it a new paramQueue; a BIOS that does   *)
(* not load ends main2; otherwise the loop runs while running is 1, and    *)
(* running is not set again here.                                          *)
Start ==
  /\ pc = "start"
  /\ paramQueue' = <<>>
  /\ pc' = IF ~bios THEN "off" ELSE IF running = 1 THEN "lua" ELSE AfterClose
  /\ UNCHANGED <<running, bios, eventQueue, timerQueue, timers, modifiers,
                 keyboard, code, filter, last>>

(* The loop is left; lua_close; a reboot goes back to start. *)
Close ==
  /\ pc = "close"
  /\ pc' = AfterClose
  /\ UNCHANGED <<running, bios, queues, timers, modifiers, keyboard, code,
                 filter, last>>

(* The BIOS coroutine ends: with status 0 the loop is left, with an error  *)
(* main2 closes the state itself and returns 1.                            *)
Finish(status) ==
  /\ pc = "lua" /\ running = 1
  /\ pc' = IF status = 0 THEN "close" ELSE "off"
  /\ UNCHANGED <<running, bios, queues, timers, modifiers, keyboard, code,
                 filter, last>>

(* A power cycle by the hardware: the machine boots as it first did. *)
PowerCycle ==
  /\ running' = 1 /\ pc' = "start"
  /\ eventQueue' = <<>> /\ paramQueue' = <<>> /\ timerQueue' = <<>>
  /\ timers' = {} /\ modifiers' = {}
  /\ code' = <<>> /\ filter' = NoFilter /\ last' = NoEvent
  /\ UNCHANGED <<bios, keyboard>>

os_shutdown ==
  /\ pc = "lua" /\ running = 1
  /\ running' = 0
  /\ pc' = IF PowerReturns THEN "lua" ELSE "off"
  /\ UNCHANGED <<bios, queues, timers, modifiers, keyboard, code, filter, last>>

os_reboot ==
  /\ pc = "lua" /\ running = 1
  /\ \/ /\ PowerReturns
        /\ running' = 2
        /\ UNCHANGED <<pc, bios, queues, timers, modifiers, keyboard, code,
                       filter, last>>
     \/ ~PowerReturns /\ PowerCycle

-----------------------------------------------------------------------------
(* What a program does between two yields.  After os.shutdown or os.reboot *)
(* bios.lua only yields.                                                   *)

(* Mutant: the name is queued without its arguments. *)
QueueNameOnly(name, arg) ==
  /\ pc = "lua" /\ running = 1
  /\ Len(eventQueue) < MaxQueue
  /\ eventQueue' = Append(eventQueue, name)
  /\ UNCHANGED <<running, pc, bios, paramQueue, timerQueue, timers, modifiers,
                 keyboard, code, filter, last>>

os_queueEvent(name, arg) ==
  /\ pc = "lua" /\ running = 1
  /\ Len(eventQueue) < MaxQueue
  /\ eventQueue' = Append(eventQueue, name)
  /\ paramQueue' = Append(paramQueue, arg)
  /\ UNCHANGED <<running, pc, bios, timerQueue, timers, modifiers, keyboard,
                 code, filter, last>>

os_startTimer(id) ==
  /\ pc = "lua" /\ running = 1
  /\ id \notin timers
  /\ timers' = timers \cup {id}
  /\ UNCHANGED <<running, pc, bios, queues, modifiers, keyboard, code, filter,
                 last>>

(* Events of the timer that are already queued stay queued. *)
os_cancelTimer(id) ==
  /\ pc = "lua" /\ running = 1
  /\ timers' = timers \ {id}
  /\ UNCHANGED <<running, pc, bios, queues, modifiers, keyboard, code, filter,
                 last>>

(* lua_resume returns LUA_YIELD and getNextEvent is called. *)
Yield(f) ==
  /\ pc = "lua"
  /\ running # 1 => f = NoFilter
  /\ pc' = "pull"
  /\ filter' = f
  /\ UNCHANGED <<running, bios, queues, timers, modifiers, keyboard, code, last>>

-----------------------------------------------------------------------------
(* getNextEvent.                                                           *)

Accepted(name) == filter = NoFilter \/ filter = name

Poll ==
  /\ pc = "pull" /\ eventQueue = <<>>
  /\ pc' = "scan"
  /\ code' = <<>>
  /\ UNCHANGED <<running, bios, queues, timers, modifiers, keyboard, filter, last>>

(* An event the filter refuses is removed from both queues. *)
Refuse ==
  /\ pc = "pull" /\ eventQueue # <<>>
  /\ ~Accepted(Head(eventQueue))
  /\ eventQueue' = Tail(eventQueue)
  /\ paramQueue' = IF paramQueue = <<>> THEN <<>> ELSE Tail(paramQueue)
  /\ UNCHANGED <<running, pc, bios, timerQueue, timers, modifiers, keyboard,
                 code, filter, last>>

(* The test of the loop in main2, when getNextEvent has returned. *)
AfterEvent == IF running = 1 THEN "lua" ELSE "close"

(* Mutant: the filter is not asked. *)
DeliverUnfiltered ==
  /\ pc = "pull" /\ eventQueue # <<>> /\ paramQueue # <<>>
  /\ eventQueue' = Tail(eventQueue)
  /\ paramQueue' = Tail(paramQueue)
  /\ last' = [name |-> Head(eventQueue), arg |-> Head(paramQueue)]
  /\ pc' = AfterEvent
  /\ UNCHANGED <<running, bios, timerQueue, timers, modifiers, keyboard, code,
                 filter>>

(* The event is popped and the program resumed with it; with no arguments  *)
(* to go with the name it is resumed with nothing.                         *)
Deliver ==
  /\ pc = "pull" /\ eventQueue # <<>>
  /\ Accepted(Head(eventQueue))
  /\ eventQueue' = Tail(eventQueue)
  /\ IF paramQueue = <<>>
     THEN last' = NoEvent /\ UNCHANGED paramQueue
     ELSE /\ last' = [name |-> Head(eventQueue), arg |-> Head(paramQueue)]
          /\ paramQueue' = Tail(paramQueue)
  /\ pc' = AfterEvent
  /\ UNCHANGED <<running, bios, timerQueue, timers, modifiers, keyboard, code,
                 filter>>

(* lua_checkstack fails: the name is gone, the arguments stay. *)
DeliverNothing ==
  /\ StackMayFill /\ Len(paramQueue) <= MaxQueue
  /\ pc = "pull" /\ eventQueue # <<>> /\ paramQueue # <<>>
  /\ Accepted(Head(eventQueue))
  /\ eventQueue' = Tail(eventQueue)
  /\ last' = NoEvent
  /\ pc' = AfterEvent
  /\ UNCHANGED <<running, bios, paramQueue, timerQueue, timers, modifiers,
                 keyboard, code, filter>>

(* The events getNextEvent queues for a key: key or key_up and, for a      *)
(* printable one, char.                                                    *)
KeyNames(key) ==
  IF key = 0 THEN <<>>
  ELSE <<IF Released(key) THEN "key_up" ELSE "key">>
         \o IF convert_ps2_code(key % 256, modifiers) = 0 THEN <<>> ELSE <<"char">>

KeyParams(key) ==
  IF key = 0 THEN <<>>
  ELSE <<ps2tocc(key)>>
         \o IF convert_ps2_code(key % 256, modifiers) = 0 THEN <<>>
            ELSE <<convert_ps2_code(key % 256, modifiers)>>

TimerNames == [i \in 1 .. Len(timerQueue) |-> "timer"]

(* getkey has returned: its events are queued, then one for every timer    *)
(* that fired meanwhile, and the emptiness of eventQueue is tested again.  *)
GotKey(key) ==
  /\ eventQueue' = eventQueue \o (KeyNames(key) \o TimerNames)
  /\ paramQueue' = paramQueue \o (KeyParams(key) \o timerQueue)
  /\ timerQueue' = <<>>
  /\ modifiers' = IF key = 0 THEN modifiers ELSE ModifiersAfter(key % 256, modifiers)
  /\ pc' = "pull"
  /\ code' = <<>>

(* Mutant: the status of the keyboard controller is not tested. *)
ReadyOnTimerOnly == timerQueue # <<>>

(* get_scancode returns once a timer has fired, with 0, or once the        *)
(* keyboard controller has a byte, with the byte.                          *)
ScancodeReady == timerQueue # <<>> \/ obf # <<>>
get_scancode == IF timerQueue # <<>> THEN 0 ELSE Head(obf)

(* getkey, one byte at a time.  The order of the two bytes after 0xE1 is   *)
(* that in which the compiler evaluates the operands of |.                 *)
getkey ==
  /\ pc = "scan"
  /\ ScancodeReady
  /\ obf' = IF timerQueue # <<>> THEN obf ELSE <<>>
  /\ LET b == get_scancode
     IN  \/ /\ (code = <<>> /\ b \in {EXTENDED, PAUSE}) \/ code = <<PAUSE>>
            /\ code' = Append(code, b)
            /\ UNCHANGED <<pc, queues, modifiers>>
         \/ code = <<>> /\ b \notin {EXTENDED, PAUSE} /\ GotKey(PlainKey(b))
         \/ code = <<EXTENDED>> /\ GotKey(ExtendedKey(b))
         \/ /\ Len(code) = 2
            /\ GotKey(PauseKey(code[2], b)) \/ GotKey(PauseKey(b, code[2]))
  /\ UNCHANGED <<running, bios, timers, wire, filter, last>>

(* Events::process_events, called while get_scancode has neither a byte    *)
(* nor a fired timer: the timers that have expired call timerEvent in some *)
(* order.                                                                  *)
timerEvents(fired) ==
  /\ pc = "scan" /\ timerQueue = <<>> /\ obf = <<>>
  /\ timerQueue' = fired
  /\ timers' = timers \ {fired[i] : i \in 1 .. Len(fired)}
  /\ UNCHANGED <<running, pc, bios, eventQueue, paramQueue, modifiers, keyboard,
                 code, filter, last>>

Orders(S) ==
  UNION {{f \in [1 .. n -> S] : \A i, j \in 1 .. n : f[i] = f[j] => i = j} :
           n \in 1 .. Cardinality(S)}

-----------------------------------------------------------------------------
(* The outside.                                                            *)

(* The garbage collector frees a name that only eventQueue still points    *)
(* to, and the memory is used for something else.                          *)
Collect(i) ==
  /\ MayCollect /\ pc \in {"lua", "scan"}
  /\ eventQueue[i] \in ProgramName
  /\ \E n \in Name : eventQueue' = [eventQueue EXCEPT ![i] = n]
  /\ UNCHANGED <<running, pc, bios, paramQueue, timerQueue, timers, modifiers,
                 keyboard, code, filter, last>>

Type(key) ==
  /\ pc # "off"
  /\ Len(wire) + Len(obf) + Len(key) <= MaxBytes
  /\ wire' = wire \o key
  /\ UNCHANGED <<running, pc, bios, queues, timers, modifiers, obf, code,
                 filter, last>>

Send ==
  /\ pc # "off"
  /\ wire # <<>> /\ obf = <<>>
  /\ obf' = <<Head(wire)>>
  /\ wire' = Tail(wire)
  /\ UNCHANGED <<running, pc, bios, queues, timers, modifiers, code, filter, last>>

(* The machine is off, or get_scancode spins with nothing to do. *)
Idle ==
  /\ pc = "off" \/ (pc = "scan" /\ ~ScancodeReady)
  /\ UNCHANGED vars

Program ==
  \/ \E n \in ProgramName, a \in Payload : os_queueEvent(n, a)
  \/ \E id \in TimerId : os_startTimer(id)
  \/ \E id \in TimerId : os_cancelTimer(id)
  \/ \E f \in Filter : Yield(f)
  \/ \E status \in {0, 1} : Finish(status)
  \/ os_shutdown
  \/ os_reboot

Kernel == Start \/ Close \/ Poll \/ Refuse \/ Deliver \/ getkey

Fire == \E fired \in Orders(timers) : timerEvents(fired)

Outside ==
  \/ \E i \in 1 .. Len(eventQueue) : Collect(i)
  \/ \E key \in Keys : Type(key)
  \/ Send

Next == Program \/ Kernel \/ DeliverNothing \/ Fire \/ Outside \/ Idle

(* main2 and getNextEvent do not stop between two steps, a program yields  *)
(* in the end, a byte the keyboard has is sent, and a timer whose time has *)
(* come is called by the next process_events.                              *)
Fairness ==
  /\ WF_vars(Kernel)
  /\ WF_vars(\E f \in Filter : Yield(f))
  /\ WF_vars(Send)
  /\ \A id \in TimerId : SF_vars(Fire /\ id \in timers /\ id \notin timers')

Spec == Init /\ [][Next]_vars
FairSpec == Spec /\ Fairness

-----------------------------------------------------------------------------
(* Safety.                                                                 *)

Session == pc \in {"lua", "pull", "scan", "close"}

(* What a boot finds in eventQueue: nothing, unless it follows a reboot    *)
(* that os::reboot returned from.                                          *)
BootsClean == pc = "start" /\ running = 1 => eventQueue = <<>>

(* The two halves of the queue have the same length, which the warning of  *)
(* getNextEvent (os.cpp:154-156) is there to report.                       *)
ParamsAligned == Session => Len(paramQueue) = Len(eventQueue)

(* There are never fewer argument lists than names, so that a program is   *)
(* never resumed with nothing because of a missing list (os.cpp:158),      *)
(* whatever the collector and the stack do.                                *)
ParamsNeverShort == Session => Len(paramQueue) >= Len(eventQueue)

(* A key whose bytes are all read before a timer fires is heard of first,  *)
(* pressed or released, under the number keys.lua has for it; Pause alone  *)
(* is taken for another key.  A timer that fires between two bytes of a    *)
(* key makes two other keys of it.                                         *)
KeysDecoded ==
  [][\A key \in Keys :
       pc = "scan" /\ pc' = "pull" /\ timerQueue = <<>> /\ code \o obf = key /\ Head(key) # PAUSE =>
         /\ Head(eventQueue') = IF key[Len(key)] >= 128 THEN "key_up" ELSE "key"
         /\ Head(paramQueue') = KeyNumber[key]]_vars

(* The queue as programs see it: every name with its arguments. *)
Zip(names, args) ==
  [i \in 1 .. Len(names) |-> [name |-> names[i], arg |-> args[i]]]

Pending == IF Session THEN Zip(eventQueue, paramQueue) ELSE <<>>

Phase ==
  CASE pc = "lua"              -> "runs"
    [] pc \in {"pull", "scan"} -> "waits"
    [] pc = "close"            -> "over"
    [] OTHER                   -> "off"

(* Timers nothing is queued of yet: those that run, and those that fired   *)
(* while a key is read.                                                    *)
Unreported == timers \cup {timerQueue[i] : i \in 1 .. Len(timerQueue)}

(* The bytes typed, with those of a key begun counted as one. *)
Unread == Len(wire) + Len(obf) + IF code = <<>> THEN 0 ELSE 1

Service == INSTANCE EventService WITH
  phase <- Phase, stop <- (running # 1), pending <- Pending,
  timers <- Unreported, unread <- Unread

(* The two queues, the polling, the timers and the filter of getNextEvent  *)
(* implement one queue of whole events: while a session lasts nothing is   *)
(* lost but what the filter refuses, and every event stems from one call   *)
(* of os.queueEvent, from bytes typed or from one timer started.           *)
ServiceSpec == Service!Spec

-----------------------------------------------------------------------------
(* Liveness.                                                               *)

QueueStep == \E n \in ProgramName, a \in Payload : os_queueEvent(n, a)

(* A program that from some time on only waits, gets to hear of every      *)
(* byte typed: nothing stays in the keyboard until the machine is turned   *)
(* off or booted again.                                                    *)
KeysHeard ==
  <>[][~QueueStep]_vars
    => (obf # <<>> ~> (obf = <<>> \/ pc \in {"off", "start"}))

(* Once a program stops queueing events and nobody types, a timer that     *)
(* runs is cancelled or fires, unless the machine is turned off or booted: *)
(* getNextEvent gets round to it.                                          *)
TimersHeardWhenQuiet ==
  (<>[][~QueueStep]_vars /\ <>[](wire = <<>> /\ obf = <<>>))
    => \A id \in TimerId : id \in timers ~> (id \notin timers \/ pc \in {"off", "start"})

(* Both: whoever only waits gets to hear of what happens. *)
WaitersHear == KeysHeard /\ TimersHeardWhenQuiet
=============================================================================
