--------------------------- MODULE EventLoopProofs ---------------------------
(***************************************************************************)
(* The event queue for every set of names, payloads, timers and keys:      *)
(* types, the pairing of names with arguments, and the implementation of   *)
(* EventService when neither the stack nor the collector interferes.       *)
(***************************************************************************)
EXTENDS EventLoop, SequenceTheorems, TLAPS

-----------------------------------------------------------------------------
(* Facts about the decoding of keys.                                       *)

(* convert_ps2_code only ever sets and clears the three modifier bits. *)
LEMMA ModifiersType ==
  ASSUME NEW c, NEW m \in SUBSET Modifier
  PROVE  ModifiersAfter(c, m) \in SUBSET Modifier
  BY DEF ModifiersAfter, Modifier

(* The numbers of the key and char events are natural numbers. *)
LEMMA KeyNumbers ==
  ASSUME NEW key \in Nat, NEW m
  PROVE  ps2tocc(key) \in Nat /\ convert_ps2_code(key % 256, m) \in Nat
<1>1. key % 128 \in Nat /\ key % 256 \in Nat
  OBVIOUS
<1> QED
  BY <1>1 DEF ps2tocc, convert_ps2_code, Char, Printable

(* For a key getNextEvent queues as many names as argument lists. *)
LEMMA KeyHalves ==
  ASSUME NEW key \in Nat
  PROVE  /\ KeyNames(key) \in Seq(Name)
         /\ KeyParams(key) \in Seq(Nat)
         /\ Len(KeyNames(key)) = Len(KeyParams(key))
<1>1. ps2tocc(key) \in Nat /\ convert_ps2_code(key % 256, modifiers) \in Nat
  BY KeyNumbers
<1>2. "key" \in Name /\ "key_up" \in Name /\ "char" \in Name
  BY DEF Name, KernelName
<1> DEFINE k == IF Released(key) THEN "key_up" ELSE "key"
           c == convert_ps2_code(key % 256, modifiers)
<1>3. CASE key = 0
  BY <1>3 DEF KeyNames, KeyParams
<1>4. CASE key # 0 /\ c = 0
  BY <1>1, <1>2, <1>4 DEF KeyNames, KeyParams
<1>5. CASE key # 0 /\ c # 0
  <2>1. KeyNames(key) = <<k>> \o <<"char">> /\ KeyParams(key) = <<ps2tocc(key)>> \o <<c>>
    BY <1>5 DEF KeyNames, KeyParams
  <2>2. k \in Name
    BY <1>2
  <2> QED
    BY <1>1, <1>2, <2>1, <2>2
<1> QED
  BY <1>3, <1>4, <1>5

(* What getNextEvent queues after getkey, key events and timer events      *)
(* together, has two halves of one length.                                 *)
LEMMA GotKeyHalves ==
  ASSUME TypeOK, NEW key \in Nat, GotKey(key)
  PROVE  \E names \in Seq(Name), args \in Seq(Nat) :
           /\ Len(names) = Len(args)
           /\ eventQueue' = eventQueue \o names
           /\ paramQueue' = paramQueue \o args
<1>1. /\ KeyNames(key) \in Seq(Name)
      /\ KeyParams(key) \in Seq(Nat)
      /\ Len(KeyNames(key)) = Len(KeyParams(key))
  BY KeyHalves
<1>2. timerQueue \in Seq(Nat)
  <2>1. timerQueue \in Seq(TimerId) /\ TimerId \subseteq Nat
    BY ConstantsAssumption DEF TypeOK
  <2> QED
    BY <2>1, SeqMonotonic, Zenon
<1>3. Len(timerQueue) \in Nat
  BY <1>2
<1>4. TimerNames \in Seq(Name) /\ Len(TimerNames) = Len(timerQueue)
  BY <1>3 DEF TimerNames, Name, KernelName
<1>5. /\ KeyNames(key) \o TimerNames \in Seq(Name)
      /\ Len(KeyNames(key) \o TimerNames) = Len(KeyNames(key)) + Len(TimerNames)
  BY <1>1, <1>4
<1>6. /\ KeyParams(key) \o timerQueue \in Seq(Nat)
      /\ Len(KeyParams(key) \o timerQueue) = Len(KeyParams(key)) + Len(timerQueue)
  BY <1>1, <1>2
<1> QED
  BY <1>1, <1>4, <1>5, <1>6 DEF GotKey

(* getkey: either it only reads a byte, or it ends with GotKey. *)
LEMMA GetkeyCases ==
  ASSUME TypeOK, getkey
  PROVE  /\ UNCHANGED <<running, bios, timers, wire, filter, last>>
         /\ obf' \in Seq(Byte) /\ Len(obf') <= 1
         /\ \/ UNCHANGED <<pc, queues, modifiers>> /\ code' \in Seq(Byte)
            \/ \E key \in Nat : GotKey(key)
<1>1. get_scancode \in Byte
  <2>1. CASE timerQueue # <<>>
    BY <2>1 DEF get_scancode, Byte
  <2>2. CASE timerQueue = <<>>
    <3>1. obf \in Seq(Byte) /\ obf # <<>>
      BY <2>2 DEF getkey, ScancodeReady, TypeOK
    <3> QED
      BY <2>2, <3>1, HeadTailProperties DEF get_scancode
  <2> QED
    BY <2>1, <2>2
<1>2. \A b1, b2 \in Byte : /\ PlainKey(b1) \in Nat
                           /\ ExtendedKey(b1) \in Nat
                           /\ PauseKey(b1, b2) \in Nat
  BY DEF Byte, PlainKey, ExtendedKey, PauseKey
<1>3. Len(code) = 2 => code[2] \in Byte
  <2> SUFFICES ASSUME Len(code) = 2 PROVE code[2] \in Byte
    OBVIOUS
  <2>1. code \in Seq(Byte) /\ 2 \in 1 .. Len(code)
    BY DEF TypeOK
  <2> QED
    BY <2>1, ElementOfSeq, Zenon
<1>4. \/ UNCHANGED <<pc, queues, modifiers>> /\ code' = Append(code, get_scancode)
      \/ \E key \in Nat : GotKey(key)
  BY <1>1, <1>2, <1>3 DEF getkey
<1>5. Append(code, get_scancode) \in Seq(Byte)
  BY <1>1 DEF TypeOK
<1>6. obf' \in Seq(Byte) /\ Len(obf') <= 1
  BY DEF getkey, TypeOK
<1> QED
  BY <1>4, <1>5, <1>6 DEF getkey

-----------------------------------------------------------------------------
(* Types.                                                                  *)

(* The types hold at the start.                                            *)
LEMMA InitType == Init => TypeOK
<1> SUFFICES ASSUME Init PROVE TypeOK
  OBVIOUS
<1>1. NoFilter \in Filter
  BY ConstantsAssumption
<1>2. last \in [name : Name, arg : Nat] \cup {NoEvent}
  BY DEF Init
<1>3. obf \in Seq(Byte) /\ Len(obf) <= 1
  BY DEF Init
<1> QED
  BY <1>1, <1>2, <1>3 DEF Init, TypeOK, PC

(* Every step keeps the types. *)
LEMMA NextType == TypeOK /\ [Next]_vars => TypeOK'
<1> SUFFICES ASSUME TypeOK, [Next]_vars PROVE TypeOK'
  OBVIOUS
<1> USE DEF queues, keyboard
<1>1. CASE Start
  BY <1>1 DEF TypeOK, Start, AfterClose, PC
<1>2. CASE Close
  BY <1>2 DEF TypeOK, Close, AfterClose, PC
<1>3. CASE Poll
  BY <1>3 DEF TypeOK, Poll, PC
<1>4. CASE Refuse
  BY <1>4 DEF TypeOK, Refuse
<1>5. CASE Deliver
  <2>1. Head(eventQueue) \in Name /\ Tail(eventQueue) \in Seq(Name)
    BY <1>5 DEF TypeOK, Deliver
  <2>2. paramQueue # <<>> => Head(paramQueue) \in Nat /\ Tail(paramQueue) \in Seq(Nat)
    BY DEF TypeOK
  <2>3. last' \in [name : Name, arg : Nat] \cup {NoEvent} /\ paramQueue' \in Seq(Nat)
    <3>1. CASE paramQueue = <<>>
      BY <1>5, <3>1 DEF TypeOK, Deliver
    <3>2. CASE paramQueue # <<>>
      <4>1. last' = [name |-> Head(eventQueue), arg |-> Head(paramQueue)]
        BY <1>5, <3>2 DEF Deliver
      <4>2. last' \in [name : Name, arg : Nat]
        BY <2>1, <2>2, <3>2, <4>1
      <4> QED
        BY <1>5, <2>2, <3>2, <4>2 DEF Deliver
    <3> QED
      BY <3>1, <3>2
  <2> QED
    BY <1>5, <2>1, <2>3 DEF TypeOK, Deliver, AfterEvent, PC
<1>6. CASE DeliverNothing
  BY <1>6 DEF TypeOK, DeliverNothing, AfterEvent, PC
<1>7. CASE getkey
  <2>1. /\ UNCHANGED <<running, bios, timers, wire, filter, last>>
        /\ obf' \in Seq(Byte) /\ Len(obf') <= 1
        /\ \/ UNCHANGED <<pc, queues, modifiers>> /\ code' \in Seq(Byte)
           \/ \E key \in Nat : GotKey(key)
    BY <1>7, GetkeyCases
  <2>2. CASE UNCHANGED <<pc, queues, modifiers>> /\ code' \in Seq(Byte)
    BY <2>1, <2>2 DEF TypeOK
  <2>3. CASE \E key \in Nat : GotKey(key)
    <3>1. PICK key \in Nat : GotKey(key)
      BY <2>3
    <3>2. PICK names \in Seq(Name), args \in Seq(Nat) :
            eventQueue' = eventQueue \o names /\ paramQueue' = paramQueue \o args
      BY <3>1, GotKeyHalves
    <3>3. eventQueue' \in Seq(Name) /\ paramQueue' \in Seq(Nat)
      BY <3>2 DEF TypeOK
    <3>4. modifiers' \in SUBSET Modifier
      BY <3>1, ModifiersType DEF GotKey, TypeOK
    <3>5. pc' = "pull" /\ code' = <<>> /\ timerQueue' = <<>>
      BY <3>1 DEF GotKey
    <3> QED
      BY <2>1, <3>3, <3>4, <3>5 DEF TypeOK, PC
  <2> QED
    BY <2>1, <2>2, <2>3
<1>8. CASE Fire
  <2>1. PICK fired \in Orders(timers) : timerEvents(fired)
    BY <1>8 DEF Fire
  <2>2. PICK n \in 1 .. Cardinality(timers) : fired \in [1 .. n -> timers]
    BY <2>1 DEF Orders
  <2>3. n \in Nat /\ timers \subseteq TimerId
    BY DEF TypeOK
  <2>4. fired \in Seq(TimerId)
    BY <2>2, <2>3
  <2> QED
    BY <2>1, <2>4 DEF TypeOK, timerEvents
<1>9. CASE Program
  <2>1. CASE \E n \in ProgramName, a \in Payload : os_queueEvent(n, a)
    <3>1. PICK n \in ProgramName, a \in Payload : os_queueEvent(n, a)
      BY <2>1
    <3>2. n \in Name /\ a \in Nat
      BY ConstantsAssumption DEF Name
    <3> QED
      BY <3>1, <3>2 DEF TypeOK, os_queueEvent
  <2>2. CASE \E id \in TimerId : os_startTimer(id)
    BY <2>2 DEF TypeOK, os_startTimer
  <2>3. CASE \E id \in TimerId : os_cancelTimer(id)
    BY <2>3 DEF TypeOK, os_cancelTimer
  <2>4. CASE \E f \in Filter : Yield(f)
    BY <2>4 DEF TypeOK, Yield, PC
  <2>5. CASE \E status \in {0, 1} : Finish(status)
    BY <2>5 DEF TypeOK, Finish, PC
  <2>6. CASE os_shutdown
    BY <2>6 DEF TypeOK, os_shutdown, PC
  <2>7. CASE os_reboot
    <3>1. NoFilter \in Filter
      BY ConstantsAssumption
    <3>2. CASE PowerCycle
      <4>1. last' \in [name : Name, arg : Nat] \cup {NoEvent}
        BY <3>2 DEF PowerCycle
      <4>2. obf' \in Seq(Byte) /\ Len(obf') <= 1
        BY <3>2 DEF PowerCycle, TypeOK
      <4> QED
        BY <3>1, <3>2, <4>1, <4>2 DEF TypeOK, PowerCycle, PC
    <3>3. CASE ~PowerCycle
      BY <2>7, <3>3 DEF TypeOK, os_reboot
    <3> QED
      BY <3>2, <3>3
  <2> QED
    BY <1>9, <2>1, <2>2, <2>3, <2>4, <2>5, <2>6, <2>7 DEF Program
<1>10. CASE Outside
  <2>1. CASE \E i \in 1 .. Len(eventQueue) : Collect(i)
    <3>1. PICK i \in 1 .. Len(eventQueue), n \in Name :
            eventQueue' = [eventQueue EXCEPT ![i] = n]
      BY <2>1 DEF Collect
    <3>2. eventQueue' \in Seq(Name)
      BY <3>1 DEF TypeOK
    <3> QED
      BY <2>1, <3>2 DEF TypeOK, Collect
  <2>2. CASE \E key \in Keys : Type(key)
    <3>1. PICK key \in Keys : Type(key)
      BY <2>2
    <3>2. key \in Seq(Byte)
      BY ConstantsAssumption
    <3> QED
      BY <3>1, <3>2 DEF TypeOK, Type
  <2>3. CASE Send
    <3>1. Head(wire) \in Byte /\ Tail(wire) \in Seq(Byte)
      BY <2>3 DEF TypeOK, Send
    <3> QED
      BY <2>3, <3>1 DEF TypeOK, Send
  <2> QED
    BY <1>10, <2>1, <2>2, <2>3 DEF Outside
<1>11. CASE Idle \/ UNCHANGED vars
  BY <1>11 DEF TypeOK, Idle, vars
<1> QED
  BY <1>1, <1>2, <1>3, <1>4, <1>5, <1>6, <1>7, <1>8, <1>9, <1>10, <1>11
     DEF Next, Kernel

(* Every variable keeps its type, faults included. *)
THEOREM EventLoopType == Spec => []TypeOK
  BY InitType, NextType, PTL DEF Spec

-----------------------------------------------------------------------------
(* Names and arguments.                                                    *)

(* How a step can change the two halves of the queue during a session: not *)
(* at all, by the same number of entries at the back, by one entry each at *)
(* the front, by a lost name or by a name that changes.                    *)
Grow ==
  \E names \in Seq(Name), args \in Seq(Nat) :
    /\ Len(names) = Len(args)
    /\ eventQueue' = eventQueue \o names
    /\ paramQueue' = paramQueue \o args

(* getkey and os.queueEvent are the steps at which events are queued, and  *)
(* each queues whole events.                                               *)
LEMMA GetkeyGrows ==
  ASSUME TypeOK, getkey
  PROVE  UNCHANGED <<eventQueue, paramQueue>> \/ Grow
<1>1. CASE UNCHANGED <<pc, queues, modifiers>>
  BY <1>1 DEF queues
<1>2. CASE \E key \in Nat : GotKey(key)
  BY <1>2, GotKeyHalves DEF Grow
<1> QED
  BY <1>1, <1>2, GetkeyCases

(* os.queueEvent adds a name and an argument list. *)
LEMMA QueueEventGrows ==
  ASSUME TypeOK, NEW n \in ProgramName, NEW a \in Payload, os_queueEvent(n, a)
  PROVE  Grow
<1>1. n \in Name /\ a \in Nat
  BY ConstantsAssumption DEF Name
<1>2. <<n>> \in Seq(Name) /\ <<a>> \in Seq(Nat) /\ Len(<<n>>) = Len(<<a>>)
  BY <1>1
<1>3. eventQueue' = eventQueue \o <<n>>
  BY <1>1 DEF os_queueEvent, TypeOK
<1>4. paramQueue' = paramQueue \o <<a>>
  BY <1>1 DEF os_queueEvent, TypeOK
<1> QED
  BY <1>2, <1>3, <1>4 DEF Grow

(* A queue that grows keeps the difference of the lengths. *)
LEMMA GrowLengths ==
  ASSUME TypeOK, Grow
  PROVE  \E d \in Nat : /\ Len(eventQueue') = Len(eventQueue) + d
                        /\ Len(paramQueue') = Len(paramQueue) + d
<1>1. PICK names \in Seq(Name), args \in Seq(Nat) :
        /\ Len(names) = Len(args)
        /\ eventQueue' = eventQueue \o names
        /\ paramQueue' = paramQueue \o args
  BY DEF Grow
<1>2. Len(names) \in Nat
  OBVIOUS
<1>3. Len(eventQueue \o names) = Len(eventQueue) + Len(names)
  <2>1. eventQueue \in Seq(Name)
    BY DEF TypeOK
  <2> QED
    BY <2>1, ConcatProperties, Zenon
<1>4. Len(paramQueue \o args) = Len(paramQueue) + Len(args)
  <2>1. paramQueue \in Seq(Nat)
    BY DEF TypeOK
  <2> QED
    BY <2>1, ConcatProperties, Zenon
<1> QED
  BY <1>1, <1>2, <1>3, <1>4

ShortInv == TypeOK /\ BootsClean /\ ParamsNeverShort

(* Every step keeps the names no more numerous than the argument lists. *)
LEMMA NextShortInv == ShortInv /\ [Next]_vars => ShortInv'
<1> SUFFICES ASSUME ShortInv, [Next]_vars PROVE BootsClean' /\ ParamsNeverShort'
  BY NextType DEF ShortInv
<1> USE DEF queues, keyboard, ShortInv, BootsClean, ParamsNeverShort, Session
<1>0. Len(eventQueue) \in Nat /\ Len(paramQueue) \in Nat
  BY DEF TypeOK
<1>1. CASE Start
  BY <1>1 DEF Start, AfterClose, TypeOK
<1>2. CASE Close
  BY <1>2 DEF Close, AfterClose
<1>3. CASE Poll
  BY <1>3 DEF Poll
<1>4. CASE Refuse
  <2>1. eventQueue # <<>> /\ Len(eventQueue') = Len(eventQueue) - 1 /\ paramQueue # <<>>
    BY <1>4 DEF Refuse, TypeOK
  <2>2. Len(paramQueue') = Len(paramQueue) - 1
    BY <1>4, <2>1 DEF Refuse, TypeOK
  <2> QED
    BY <1>0, <1>4, <2>1, <2>2 DEF Refuse
<1>5. CASE Deliver
  <2>1. eventQueue # <<>> /\ Len(eventQueue') = Len(eventQueue) - 1 /\ paramQueue # <<>>
    BY <1>5 DEF Deliver, TypeOK
  <2>2. Len(paramQueue') = Len(paramQueue) - 1
    BY <1>5, <2>1 DEF Deliver, TypeOK
  <2> QED
    BY <1>0, <1>5, <2>1, <2>2 DEF Deliver, AfterEvent
<1>6. CASE DeliverNothing
  <2>1. Len(eventQueue') = Len(eventQueue) - 1
    BY <1>6 DEF DeliverNothing, TypeOK
  <2> QED
    BY <1>0, <1>6, <2>1 DEF DeliverNothing, AfterEvent
<1>7. CASE getkey
  <2>1. running' = running /\ pc = "scan" /\ pc' # "start"
    BY <1>7, GetkeyCases DEF getkey, GotKey
  <2>2. Len(paramQueue') >= Len(eventQueue')
    BY <1>0, <1>7, <2>1, GetkeyGrows, GrowLengths
  <2> QED
    BY <2>1, <2>2
<1>8. CASE Fire
  BY <1>8 DEF Fire, timerEvents
<1>9. CASE Program
  <2>1. CASE \E n \in ProgramName, a \in Payload : os_queueEvent(n, a)
    <3>1. PICK n \in ProgramName, a \in Payload : os_queueEvent(n, a)
      BY <2>1
    <3>2. pc = "lua" /\ pc' = "lua"
      BY <3>1 DEF os_queueEvent
    <3>3. Len(paramQueue') >= Len(eventQueue')
      BY <1>0, <3>1, <3>2, QueueEventGrows, GrowLengths
    <3> QED
      BY <3>2, <3>3
  <2>2. CASE \E id \in TimerId : os_startTimer(id) \/ os_cancelTimer(id)
    BY <2>2 DEF os_startTimer, os_cancelTimer
  <2>3. CASE \E f \in Filter : Yield(f)
    BY <2>3 DEF Yield
  <2>4. CASE \E status \in {0, 1} : Finish(status)
    BY <2>4 DEF Finish
  <2>5. CASE os_shutdown
    BY <2>5 DEF os_shutdown
  <2>6. CASE os_reboot
    BY <2>6 DEF os_reboot, PowerCycle
  <2> QED
    BY <1>9, <2>1, <2>2, <2>3, <2>4, <2>5, <2>6 DEF Program
<1>10. CASE Outside
  <2>1. CASE \E i \in 1 .. Len(eventQueue) : Collect(i)
    <3>1. PICK i \in 1 .. Len(eventQueue), n \in Name :
            eventQueue' = [eventQueue EXCEPT ![i] = n]
      BY <2>1 DEF Collect
    <3>2. Len(eventQueue') = Len(eventQueue)
      BY <3>1 DEF TypeOK
    <3> QED
      BY <2>1, <3>2 DEF Collect
  <2>2. CASE (\E key \in Keys : Type(key)) \/ Send
    BY <2>2 DEF Type, Send
  <2> QED
    BY <1>10, <2>1, <2>2 DEF Outside
<1>11. CASE Idle \/ UNCHANGED vars
  BY <1>11 DEF Idle, vars
<1> QED
  BY <1>1, <1>2, <1>3, <1>4, <1>5, <1>6, <1>7, <1>8, <1>9, <1>10, <1>11
     DEF Next, Kernel

(* There is an argument list for every name queued, so that getNextEvent   *)
(* never resumes a program with nothing for want of one (os.cpp:158), even *)
(* when lua_checkstack fails or a name is collected.                       *)
THEOREM NeverShort == Spec => []ParamsNeverShort
<1>1. Init => ShortInv
  BY InitType DEF Init, ShortInv, BootsClean, ParamsNeverShort, Session
<1>2. ShortInv => ParamsNeverShort
  BY DEF ShortInv
<1> QED
  BY <1>1, <1>2, NextShortInv, PTL DEF Spec

AlignInv == TypeOK /\ BootsClean /\ ParamsAligned

(* With a stack that never fills, the lengths stay equal. *)
LEMMA NextAlignInv ==
  ASSUME ~StackMayFill
  PROVE  AlignInv /\ [Next]_vars => AlignInv'
<1> SUFFICES ASSUME AlignInv, [Next]_vars PROVE ParamsAligned'
  <2>1. AlignInv => ShortInv
    BY DEF AlignInv, ShortInv, ParamsAligned, ParamsNeverShort, TypeOK
  <2> QED
    BY <2>1, NextShortInv DEF AlignInv, ShortInv
<1> USE DEF queues, keyboard, AlignInv, BootsClean, ParamsAligned, Session
<1>0. Len(eventQueue) \in Nat /\ Len(paramQueue) \in Nat
  BY DEF TypeOK
<1>1. CASE Start
  BY <1>1 DEF Start, AfterClose, TypeOK
<1>2. CASE Close \/ Poll \/ Fire
  BY <1>2 DEF Close, AfterClose, Poll, Fire, timerEvents
<1>3. CASE Refuse
  <2>1. eventQueue # <<>> /\ Len(eventQueue') = Len(eventQueue) - 1 /\ paramQueue # <<>>
    BY <1>3 DEF Refuse, TypeOK
  <2>2. Len(paramQueue') = Len(paramQueue) - 1
    BY <1>3, <2>1 DEF Refuse, TypeOK
  <2> QED
    BY <1>0, <1>3, <2>1, <2>2 DEF Refuse
<1>4. CASE Deliver
  <2>1. eventQueue # <<>> /\ Len(eventQueue') = Len(eventQueue) - 1 /\ paramQueue # <<>>
    BY <1>4 DEF Deliver, TypeOK
  <2>2. Len(paramQueue') = Len(paramQueue) - 1
    BY <1>4, <2>1 DEF Deliver, TypeOK
  <2> QED
    BY <1>0, <1>4, <2>1, <2>2 DEF Deliver, AfterEvent
<1>5. CASE getkey
  <2>1. pc = "scan"
    BY <1>5 DEF getkey
  <2> QED
    BY <1>0, <1>5, <2>1, GetkeyGrows, GrowLengths
<1>6. CASE Program
  <2>1. CASE \E n \in ProgramName, a \in Payload : os_queueEvent(n, a)
    <3>1. PICK n \in ProgramName, a \in Payload : os_queueEvent(n, a)
      BY <2>1
    <3>2. pc = "lua"
      BY <3>1 DEF os_queueEvent
    <3> QED
      BY <1>0, <3>1, <3>2, QueueEventGrows, GrowLengths
  <2>2. CASE \E id \in TimerId : os_startTimer(id) \/ os_cancelTimer(id)
    BY <2>2 DEF os_startTimer, os_cancelTimer
  <2>3. CASE \E f \in Filter : Yield(f)
    BY <2>3 DEF Yield
  <2>4. CASE \E status \in {0, 1} : Finish(status)
    BY <2>4 DEF Finish
  <2>5. CASE os_shutdown
    BY <2>5 DEF os_shutdown
  <2>6. CASE os_reboot
    BY <2>6 DEF os_reboot, PowerCycle
  <2> QED
    BY <1>6, <2>1, <2>2, <2>3, <2>4, <2>5, <2>6 DEF Program
<1>7. CASE Outside
  <2>1. CASE \E i \in 1 .. Len(eventQueue) : Collect(i)
    <3>1. PICK i \in 1 .. Len(eventQueue), n \in Name :
            eventQueue' = [eventQueue EXCEPT ![i] = n]
      BY <2>1 DEF Collect
    <3>2. Len(eventQueue') = Len(eventQueue)
      BY <3>1 DEF TypeOK
    <3> QED
      BY <2>1, <3>2 DEF Collect
  <2>2. CASE (\E key \in Keys : Type(key)) \/ Send
    BY <2>2 DEF Type, Send
  <2> QED
    BY <1>7, <2>1, <2>2 DEF Outside
<1>8. CASE Idle \/ UNCHANGED vars
  BY <1>8 DEF Idle, vars
<1> QED
  BY <1>1, <1>2, <1>3, <1>4, <1>5, <1>6, <1>7, <1>8 DEF Next, Kernel, DeliverNothing

(* The two halves of the event queue have the same length whenever main2   *)
(* is in its loop: the warning of getNextEvent is never printed.           *)
THEOREM Aligned ==
  ASSUME ~StackMayFill
  PROVE  Spec => []ParamsAligned
<1>1. Init => AlignInv
  BY InitType DEF Init, AlignInv, BootsClean, ParamsAligned, Session
<1>2. AlignInv => ParamsAligned
  BY DEF AlignInv
<1> QED
  BY <1>1, <1>2, NextAlignInv, PTL DEF Spec

-----------------------------------------------------------------------------
(* The two queues implement one queue of whole events.                     *)

WholeEvent == [name : Name, arg : Nat]

(* Two halves of the same length make a queue of events.                   *)
LEMMA ZipType ==
  ASSUME NEW e \in Seq(Name), NEW p \in Seq(Nat), Len(e) = Len(p)
  PROVE  Zip(e, p) \in Seq(WholeEvent) /\ Len(Zip(e, p)) = Len(e)
<1>1. \A i \in 1 .. Len(e) : e[i] \in Name /\ p[i] \in Nat
  OBVIOUS
<1>2. Len(e) \in Nat
  OBVIOUS
<1> QED
  BY <1>1, <1>2 DEF Zip, WholeEvent

(* Appending to both halves appends to the zipped queue. *)
LEMMA ZipGrow ==
  ASSUME NEW e \in Seq(Name), NEW p \in Seq(Nat), Len(e) = Len(p),
         NEW n \in Seq(Name), NEW a \in Seq(Nat), Len(n) = Len(a)
  PROVE  /\ Zip(e \o n, p \o a) \in Seq(WholeEvent)
         /\ Len(Zip(e \o n, p \o a)) = Len(e) + Len(n)
         /\ SubSeq(Zip(e \o n, p \o a), 1, Len(e)) = Zip(e, p)
<1>1. e \o n \in Seq(Name) /\ p \o a \in Seq(Nat)
  OBVIOUS
<1>2. Len(e \o n) = Len(e) + Len(n) /\ Len(p \o a) = Len(p) + Len(a)
  BY ConcatProperties, Zenon
<1>3. Len(e) \in Nat /\ Len(n) \in Nat
  OBVIOUS
<1>4. \A i \in 1 .. Len(e) : (e \o n)[i] = e[i] /\ (p \o a)[i] = p[i]
  OBVIOUS
<1>5. /\ Zip(e \o n, p \o a) \in Seq(WholeEvent)
      /\ Len(Zip(e \o n, p \o a)) = Len(e) + Len(n)
  BY <1>1, <1>2, ZipType
<1>6. \A i \in 1 .. Len(e) : Zip(e \o n, p \o a)[i] = Zip(e, p)[i]
  BY <1>2, <1>3, <1>4 DEF Zip
<1>7. SubSeq(Zip(e \o n, p \o a), 1, Len(e)) = [i \in 1 .. Len(e) |-> Zip(e \o n, p \o a)[i]]
  BY <1>3, <1>5
<1>8. Zip(e, p) = [i \in 1 .. Len(e) |-> Zip(e, p)[i]]
  BY DEF Zip
<1> QED
  BY <1>5, <1>6, <1>7, <1>8

(* The tail of a sequence, as a function. *)
LEMMA TailFunction ==
  ASSUME NEW S, NEW z \in Seq(S), z # <<>>
  PROVE  Tail(z) = [i \in 1 .. Len(z) - 1 |-> z[i + 1]]
<1>1. /\ Tail(z) \in Seq(S) /\ Len(Tail(z)) = Len(z) - 1
      /\ \A i \in 1 .. Len(Tail(z)) : Tail(z)[i] = z[i + 1]
  BY HeadTailProperties, Zenon
<1>2. Tail(z) \in [1 .. Len(Tail(z)) -> S]
  BY <1>1, LenProperties, Zenon
<1> DEFINE t == Tail(z)
<1>3. t \in [1 .. Len(z) - 1 -> S] /\ \A i \in 1 .. Len(z) - 1 : t[i] = z[i + 1]
  BY <1>1, <1>2, Zenon
<1> HIDE DEF t
<1>4. t = [i \in 1 .. Len(z) - 1 |-> z[i + 1]]
  BY <1>3
<1> QED
  BY <1>4 DEF t

(* Removing the first entry of both halves removes the first event. *)
LEMMA ZipTail ==
  ASSUME NEW e \in Seq(Name), NEW p \in Seq(Nat), Len(e) = Len(p), e # <<>>
  PROVE  /\ Zip(e, p) # <<>>
         /\ Head(Zip(e, p)) = [name |-> Head(e), arg |-> Head(p)]
         /\ Zip(Tail(e), Tail(p)) = Tail(Zip(e, p))
<1>1. Len(e) \in Nat \ {0} /\ p # <<>>
  OBVIOUS
<1>2. /\ Len(Tail(e)) = Len(e) - 1 /\ Len(Tail(p)) = Len(e) - 1
      /\ \A i \in 1 .. Len(e) - 1 : Tail(e)[i] = e[i + 1] /\ Tail(p)[i] = p[i + 1]
  BY <1>1
<1>3. Zip(e, p) \in Seq(WholeEvent) /\ Len(Zip(e, p)) = Len(e)
  BY ZipType
<1>4. Zip(e, p) # <<>>
  BY <1>1, <1>3
<1>5. Head(Zip(e, p)) = Zip(e, p)[1] /\ Head(e) = e[1] /\ Head(p) = p[1]
  BY <1>1, <1>3, <1>4
<1>6. Zip(e, p)[1] = [name |-> e[1], arg |-> p[1]]
  BY <1>1 DEF Zip
<1>7. Tail(Zip(e, p)) = [i \in 1 .. Len(e) - 1 |-> Zip(e, p)[i + 1]]
  BY <1>3, <1>4, TailFunction
<1>8. \A i \in 1 .. Len(e) - 1 : Zip(e, p)[i + 1] = [name |-> e[i + 1], arg |-> p[i + 1]]
  BY <1>1 DEF Zip
<1>9. Zip(Tail(e), Tail(p)) = [i \in 1 .. Len(e) - 1 |-> [name |-> e[i + 1], arg |-> p[i + 1]]]
  BY <1>1, <1>2 DEF Zip
<1> QED
  BY <1>4, <1>5, <1>6, <1>7, <1>8, <1>9

(* getNextEvent polls the keyboard only when it has no event left. *)
PollsEmpty == pc = "scan" => eventQueue = <<>>

(* The queue stays empty while a key is read, byte by byte. *)
LEMMA NextPollsEmpty ==
  ASSUME TypeOK, PollsEmpty, [Next]_vars
  PROVE  PollsEmpty'
<1> USE DEF queues, keyboard, PollsEmpty
<1>1. CASE Start \/ Close
  BY <1>1 DEF Start, Close, AfterClose
<1>2. CASE Poll \/ Refuse
  BY <1>2 DEF Poll, Refuse
<1>3. CASE Deliver \/ DeliverNothing
  BY <1>3 DEF Deliver, DeliverNothing, AfterEvent
<1>4. CASE getkey
  BY <1>4, GetkeyCases DEF GotKey
<1>5. CASE Program
  BY <1>5 DEF Program, os_queueEvent, os_startTimer, os_cancelTimer, Yield, Finish,
              os_shutdown, os_reboot, PowerCycle
<1>6. CASE Fire
  BY <1>6 DEF Fire, timerEvents
<1>7. CASE \E i \in 1 .. Len(eventQueue) : Collect(i)
  <2>1. eventQueue # <<>>
    BY <1>7
  <2> QED
    BY <1>7, <2>1 DEF Collect
<1>8. CASE (\E key \in Keys : Type(key)) \/ Send
  BY <1>8 DEF Type, Send
<1>9. CASE Idle \/ UNCHANGED vars
  BY <1>9 DEF Idle, vars
<1> QED
  BY <1>1, <1>2, <1>3, <1>4, <1>5, <1>6, <1>7, <1>8, <1>9 DEF Next, Kernel, Outside

(* Outside a poll no key is begun and no fired timer waits for its event;  *)
(* and a timer that has fired is not one that runs, and has fired once.    *)
Rests ==
  /\ pc # "scan" => code = <<>> /\ timerQueue = <<>>
  /\ \A i \in 1 .. Len(timerQueue) : timerQueue[i] \notin timers
  /\ \A i, j \in 1 .. Len(timerQueue) : timerQueue[i] = timerQueue[j] => i = j

(* No step but those of a poll begins a key or queues a fired timer. *)
LEMMA NextRests ==
  ASSUME TypeOK, Rests, [Next]_vars
  PROVE  Rests'
<1> USE DEF queues, keyboard
<1>1. CASE Start \/ Close
  BY <1>1 DEF Start, Close, AfterClose, Rests
<1>2. CASE Poll \/ Refuse
  BY <1>2 DEF Poll, Refuse, Rests
<1>3. CASE Deliver \/ DeliverNothing
  BY <1>3 DEF Deliver, DeliverNothing, AfterEvent, Rests
<1>4. CASE getkey
  <2>1. CASE UNCHANGED <<pc, queues, modifiers>>
    BY <1>4, <2>1 DEF getkey, Rests
  <2>2. CASE \E key \in Nat : GotKey(key)
    BY <2>2 DEF GotKey, Rests
  <2> QED
    BY <1>4, <2>1, <2>2, GetkeyCases
<1>5. CASE Program
  <2>1. pc = "lua" /\ timerQueue = <<>> /\ code = <<>>
    BY <1>5 DEF Program, os_queueEvent, os_startTimer, os_cancelTimer, Yield, Finish,
                os_shutdown, os_reboot, Rests
  <2>2. timerQueue' = <<>> /\ code' = <<>>
    BY <1>5, <2>1 DEF Program, os_queueEvent, os_startTimer, os_cancelTimer, Yield, Finish,
                      os_shutdown, os_reboot, PowerCycle
  <2> QED
    BY <2>2 DEF Rests
<1>6. CASE Fire
  <2>1. PICK fired \in Orders(timers) : timerEvents(fired)
    BY <1>6 DEF Fire
  <2>2. PICK n \in 1 .. Cardinality(timers) :
          /\ fired \in [1 .. n -> timers]
          /\ \A i, j \in 1 .. n : fired[i] = fired[j] => i = j
    BY DEF Orders
  <2>3. n \in Nat
    OBVIOUS
  <2>4. Len(fired) = n
    BY <2>2, <2>3
  <2> QED
    BY <2>1, <2>2, <2>4 DEF timerEvents, Rests
<1>7. CASE Outside \/ Idle \/ UNCHANGED vars
  BY <1>7 DEF Outside, Collect, Type, Send, Idle, vars, Rests
<1> QED
  BY <1>1, <1>2, <1>3, <1>4, <1>5, <1>6, <1>7 DEF Next, Kernel

(* What the refinement rests on. *)
ServeInv == AlignInv /\ PollsEmpty /\ Rests

(* A key event costs at least a byte of what was typed; a byte that is     *)
(* only kept for a key begun does not add to it.                           *)
LEMMA GetkeyReads ==
  ASSUME TypeOK, getkey
  PROVE  \/ UNCHANGED <<pc, queues, modifiers>> /\ Unread' <= Unread
         \/ \E key \in Nat : GotKey(key) /\ Unread' <= Unread /\ (key # 0 => Unread' < Unread)
<1>0. get_scancode \in Byte /\ (Len(code) = 2 => code[2] \in Byte)
  <2>1. timerQueue # <<>> => get_scancode \in Byte
    BY DEF get_scancode, Byte
  <2>2. timerQueue = <<>> => get_scancode \in Byte
    <3>0. SUFFICES ASSUME timerQueue = <<>> PROVE get_scancode \in Byte
      OBVIOUS
    <3>1. obf \in Seq(Byte) /\ obf # <<>>
      BY <3>0 DEF getkey, ScancodeReady, TypeOK
    <3> QED
      BY <3>0, <3>1, HeadTailProperties DEF get_scancode
  <2>3. Len(code) = 2 => code[2] \in Byte
    <3> SUFFICES ASSUME Len(code) = 2 PROVE code[2] \in Byte
      OBVIOUS
    <3>1. code \in Seq(Byte) /\ 2 \in 1 .. Len(code)
      BY DEF TypeOK
    <3> QED
      BY <3>1, ElementOfSeq, Zenon
  <2> QED
    BY <2>1, <2>2, <2>3
<1> DEFINE b == get_scancode
<1>1. /\ wire' = wire /\ Len(wire) \in Nat /\ Len(obf) \in Nat /\ Len(obf') \in Nat
      /\ Len(obf') <= Len(obf)
      /\ timerQueue = <<>> => Len(obf') < Len(obf)
      /\ timerQueue # <<>> => b = 0
  BY DEF getkey, TypeOK, ScancodeReady, get_scancode
<1>2. \A b1, b2 \in Byte : /\ PlainKey(b1) \in Nat
                           /\ ExtendedKey(b1) \in Nat
                           /\ PauseKey(b1, b2) \in Nat
  BY DEF Byte, PlainKey, ExtendedKey, PauseKey
<1>3. b \in Byte
  BY <1>0
<1>4. Unread = Len(wire) + Len(obf) + IF code = <<>> THEN 0 ELSE 1
  BY DEF Unread
<1>5. Unread' = Len(wire) + Len(obf') + IF code' = <<>> THEN 0 ELSE 1
  BY <1>1 DEF Unread
<1>6. CASE /\ (code = <<>> /\ b \in {EXTENDED, PAUSE}) \/ code = <<PAUSE>>
           /\ code' = Append(code, b)
           /\ UNCHANGED <<pc, queues, modifiers>>
  <2>0. code' # <<>>
    BY <1>3, <1>6 DEF TypeOK
  <2>1. CASE code = <<>> /\ b \in {EXTENDED, PAUSE}
    <3>1. timerQueue = <<>>
      BY <1>1, <2>1 DEF EXTENDED, PAUSE
    <3> QED
      BY <1>1, <1>4, <1>5, <1>6, <2>0, <2>1, <3>1
  <2>2. CASE code = <<PAUSE>>
    BY <1>1, <1>4, <1>5, <1>6, <2>0, <2>2
  <2> QED
    BY <1>6, <2>1, <2>2
<1>7. CASE code = <<>> /\ b \notin {EXTENDED, PAUSE} /\ GotKey(PlainKey(b))
  <2>1. code' = <<>>
    BY <1>7 DEF GotKey
  <2>2. PlainKey(b) # 0 => timerQueue = <<>>
    BY <1>1 DEF PlainKey
  <2>3. Unread' <= Unread /\ (PlainKey(b) # 0 => Unread' < Unread)
    BY <1>1, <1>4, <1>5, <1>7, <2>1, <2>2
  <2> QED
    BY <1>2, <1>3, <1>7, <2>3
<1>8. ASSUME code # <<>>, NEW key \in Nat, GotKey(key)
      PROVE  Unread' < Unread
  <2>1. code' = <<>>
    BY <1>8 DEF GotKey
  <2> QED
    BY <1>1, <1>4, <1>5, <1>8, <2>1
<1>u. Unread \in Nat /\ Unread' \in Nat
  BY <1>1, <1>4, <1>5
<1>9. CASE code = <<EXTENDED>> /\ GotKey(ExtendedKey(b))
  <2>1. Unread' < Unread
    BY <1>2, <1>3, <1>8, <1>9
  <2>2. Unread' <= Unread
    BY <2>1, <1>u
  <2> QED
    BY <1>2, <1>3, <1>9, <2>1, <2>2
<1>10. CASE Len(code) = 2 /\ (GotKey(PauseKey(code[2], b)) \/ GotKey(PauseKey(b, code[2])))
  <2>1. PICK key \in Nat : GotKey(key)
    BY <1>0, <1>2, <1>3, <1>10
  <2>2. Unread' < Unread
    BY <1>8, <1>10, <2>1
  <2>3. Unread' <= Unread
    BY <2>2, <1>u
  <2> QED
    BY <2>1, <2>2, <2>3
<1> QED
  BY <1>6, <1>7, <1>9, <1>10 DEF getkey

(* The events of a key, one by one. *)
LEMMA KeyEventNames ==
  ASSUME NEW key \in Nat
  PROVE  /\ Len(KeyNames(key)) <= 2 /\ (Len(KeyNames(key)) >= 1 => key # 0)
         /\ Len(KeyNames(key)) >= 1 => KeyNames(key)[1] \in {"key", "key_up"}
         /\ Len(KeyNames(key)) = 2 => KeyNames(key)[2] = "char"
<1> DEFINE k == IF Released(key) THEN "key_up" ELSE "key"
           c == convert_ps2_code(key % 256, modifiers)
<1>1. CASE key = 0
  BY <1>1 DEF KeyNames
<1>2. CASE key # 0 /\ c = 0
  <2>1. KeyNames(key) = <<k>>
    BY <1>2 DEF KeyNames
  <2> QED
    BY <1>2, <2>1
<1>3. CASE key # 0 /\ c # 0
  <2>1. KeyNames(key) = <<k>> \o <<"char">>
    BY <1>3 DEF KeyNames
  <2>2. k \in {"key", "key_up", "char"}
    OBVIOUS
  <2> QED
    BY <1>3, <2>1, <2>2
<1> QED
  BY <1>1, <1>2, <1>3

(* A zipped queue of two parts, entry by entry. *)
LEMMA ZipParts ==
  ASSUME NEW e \in Seq(Name), NEW p \in Seq(Nat), Len(e) = Len(p),
         NEW n \in Seq(Name), NEW a \in Seq(Nat), Len(n) = Len(a)
  PROVE  LET z == Zip(e \o n, p \o a)
         IN  /\ z \in Seq(WholeEvent) /\ Len(z) = Len(e) + Len(n)
             /\ SubSeq(z, 1, Len(e)) = Zip(e, p)
             /\ SubSeq(z, Len(e) + 1, Len(z)) = Zip(n, a)
<1> DEFINE z == Zip(e \o n, p \o a)
<1>1. /\ z \in Seq(WholeEvent) /\ Len(z) = Len(e) + Len(n)
      /\ SubSeq(z, 1, Len(e)) = Zip(e, p)
  BY ZipGrow
<1>2. Len(e) \in Nat /\ Len(n) \in Nat
  OBVIOUS
<1>3. \A i \in 1 .. Len(n) : z[Len(e) + i] = [name |-> n[i], arg |-> a[i]]
  <2> TAKE i \in 1 .. Len(n)
  <2>1. Len(e \o n) = Len(e) + Len(n) /\ Len(e) + i \in 1 .. Len(e) + Len(n)
    <3>1. Len(e \o n) = Len(e) + Len(n)
      BY ConcatProperties, Zenon
    <3>2. Len(e) + i \in 1 .. Len(e) + Len(n)
      BY <1>2
    <3> QED
      BY <3>1, <3>2
  <2>2. (e \o n)[Len(e) + i] = n[i] /\ (p \o a)[Len(e) + i] = a[i]
    BY <1>2
  <2> QED
    BY <2>1, <2>2 DEF Zip
<1>4. SubSeq(z, Len(e) + 1, Len(z)) = [i \in 1 .. Len(n) |-> z[Len(e) + i]]
  <2>1. Len(z) - (Len(e) + 1) + 1 = Len(n)
    BY <1>1, <1>2
  <2>2. SubSeq(z, Len(e) + 1, Len(z))
          = [i \in 1 .. Len(n) |-> z[i + (Len(e) + 1) - 1]]
    BY <1>1, <1>2, <2>1
  <2>3. \A i \in 1 .. Len(n) : i + (Len(e) + 1) - 1 = Len(e) + i
    BY <1>2
  <2> QED
    BY <2>2, <2>3
<1>5. Zip(n, a) = [i \in 1 .. Len(n) |-> [name |-> n[i], arg |-> a[i]]]
  BY DEF Zip
<1> QED
  BY <1>1, <1>3, <1>4, <1>5

(* A name and an argument queued are one event queued. *)
LEMMA ZipAppend ==
  ASSUME NEW e \in Seq(Name), NEW p \in Seq(Nat), Len(e) = Len(p), NEW n \in Name, NEW a \in Nat
  PROVE  Zip(Append(e, n), Append(p, a)) = Append(Zip(e, p), [name |-> n, arg |-> a])
<1>1. Len(e) \in Nat /\ Zip(e, p) \in Seq(WholeEvent) /\ Len(Zip(e, p)) = Len(e)
  BY ZipType
<1>2. Len(Append(e, n)) = Len(e) + 1
  OBVIOUS
<1>3. \A i \in 1 .. Len(e) + 1 :
        /\ Append(e, n)[i] = IF i = Len(e) + 1 THEN n ELSE e[i]
        /\ Append(p, a)[i] = IF i = Len(e) + 1 THEN a ELSE p[i]
  BY <1>1
<1>4. Zip(Append(e, n), Append(p, a))
        = [i \in 1 .. Len(e) + 1 |-> IF i = Len(e) + 1 THEN [name |-> n, arg |-> a]
                                      ELSE [name |-> e[i], arg |-> p[i]]]
  BY <1>2, <1>3 DEF Zip
<1>5. \A i \in 1 .. Len(e) : Zip(e, p)[i] = [name |-> e[i], arg |-> p[i]]
  BY DEF Zip
<1> DEFINE z == Zip(e, p)
           v == [name |-> n, arg |-> a]
<1>6. v \in WholeEvent
  BY DEF WholeEvent
<1>7. z \in Seq(WholeEvent) /\ Len(z) = Len(e)
  BY <1>1
<1> HIDE DEF z, v
<1>8. Append(z, v) = [i \in 1 .. Len(e) + 1 |-> IF i = Len(e) + 1 THEN v ELSE z[i]]
  <2> DEFINE t == Append(z, v)
  <2>1. /\ t \in Seq(WholeEvent) /\ Len(t) = Len(z) + 1
        /\ \A i \in 1 .. Len(z) : t[i] = z[i]
        /\ t[Len(z) + 1] = v
    BY <1>6, <1>7, AppendProperties
  <2>2. t \in [1 .. Len(t) -> WholeEvent]
    BY <2>1, LenProperties, Zenon
  <2> HIDE DEF t
  <2>3. t \in [1 .. Len(e) + 1 -> WholeEvent]
    BY <1>7, <2>1, <2>2
  <2>4. \A i \in 1 .. Len(e) + 1 : t[i] = IF i = Len(e) + 1 THEN v ELSE z[i]
    BY <1>1, <1>7, <2>1
  <2>5. t = [i \in 1 .. Len(e) + 1 |-> IF i = Len(e) + 1 THEN v ELSE z[i]]
    BY <2>3, <2>4
  <2> QED
    BY <2>5 DEF t
<1> QED
  BY <1>1, <1>4, <1>5, <1>8 DEF z, v

(* What the mapping makes of a state outside and inside a poll. *)
LEMMA Mapped ==
  ASSUME ServeInv
  PROVE  /\ Session => Pending = Zip(eventQueue, paramQueue)
         /\ ~Session => Pending = <<>>
         /\ pc # "scan" => Unreported = timers /\ Unread = Len(wire) + Len(obf)
         /\ pc = "scan" => Pending = <<>> /\ eventQueue = <<>> /\ paramQueue = <<>>
<1>1. Session => Pending = Zip(eventQueue, paramQueue)
  BY DEF Pending
<1>2. ~Session => Pending = <<>>
  BY DEF Pending
<1>3. ASSUME pc # "scan"
      PROVE  Unreported = timers /\ Unread = Len(wire) + Len(obf)
  <2>1. timerQueue = <<>> /\ code = <<>>
    BY <1>3 DEF ServeInv, Rests
  <2>2. Len(wire) \in Nat /\ Len(obf) \in Nat
    BY DEF ServeInv, AlignInv, TypeOK
  <2> QED
    BY <2>1, <2>2 DEF Unreported, Unread
<1>4. ASSUME pc = "scan"
      PROVE  Pending = <<>> /\ eventQueue = <<>> /\ paramQueue = <<>>
  <2>1. TypeOK /\ eventQueue = <<>> /\ Len(paramQueue) = Len(eventQueue) /\ Session
    BY <1>4 DEF ServeInv, AlignInv, PollsEmpty, ParamsAligned, Session
  <2>2. paramQueue = <<>>
    BY <2>1 DEF TypeOK
  <2>3. Zip(eventQueue, paramQueue) = <<>>
    BY <2>1 DEF Zip
  <2> QED
    BY <1>1, <2>1, <2>2, <2>3
<1> QED
  BY <1>1, <1>2, <1>3, <1>4

(* A step that leaves the queues, the timers and the keyboard alone does   *)
(* not change what is mapped from them, in or out of a session.            *)
LEMMA MappedSame ==
  ASSUME UNCHANGED <<eventQueue, paramQueue, timerQueue, timers, wire, obf, code>>,
         Session' <=> Session
  PROVE  Pending' = Pending /\ Unreported' = Unreported /\ Unread' = Unread
  BY DEF Pending, Unreported, Unread, Zip

(* getkey has returned: the key and the fired timers are heard. *)
LEMMA GotKeyHears ==
  ASSUME ServeInv, pc = "scan", NEW key \in Nat, GotKey(key),
         UNCHANGED <<running, timers, filter, last>>,
         Unread' <= Unread, key # 0 => Unread' < Unread
  PROVE  Service!Hear
<1>1. TypeOK /\ Pending = <<>> /\ eventQueue = <<>> /\ paramQueue = <<>> /\ Rests
  BY Mapped DEF ServeInv, AlignInv
<1>2. /\ KeyNames(key) \in Seq(Name) /\ KeyParams(key) \in Seq(Nat)
      /\ Len(KeyNames(key)) = Len(KeyParams(key))
  BY KeyHalves
<1>3. timerQueue \in Seq(Nat) /\ Len(timerQueue) \in Nat
  <2>1. timerQueue \in Seq(TimerId) /\ TimerId \subseteq Nat
    BY <1>1, ConstantsAssumption DEF TypeOK
  <2>2. timerQueue \in Seq(Nat)
    BY <2>1, SeqMonotonic, Zenon
  <2> QED
    BY <2>2
<1>4. /\ TimerNames \in Seq(Name) /\ Len(TimerNames) = Len(timerQueue)
      /\ \A i \in 1 .. Len(timerQueue) : TimerNames[i] = "timer"
  BY <1>3 DEF TimerNames, Name, KernelName
<1> DEFINE kn == KeyNames(key)
           kp == KeyParams(key)
           tn == TimerNames
           z == Zip(kn \o tn, kp \o timerQueue)
<1>5. /\ kn \in Seq(Name) /\ kp \in Seq(Nat) /\ Len(kn) = Len(kp)
      /\ Len(kn) <= 2 /\ (Len(kn) >= 1 => key # 0)
      /\ Len(kn) >= 1 => kn[1] \in {"key", "key_up"}
      /\ Len(kn) = 2 => kn[2] = "char"
  BY <1>2, KeyEventNames
<1>6. /\ tn \in Seq(Name) /\ Len(tn) = Len(timerQueue)
      /\ \A i \in 1 .. Len(timerQueue) : tn[i] = "timer"
  BY <1>4
<1>7. Pending' = z
  <2>1. Session'
    BY DEF GotKey, Session
  <2>2. eventQueue' = kn \o tn /\ paramQueue' = kp \o timerQueue
    <3>1. kn \o tn \in Seq(Name) /\ kp \o timerQueue \in Seq(Nat)
      BY <1>3, <1>5, <1>6
    <3>2. eventQueue' = <<>> \o (kn \o tn) /\ paramQueue' = <<>> \o (kp \o timerQueue)
      BY <1>1 DEF GotKey
    <3> QED
      BY <3>1, <3>2
  <2> QED
    BY <2>1, <2>2 DEF Pending
<1>z. z = Zip(kn \o tn, kp \o timerQueue)
  OBVIOUS
<1> HIDE DEF kn, kp, tn, z
<1>8. /\ z \in Seq(WholeEvent) /\ Len(z) = Len(kn) + Len(timerQueue)
      /\ SubSeq(z, 1, Len(kn)) = Zip(kn, kp)
      /\ SubSeq(z, Len(kn) + 1, Len(z)) = Zip(tn, timerQueue)
  <2>1. Len(tn) = Len(timerQueue)
    BY <1>6
  <2>2. /\ z \in Seq(WholeEvent) /\ Len(z) = Len(kn) + Len(tn)
        /\ SubSeq(z, 1, Len(kn)) = Zip(kn, kp)
        /\ SubSeq(z, Len(kn) + 1, Len(z)) = Zip(tn, timerQueue)
    <3>1. kn \in Seq(Name) /\ kp \in Seq(Nat) /\ Len(kn) = Len(kp)
      BY <1>5
    <3>2. tn \in Seq(Name) /\ timerQueue \in Seq(Nat)
      BY <1>3, <1>6
    <3> QED
      BY ONLY <2>1, <3>1, <3>2, ZipParts DEF z
  <2> QED
    BY <2>1, <2>2
<1>9. Len(kn) \in Nat /\ Len(kn) \in 0 .. Len(z)
  BY <1>3, <1>5, <1>8
<1>10. Service!KeyEvents(Zip(kn, kp)) /\ (Zip(kn, kp) # <<>> => Unread' < Unread)
  <2>1. Len(Zip(kn, kp)) = Len(kn)
    BY <1>5, ZipType
  <2>2. \A i \in 1 .. Len(kn) : Zip(kn, kp)[i].name = kn[i]
    BY DEF Zip
  <2>3. Zip(kn, kp) # <<>> => Len(kn) >= 1
    BY <1>5, <1>9, ZipType
  <2>4. Len(kn) >= 1 => Zip(kn, kp)[1].name \in {"key", "key_up"}
    BY <1>5, <1>9, <2>2
  <2>5. Len(kn) = 2 => Zip(kn, kp)[2].name = "char"
    BY <1>5, <1>9, <2>2
  <2> QED
    BY <1>5, <2>1, <2>3, <2>4, <2>5 DEF Service!KeyEvents
<1>11. \A i \in 1 .. Len(timerQueue) :
         Zip(tn, timerQueue)[i].name = "timer" /\ Zip(tn, timerQueue)[i].arg = timerQueue[i]
  BY <1>6 DEF Zip
<1>12. Len(Zip(tn, timerQueue)) = Len(timerQueue)
  BY <1>3, <1>6, ZipType
<1> DEFINE f == Zip(tn, timerQueue)
           fired == {f[i].arg : i \in 1 .. Len(f)}
<1>13. Service!TimerEvents(f)
  BY <1>1, <1>11, <1>12 DEF Service!TimerEvents, Rests, Unreported
<1>14. fired = {timerQueue[i] : i \in 1 .. Len(timerQueue)}
  BY <1>11, <1>12
<1>15. Unreported' = Unreported \ fired
  <2>1. timerQueue' = <<>> /\ timers' = timers
    BY DEF GotKey
  <2>2. Unreported' = timers
    BY <2>1 DEF Unreported
  <2>3. \A id \in fired : id \notin timers
    BY <1>1, <1>14 DEF Rests
  <2> QED
    BY <1>14, <2>2, <2>3 DEF Unreported
<1>16. Phase = "waits" /\ Phase' = "waits" /\ (running # 1)' = (running # 1)
  BY DEF GotKey, Phase
<1> HIDE DEF f
<1>17. /\ Service!KeyEvents(SubSeq(Pending', 1, Len(kn)))
       /\ SubSeq(Pending', 1, Len(kn)) # <<>> => Unread' < Unread
       /\ SubSeq(Pending', Len(kn) + 1, Len(Pending')) = f
       /\ Len(kn) \in 0 .. Len(Pending')
  BY <1>7, <1>8, <1>9, <1>10 DEF f
<1> HIDE DEF fired
<1>18. \E n \in 0 .. Len(Pending') :
         /\ Service!KeyEvents(SubSeq(Pending', 1, n))
         /\ SubSeq(Pending', 1, n) # <<>> => Unread' < Unread
         /\ SubSeq(Pending', n + 1, Len(Pending')) = f
  BY <1>17
<1> QED
  BY <1>1, <1>13, <1>15, <1>16, <1>18 DEF Service!Hear, fired

(* Every step of the event loop is a step of the event service or leaves   *)
(* it alone.                                                               *)
LEMMA StepRefines ==
  ASSUME ~StackMayFill, ~MayCollect, ServeInv, ServeInv', [Next]_vars
  PROVE  Service!Next \/ UNCHANGED Service!vars
<1> USE DEF queues, keyboard
<1>0. TypeOK /\ ParamsAligned /\ Rests
  BY DEF ServeInv, AlignInv
<1>m. /\ Session => Pending = Zip(eventQueue, paramQueue)
      /\ ~Session => Pending = <<>>
      /\ pc # "scan" => Unreported = timers /\ Unread = Len(wire) + Len(obf)
      /\ pc = "scan" => Pending = <<>> /\ eventQueue = <<>> /\ paramQueue = <<>>
  BY Mapped
<1>n. /\ Session' => Pending' = Zip(eventQueue', paramQueue')
      /\ ~Session' => Pending' = <<>>
      /\ pc' # "scan" => Unreported' = timers' /\ Unread' = Len(wire') + Len(obf')
  <2>1. Session' => Pending' = Zip(eventQueue', paramQueue')
    BY DEF Pending, Zip
  <2>2. ~Session' => Pending' = <<>>
    BY DEF Pending
  <2>3. ASSUME pc' # "scan"
        PROVE  Unreported' = timers' /\ Unread' = Len(wire') + Len(obf')
    <3>1. timerQueue' = <<>> /\ code' = <<>>
      BY <2>3 DEF ServeInv, Rests
    <3>2. Len(wire') \in Nat /\ Len(obf') \in Nat
      BY DEF ServeInv, AlignInv, TypeOK
    <3> QED
      BY <3>1, <3>2 DEF Unreported, Unread
  <2> QED
    BY <2>1, <2>2, <2>3
<1>1. CASE Start
  <2>1. /\ UNCHANGED <<filter, last, running, timers, wire, obf>> /\ pc = "start"
        /\ pc' \in {"lua", "start", "off"} /\ (pc' = "lua" => running = 1)
    BY <1>1 DEF Start, AfterClose
  <2>2. Unreported' = Unreported /\ Unread' = Unread
    BY <1>m, <1>n, <2>1
  <2>3. Pending = <<>> /\ Pending' = <<>>
    <3>1. Pending = <<>>
      BY <1>m, <2>1 DEF Session
    <3>2. CASE pc' = "lua"
      <4>1. eventQueue' = <<>>
        BY <1>1, <2>1, <3>2 DEF Start, ServeInv, AlignInv, BootsClean
      <4>2. Zip(eventQueue', paramQueue') = <<>>
        BY <4>1 DEF Zip
      <4> QED
        BY <1>n, <3>1, <3>2, <4>2 DEF Session
    <3>3. CASE pc' # "lua"
      BY <1>n, <2>1, <3>1, <3>3 DEF Session
    <3> QED
      BY <3>2, <3>3
  <2>4. CASE pc' = "lua"
    BY <2>1, <2>2, <2>3, <2>4 DEF Phase, Service!Boot, Service!Next
  <2>5. CASE pc' # "lua"
    BY <2>1, <2>2, <2>3, <2>5 DEF Phase, Service!vars
  <2> QED
    BY <2>4, <2>5
<1>2. CASE Close
  <2>1. /\ UNCHANGED <<filter, last, running, timers, wire, obf>> /\ pc = "close"
        /\ pc' \in {"start", "off"}
    BY <1>2 DEF Close, AfterClose
  <2>2. Unreported' = Unreported /\ Unread' = Unread /\ Pending' = <<>>
    BY <1>m, <1>n, <2>1 DEF Session
  <2> QED
    BY <2>1, <2>2 DEF Phase, Service!End, Service!Next
<1>3. CASE Poll
  <2>1. UNCHANGED <<running, eventQueue, paramQueue, timerQueue, timers, wire, obf, filter, last>>
    BY <1>3 DEF Poll
  <2>2. code = <<>> /\ code' = <<>> /\ pc = "pull" /\ pc' = "scan"
    BY <1>0, <1>3 DEF Poll, Rests
  <2>3. Pending' = Pending /\ Unreported' = Unreported /\ Unread' = Unread
    BY <2>1, <2>2, MappedSame DEF Session
  <2> QED
    BY <2>1, <2>2, <2>3 DEF Phase, Service!vars
<1>4. CASE Refuse
  <2>1. /\ eventQueue \in Seq(Name) /\ paramQueue \in Seq(Nat)
        /\ Len(eventQueue) = Len(paramQueue) /\ eventQueue # <<>>
        /\ pc = "pull" /\ pc' = "pull"
        /\ UNCHANGED <<running, filter, last, timers, wire, obf>>
        /\ ~Accepted(Head(eventQueue))
    BY <1>0, <1>4 DEF Refuse, ParamsAligned, TypeOK, Session
  <2>2. paramQueue # <<>>
    BY <2>1
  <2>3. eventQueue' = Tail(eventQueue) /\ paramQueue' = Tail(paramQueue)
    BY <1>4, <2>2 DEF Refuse
  <2>4. Pending = Zip(eventQueue, paramQueue) /\ Pending' = Zip(Tail(eventQueue), Tail(paramQueue))
    BY <1>m, <1>n, <2>1, <2>3 DEF Session
  <2>5. /\ Pending # <<>> /\ Pending' = Tail(Pending)
        /\ Head(Pending).name = Head(eventQueue)
    BY <2>1, <2>4, ZipTail
  <2>6. Unreported' = Unreported /\ Unread' = Unread /\ Phase = "waits" /\ Phase' = "waits"
    BY <1>m, <1>n, <2>1 DEF Phase
  <2> QED
    BY <2>1, <2>5, <2>6 DEF Accepted, Service!Accepts, Service!Drop, Service!Next
<1>5. CASE Deliver
  <2>1. /\ eventQueue \in Seq(Name) /\ paramQueue \in Seq(Nat)
        /\ Len(eventQueue) = Len(paramQueue) /\ eventQueue # <<>>
        /\ pc = "pull" /\ pc' = IF running = 1 THEN "lua" ELSE "close"
        /\ UNCHANGED <<running, filter, timers, wire, obf>>
        /\ Accepted(Head(eventQueue))
    BY <1>0, <1>5 DEF Deliver, AfterEvent, ParamsAligned, TypeOK, Session
  <2>2. paramQueue # <<>>
    BY <2>1
  <2>3. /\ eventQueue' = Tail(eventQueue) /\ paramQueue' = Tail(paramQueue)
        /\ last' = [name |-> Head(eventQueue), arg |-> Head(paramQueue)]
    BY <1>5, <2>2 DEF Deliver
  <2>4. Pending = Zip(eventQueue, paramQueue) /\ Pending' = Zip(Tail(eventQueue), Tail(paramQueue))
    BY <1>m, <1>n, <2>1, <2>3 DEF Session
  <2>5. /\ Pending # <<>> /\ Pending' = Tail(Pending) /\ last' = Head(Pending)
        /\ Head(Pending).name = Head(eventQueue)
    <3>1. /\ Zip(eventQueue, paramQueue) # <<>>
          /\ Head(Zip(eventQueue, paramQueue))
               = [name |-> Head(eventQueue), arg |-> Head(paramQueue)]
          /\ Zip(Tail(eventQueue), Tail(paramQueue)) = Tail(Zip(eventQueue, paramQueue))
      BY <2>1, ZipTail, Zenon
    <3>2. Head(Pending) = [name |-> Head(eventQueue), arg |-> Head(paramQueue)]
      BY <2>4, <3>1, Zenon
    <3>3. Head(Pending).name = Head(eventQueue)
      BY <3>2
    <3> QED
      BY <2>3, <2>4, <3>1, <3>2, <3>3, Zenon
  <2>6. Unreported' = Unreported /\ Unread' = Unread
    BY <1>m, <1>n, <2>1
  <2>7. Phase = "waits" /\ Phase' = IF running # 1 THEN "over" ELSE "runs"
    BY <2>1 DEF Phase
  <2> QED
    BY <2>1, <2>5, <2>6, <2>7 DEF Accepted, Service!Accepts, Service!Deliver, Service!Next
<1>6. CASE getkey
  <2>1. UNCHANGED <<running, timers, filter, last>> /\ pc = "scan"
    BY <1>6 DEF getkey
  <2>2. CASE UNCHANGED <<pc, queues, modifiers>> /\ Unread' <= Unread
    <3>1. Pending = <<>> /\ Pending' = <<>>
      BY <1>m, <1>n, <2>1, <2>2 DEF Session, Zip
    <3>2. Unreported' = Unreported /\ Phase = "waits" /\ Phase' = "waits"
      BY <2>1, <2>2 DEF Unreported, Phase
    <3>3. /\ Len(Pending') = 0 /\ SubSeq(Pending', 1, 0) = <<>>
          /\ SubSeq(Pending', 0 + 1, Len(Pending')) = <<>>
      BY <3>1
    <3>6. Unreported' = Unreported
            \ {SubSeq(Pending', 0 + 1, Len(Pending'))[i].arg :
                  i \in 1 .. Len(SubSeq(Pending', 0 + 1, Len(Pending')))}
      <4>1. 1 .. Len(SubSeq(Pending', 0 + 1, Len(Pending'))) = {}
        BY <3>3
      <4> QED
        BY <3>2, <4>1
    <3>7. 0 \in 0 .. Len(Pending')
      BY <3>3
    <3>4. Service!KeyEvents(<<>>) /\ Service!TimerEvents(<<>>)
      BY DEF Service!KeyEvents, Service!TimerEvents
    <3>5. Service!Hear
      <4>1. \E n \in 0 .. Len(Pending') :
              /\ Service!KeyEvents(SubSeq(Pending', 1, n))
              /\ SubSeq(Pending', 1, n) = <<>>
              /\ SubSeq(Pending', 1, n) # <<>> => Unread' < Unread
              /\ Service!TimerEvents(SubSeq(Pending', n + 1, Len(Pending')))
              /\ Unreported' = Unreported
                   \ {SubSeq(Pending', n + 1, Len(Pending'))[i].arg :
                         i \in 1 .. Len(SubSeq(Pending', n + 1, Len(Pending')))}
        <5> WITNESS 0 \in 0 .. Len(Pending')
        <5> QED
          BY <3>3, <3>4, <3>6, Zenon
      <4>2. UNCHANGED <<Phase, running # 1, filter, last>>
        BY <2>1, <3>2
      <4> QED
        BY <2>2, <3>1, <3>2, <4>1, <4>2, Zenon DEF Service!Hear
    <3> QED
      BY <3>5 DEF Service!Next
  <2>3. CASE \E key \in Nat : GotKey(key) /\ Unread' <= Unread /\ (key # 0 => Unread' < Unread)
    BY <2>1, <2>3, GotKeyHears DEF Service!Next
  <2> QED
    BY <1>0, <1>6, <2>2, <2>3, GetkeyReads
<1>7. CASE Program
  <2>0. pc = "lua" /\ Session /\ code = <<>> /\ timerQueue = <<>> /\ Phase = "runs"
    BY <1>0, <1>7 DEF Program, os_queueEvent, os_startTimer, os_cancelTimer, Yield, Finish,
                      os_shutdown, os_reboot, Session, Phase, Rests
  <2>1. CASE \E n \in ProgramName, a \in Payload : os_queueEvent(n, a)
    <3>1. PICK n \in ProgramName, a \in Payload : os_queueEvent(n, a)
      BY <2>1
    <3>2. /\ eventQueue' = Append(eventQueue, n) /\ paramQueue' = Append(paramQueue, a)
          /\ UNCHANGED <<running, pc, filter, last, timers, wire, obf>> /\ running = 1
      BY <3>1 DEF os_queueEvent
    <3>3. /\ eventQueue \in Seq(Name) /\ paramQueue \in Seq(Nat)
          /\ Len(eventQueue) = Len(paramQueue) /\ n \in Name /\ a \in Nat
      BY <1>0, <2>0, ConstantsAssumption DEF TypeOK, ParamsAligned, Name
    <3>4. Zip(Append(eventQueue, n), Append(paramQueue, a))
            = Append(Zip(eventQueue, paramQueue), [name |-> n, arg |-> a])
      BY <3>3, ZipAppend
    <3>5. Pending' = Append(Pending, [name |-> n, arg |-> a])
      BY <1>m, <1>n, <2>0, <3>2, <3>4 DEF Session
    <3>6. Unreported' = Unreported /\ Unread' = Unread /\ Phase' = Phase
      BY <1>m, <1>n, <2>0, <3>2 DEF Phase
    <3>7. Service!Queue(n, a)
      BY <2>0, <3>2, <3>5, <3>6 DEF Service!Queue
    <3> QED
      BY <3>7 DEF Service!Next
  <2>2. CASE \E id \in TimerId : os_startTimer(id) \/ os_cancelTimer(id)
    <3>1. PICK id \in TimerId : os_startTimer(id) \/ os_cancelTimer(id)
      BY <2>2
    <3>2. /\ UNCHANGED <<running, pc, eventQueue, paramQueue, filter, last, wire, obf>>
          /\ running = 1 /\ timers' \in {timers \cup {id}, timers \ {id}}
      BY <3>1 DEF os_startTimer, os_cancelTimer
    <3>3. /\ Pending' = Pending /\ Unreported = timers /\ Unreported' = timers'
          /\ Unread' = Unread /\ Phase' = Phase
      BY <1>m, <1>n, <2>0, <3>2 DEF Session, Phase
    <3>4. Service!StartTimer(id) \/ Service!CancelTimer(id)
      BY <2>0, <3>2, <3>3 DEF Service!StartTimer, Service!CancelTimer
    <3> QED
      BY <3>4 DEF Service!Next
  <2>3. CASE \E f \in Filter : Yield(f)
    <3>1. PICK f \in Filter : Yield(f)
      BY <2>3
    <3>2. /\ UNCHANGED <<running, eventQueue, paramQueue, last, timers, wire, obf>>
          /\ pc' = "pull" /\ filter' = f /\ (running # 1 => f = NoFilter)
      BY <3>1 DEF Yield
    <3>3. /\ Pending' = Pending /\ Unreported' = Unreported
          /\ Unread' = Unread /\ Phase' = "waits"
      BY <1>m, <1>n, <2>0, <3>2 DEF Session, Phase
    <3> QED
      BY <2>0, <3>2, <3>3 DEF Service!Wait, Service!Next
  <2>4. CASE (\E status \in {0, 1} : Finish(status)) \/ os_shutdown
    <3>1. /\ UNCHANGED <<eventQueue, paramQueue, filter, last, timers, wire, obf>>
          /\ pc' \in {"lua", "close", "off"} /\ running = 1
          /\ running' # running => running' = 0
          /\ pc' = "close" => running' = running
          /\ pc' = "lua" => running' = 0
      BY <2>4 DEF Finish, os_shutdown
    <3>2. Unreported' = Unreported /\ Unread' = Unread
      BY <1>m, <1>n, <2>0, <3>1
    <3>3. CASE pc' = "off"
      <4>1. Pending' = <<>> /\ Phase' = "off"
        BY <1>n, <3>3 DEF Session, Phase
      <4>2. (running' # 1) \in {running # 1, TRUE}
        BY <3>1
      <4> QED
        BY <2>0, <3>1, <3>2, <4>1, <4>2 DEF Service!End, Service!Next
    <3>4. CASE pc' = "close"
      <4>1. Pending' = Pending /\ Phase' = "over"
        BY <1>m, <1>n, <2>0, <3>1, <3>4 DEF Session, Phase
      <4> QED
        BY <2>0, <3>1, <3>2, <3>4, <4>1 DEF Service!Return, Service!Next
    <3>5. CASE pc' = "lua"
      <4>1. Pending' = Pending /\ Phase' = "runs"
        BY <1>m, <1>n, <2>0, <3>1, <3>5 DEF Session, Phase
      <4>2. (running # 1) = FALSE /\ (running' # 1) = TRUE
        BY <3>1, <3>5
      <4> QED
        BY <2>0, <3>1, <3>2, <4>1, <4>2 DEF Service!Stop, Service!Next
    <3> QED
      BY <3>1, <3>3, <3>4, <3>5
  <2>5. CASE os_reboot
    <3>1. CASE PowerCycle
      <4>1. /\ running = 1 /\ running' = 1 /\ pc' = "start" /\ timers' = {}
            /\ filter' = NoFilter /\ last' = NoEvent /\ UNCHANGED <<wire, obf>>
        BY <2>5, <3>1 DEF os_reboot, PowerCycle
      <4>2. Pending' = <<>> /\ Phase' = "off" /\ Unreported' = {} /\ Unread' = Unread
        BY <1>m, <1>n, <2>0, <4>1 DEF Session, Phase
      <4> QED
        BY <2>0, <4>1, <4>2 DEF Service!Reboot, Service!Next
    <3>2. CASE ~PowerCycle
      <4>1. /\ UNCHANGED <<pc, eventQueue, paramQueue, filter, last, timers, wire, obf>>
            /\ running = 1 /\ running' = 2
        BY <2>5, <3>2 DEF os_reboot
      <4>2. Pending' = Pending /\ Unreported' = Unreported /\ Unread' = Unread /\ Phase' = "runs"
        BY <1>m, <1>n, <2>0, <4>1 DEF Session, Phase
      <4>3. (running # 1) = FALSE /\ (running' # 1) = TRUE
        BY <4>1
      <4> QED
        BY <2>0, <4>1, <4>2, <4>3 DEF Service!Stop, Service!Next
    <3> QED
      BY <3>1, <3>2
  <2> QED
    BY <1>7, <2>1, <2>2, <2>3, <2>4, <2>5 DEF Program
<1>8. CASE Fire
  <2>1. PICK fired \in Orders(timers) : timerEvents(fired)
    BY <1>8 DEF Fire
  <2>2. PICK n \in 1 .. Cardinality(timers) : fired \in [1 .. n -> timers]
    BY DEF Orders
  <2>3. n \in Nat
    OBVIOUS
  <2>4. Len(fired) = n
    BY <2>2, <2>3
  <2>5. /\ UNCHANGED <<running, pc, eventQueue, paramQueue, wire, obf, code, filter, last>>
        /\ pc = "scan" /\ timerQueue = <<>> /\ timerQueue' = fired
        /\ timers' = timers \ {fired[i] : i \in 1 .. Len(fired)}
    BY <2>1 DEF timerEvents
  <2>6. Unreported = timers
    BY <2>5 DEF Unreported
  <2>7. Unreported' = timers
    BY <2>2, <2>4, <2>5 DEF Unreported
  <2>8. Pending' = Pending /\ Unread' = Unread /\ Phase' = Phase
    BY <2>5 DEF Pending, Session, Zip, Unread, Phase
  <2> QED
    BY <2>5, <2>6, <2>7, <2>8 DEF Service!vars
<1>9. CASE Outside
  <2>1. UNCHANGED <<running, pc, eventQueue, paramQueue, timerQueue, timers, code, filter, last>>
    BY <1>9 DEF Outside, Collect, Type, Send
  <2>2. Pending' = Pending /\ Unreported' = Unreported /\ Phase' = Phase
    BY <2>1 DEF Pending, Session, Zip, Unreported, Phase
  <2> DEFINE extra == IF code = <<>> THEN 0 ELSE 1
  <2>3. /\ Unread = Len(wire) + Len(obf) + extra
        /\ Unread' = Len(wire') + Len(obf') + extra /\ extra \in Nat
    BY <2>1 DEF Unread
  <2> HIDE DEF extra
  <2>4. wire \in Seq(Byte) /\ obf \in Seq(Byte)
    BY <1>0 DEF TypeOK
  <2>5. CASE \E key \in Keys : Type(key)
    <3>1. PICK key \in Keys : Type(key)
      BY <2>5
    <3>2. key \in Seq(Byte) /\ Len(key) >= 1
      <4>1. key \in Seq(Byte)
        BY ConstantsAssumption
      <4>2. key # <<>>
        BY KeysAssumption
      <4> QED
        BY <4>1, <4>2
    <3>3. Len(wire') = Len(wire) + Len(key) /\ obf' = obf
      BY <2>4, <3>1, <3>2 DEF Type
    <3>4. Unread' > Unread
      BY <2>3, <2>4, <3>2, <3>3
    <3> QED
      BY <2>1, <2>2, <3>4 DEF Service!Type, Service!Next
  <2>6. CASE Send
    <3>1. Len(wire') = Len(wire) - 1 /\ Len(obf) = 0 /\ Len(obf') = 1
      BY <2>4, <2>6 DEF Send
    <3>2. Unread' = Unread
      BY <2>3, <2>4, <3>1
    <3> QED
      BY <2>1, <2>2, <3>2 DEF Service!vars
  <2> QED
    BY <1>9, <2>5, <2>6 DEF Outside, Collect
<1>10. CASE Idle \/ UNCHANGED vars
  <2>1. UNCHANGED <<running, pc, eventQueue, paramQueue, timerQueue, timers, wire, obf, code,
                    filter, last>>
    BY <1>10 DEF Idle, vars
  <2>2. Pending' = Pending /\ Unreported' = Unreported /\ Unread' = Unread /\ Phase' = Phase
    BY <2>1 DEF Pending, Session, Zip, Unreported, Unread, Phase
  <2> QED
    BY <2>1, <2>2 DEF Service!vars
<1> QED
  BY <1>1, <1>2, <1>3, <1>4, <1>5, <1>6, <1>7, <1>8, <1>9, <1>10
     DEF Next, Kernel, DeliverNothing

(* As long as the stack has room and no queued name is collected, the two  *)
(* queues, the keyboard, the timers and the filter implement the event     *)
(* service that programs rely on.                                          *)
THEOREM EventsDelivered ==
  ASSUME ~StackMayFill, ~MayCollect
  PROVE  Spec => ServiceSpec
<1>1. Init => ServeInv
  <2> SUFFICES ASSUME Init PROVE ServeInv
    OBVIOUS
  <2>1. Len(timerQueue) = 0 /\ code = <<>> /\ timerQueue = <<>>
    BY DEF Init
  <2> QED
    BY <2>1, InitType DEF Init, ServeInv, AlignInv, BootsClean, ParamsAligned, Session,
                     PollsEmpty, Rests
<1>2. Init => Service!Init
  <2> SUFFICES ASSUME Init PROVE Service!Init
    OBVIOUS
  <2>1. Unreported = {} /\ Unread = 0 /\ Pending = <<>> /\ Phase = "off"
    BY DEF Init, Unreported, Unread, Pending, Session, Phase
  <2> QED
    BY <2>1 DEF Init, Service!Init
<1>3. ServeInv /\ [Next]_vars => ServeInv'
  BY NextAlignInv, NextPollsEmpty, NextRests DEF ServeInv, AlignInv
<1>4. ServeInv /\ ServeInv' /\ [Next]_vars => [Service!Next]_(Service!vars)
  BY StepRefines
<1> QED
  BY <1>1, <1>2, <1>3, <1>4, PTL DEF Spec, ServiceSpec, Service!Spec

-----------------------------------------------------------------------------
(* Keys.                                                                   *)

KeysInv == AlignInv /\ PollsEmpty

(* The first event queued for a key, and its number. *)
LEMMA FirstKeyEvent ==
  ASSUME TypeOK, eventQueue = <<>>, paramQueue = <<>>,
         NEW key \in Nat \ {0}, GotKey(key)
  PROVE  /\ Head(eventQueue') = IF Released(key) THEN "key_up" ELSE "key"
         /\ Head(paramQueue') = ps2tocc(key)
<1>1. ps2tocc(key) \in Nat /\ convert_ps2_code(key % 256, modifiers) \in Nat
  BY KeyNumbers
<1> DEFINE k == IF Released(key) THEN "key_up" ELSE "key"
           c == convert_ps2_code(key % 256, modifiers)
           n == ps2tocc(key)
<1>2. k \in Name /\ "char" \in Name /\ c \in Nat /\ n \in Nat
  BY <1>1 DEF Name, KernelName
<1>3. /\ KeyNames(key) = <<k>> \o (IF c = 0 THEN <<>> ELSE <<"char">>)
      /\ KeyParams(key) = <<n>> \o (IF c = 0 THEN <<>> ELSE <<c>>)
  BY DEF KeyNames, KeyParams
<1>4. TimerNames \in Seq(Name) /\ timerQueue \in Seq(Nat)
  <2>1. Len(timerQueue) \in Nat /\ "timer" \in Name
    BY DEF TypeOK, Name, KernelName
  <2>2. TimerNames \in Seq(Name)
    BY <2>1 DEF TimerNames
  <2>3. timerQueue \in Seq(TimerId) /\ TimerId \subseteq Nat
    BY ConstantsAssumption DEF TypeOK
  <2> QED
    BY <2>2, <2>3, SeqMonotonic, Zenon
<1>5. eventQueue' = KeyNames(key) \o TimerNames /\ paramQueue' = KeyParams(key) \o timerQueue
  <2>1. KeyNames(key) \in Seq(Name) /\ KeyParams(key) \in Seq(Nat)
    BY KeyHalves
  <2>2. /\ KeyNames(key) \o TimerNames \in Seq(Name)
        /\ KeyParams(key) \o timerQueue \in Seq(Nat)
    BY <2>1, <1>4
  <2> QED
    BY <2>2 DEF GotKey
<1> HIDE DEF k, c, n
<1>6. Head(eventQueue') = k
  <2>1. CASE c = 0
    BY <1>2, <1>3, <1>4, <1>5, <2>1
  <2>2. CASE c # 0
    BY <1>2, <1>3, <1>4, <1>5, <2>2
  <2> QED
    BY <2>1, <2>2
<1>7. Head(paramQueue') = n
  <2>1. CASE c = 0
    BY <1>2, <1>3, <1>4, <1>5, <2>1
  <2>2. CASE c # 0
    BY <1>2, <1>3, <1>4, <1>5, <2>2
  <2> QED
    BY <2>1, <2>2
<1> QED
  BY <1>6, <1>7 DEF k, n

(* The masks of ps2tocc tell the extended keys from the others, and the    *)
(* release bit is that of the last byte.                                   *)
LEMMA KeyDecoding ==
  ASSUME NEW b \in Byte
  PROVE  /\ PlainKey(b) \in Nat /\ ps2tocc(PlainKey(b)) = b % 128
         /\ Released(PlainKey(b)) <=> b >= 128
         /\ ExtendedKey(b) \in Nat \ {0} /\ ps2tocc(ExtendedKey(b)) = (b % 128) + 128
         /\ Released(ExtendedKey(b)) <=> b >= 128
<1>1. b \in 0 .. 255
  BY DEF Byte
<1>2. /\ b \div 256 = 0 /\ b \div 65536 = 0
      /\ (b \div 128) % 2 = 1 <=> b >= 128
  BY <1>1
<1>3. /\ (57344 + b) \div 256 = 224 /\ (57344 + b) % 128 = b % 128
      /\ ((57344 + b) \div 128) % 2 = 1 <=> b >= 128
  BY <1>1
<1> QED
  BY <1>1, <1>2, <1>3 DEF PlainKey, ExtendedKey, ps2tocc, Released

(* The number of a key, by how many bytes the key has. *)
LEMMA KeyForms ==
  ASSUME NEW key \in Keys
  PROVE  /\ Len(key) = 1 => key[1] # 0 /\ KeyNumber[key] = key[1] % 128
         /\ Len(key) = 2 => KeyNumber[key] = (key[2] % 128) + 128
         /\ Len(key) = 3 => key[1] = PAUSE
<1>1. CASE \E b \in Byte \ {0, EXTENDED, PAUSE} : key = <<b>> /\ KeyNumber[key] = b % 128
  <2>1. PICK b \in Byte \ {0, EXTENDED, PAUSE} : key = <<b>> /\ KeyNumber[key] = b % 128
    BY <1>1
  <2> QED
    BY <2>1
<1>2. CASE \E b \in Byte : key = <<EXTENDED, b>> /\ KeyNumber[key] = (b % 128) + 128
  <2>1. PICK b \in Byte : key = <<EXTENDED, b>> /\ KeyNumber[key] = (b % 128) + 128
    BY <1>2
  <2> QED
    BY <2>1
<1>3. CASE Len(key) = 3 /\ key[1] = PAUSE
  BY <1>3
<1> QED
  BY <1>1, <1>2, <1>3, KeysAssumption, Zenon

(* The bytes read and the byte that waits, as one sequence. *)
LEMMA LastByte ==
  ASSUME NEW c \in Seq(Byte), NEW o \in Seq(Byte), o # <<>>, Len(o) <= 1
  PROVE  /\ Len(c \o o) = Len(c) + 1 /\ Len(c) \in Nat
         /\ (c \o o)[Len(c) + 1] = Head(o)
         /\ \A i \in 1 .. Len(c) : (c \o o)[i] = c[i]
<1>1. Len(o) = 1 /\ Len(c) \in Nat /\ Head(o) = o[1]
  OBVIOUS
<1>2. /\ Len(c \o o) = Len(c) + Len(o)
      /\ \A i \in 1 .. Len(c) + Len(o) : (c \o o)[i] =
           IF i <= Len(c) THEN c[i] ELSE o[i - Len(c)]
  BY ConcatProperties, Zenon
<1>3. Len(c) + 1 - Len(c) = 1
  BY <1>1
<1> QED
  BY <1>1, <1>2, <1>3

(* A key read without a timer in between is queued under its number. *)
LEMMA StepDecodes ==
  ASSUME KeysInv, [Next]_vars, NEW key \in Keys,
         pc = "scan", pc' = "pull", timerQueue = <<>>, code \o obf = key, Head(key) # PAUSE
  PROVE  /\ Head(eventQueue') = IF key[Len(key)] >= 128 THEN "key_up" ELSE "key"
         /\ Head(paramQueue') = KeyNumber[key]
<1> USE DEF queues, keyboard
<1>1. TypeOK /\ eventQueue = <<>> /\ paramQueue = <<>>
  <2>1. TypeOK /\ eventQueue = <<>> /\ Len(paramQueue) = Len(eventQueue)
    BY DEF KeysInv, AlignInv, PollsEmpty, ParamsAligned, Session
  <2> QED
    BY <2>1 DEF TypeOK
<1>2. getkey
  <2>1. ~(Start \/ Close \/ Poll \/ Refuse \/ Deliver \/ DeliverNothing)
    BY DEF Start, Close, Poll, Refuse, Deliver, DeliverNothing
  <2>2. ~Program
    BY DEF Program, os_queueEvent, os_startTimer, os_cancelTimer, Yield, Finish,
           os_shutdown, os_reboot
  <2>3. ~(Fire \/ Outside \/ Idle \/ UNCHANGED vars)
    BY DEF Fire, timerEvents, Outside, Collect, Type, Send, Idle, vars
  <2> QED
    BY <2>1, <2>2, <2>3 DEF Next, Kernel
<1>3. /\ obf \in Seq(Byte) /\ obf # <<>> /\ Len(obf) <= 1 /\ code \in Seq(Byte)
      /\ key \in Seq(Byte)
  BY <1>1, <1>2, ConstantsAssumption DEF getkey, ScancodeReady, TypeOK
<1> DEFINE b == Head(obf)
<1>4. get_scancode = b /\ b \in Byte
  BY <1>3 DEF get_scancode
<1>5. /\ Len(key) = Len(code) + 1 /\ Len(code) \in Nat
      /\ key[Len(code) + 1] = b
      /\ \A i \in 1 .. Len(code) : key[i] = code[i]
  BY <1>3, LastByte, Zenon
<1>6. \/ code = <<>> /\ b \notin {EXTENDED, PAUSE} /\ GotKey(PlainKey(b))
      \/ code = <<EXTENDED>> /\ GotKey(ExtendedKey(b))
      \/ Len(code) = 2
  BY <1>2, <1>4 DEF getkey
<1>b. b \in Byte
  BY <1>4
<1> HIDE DEF b
<1>7. CASE code = <<>> /\ b \notin {EXTENDED, PAUSE} /\ GotKey(PlainKey(b))
  <2>1. Len(key) = 1 /\ key[1] = b
    BY <1>5, <1>7
  <2>2. PlainKey(b) # 0 /\ KeyNumber[key] = b % 128
    BY <2>1, KeyForms DEF PlainKey
  <2>3. /\ Head(eventQueue') = IF Released(PlainKey(b)) THEN "key_up" ELSE "key"
        /\ Head(paramQueue') = ps2tocc(PlainKey(b))
    BY <1>1, <1>7, <1>b, <2>2, KeyDecoding, FirstKeyEvent
  <2> QED
    BY <1>b, <2>1, <2>2, <2>3, KeyDecoding
<1>8. CASE code = <<EXTENDED>> /\ GotKey(ExtendedKey(b))
  <2>1. Len(key) = 2 /\ key[2] = b
    BY <1>5, <1>8
  <2>2. KeyNumber[key] = (b % 128) + 128
    BY <2>1, KeyForms
  <2>3. /\ Head(eventQueue') = IF Released(ExtendedKey(b)) THEN "key_up" ELSE "key"
        /\ Head(paramQueue') = ps2tocc(ExtendedKey(b))
    BY <1>1, <1>8, <1>b, KeyDecoding, FirstKeyEvent
  <2> QED
    BY <1>b, <2>1, <2>2, <2>3, KeyDecoding
<1>9. CASE Len(code) = 2
  <2>1. Len(key) = 3
    BY <1>5, <1>9
  <2>2. key[1] = PAUSE
    BY <2>1, KeyForms
  <2> QED
    BY <1>3, <2>1, <2>2
<1> QED
  BY <1>6, <1>7, <1>8, <1>9

(* As long as the stack has room, every key whose bytes are read before a  *)
(* timer fires is the next event the program hears of, pressed or released *)
(* as its last byte says and under the number keys.lua has for it, Pause   *)
(* excepted.                                                               *)
THEOREM KeysAreDecoded ==
  ASSUME ~StackMayFill
  PROVE  Spec => KeysDecoded
<1>1. Init => KeysInv
  BY InitType DEF Init, KeysInv, PollsEmpty, AlignInv, BootsClean, ParamsAligned, Session
<1>2. KeysInv /\ [Next]_vars => KeysInv'
  BY NextAlignInv, NextPollsEmpty DEF KeysInv, AlignInv
<1> DEFINE Decodes ==
      \A key \in Keys :
        pc = "scan" /\ pc' = "pull" /\ timerQueue = <<>> /\ code \o obf = key /\ Head(key) # PAUSE =>
          /\ Head(eventQueue') = IF key[Len(key)] >= 128 THEN "key_up" ELSE "key"
          /\ Head(paramQueue') = KeyNumber[key]
<1>3. KeysInv /\ [Next]_vars => [Decodes]_vars
  BY StepDecodes
<1> QED
  BY <1>1, <1>2, <1>3, PTL DEF Spec, KeysDecoded
=============================================================================
