--------------------------- MODULE AlohaRdcProofs ---------------------------
(***************************************************************************)
(* Proofs about AlohaRdc: whatever the interrupt comes between, the radio is *)
(* not left burning, the timers are set, a send is not disturbed, and a layer *)
(* that is turned off leaves the radio as it was told.  And about the clock of *)
(* its power cycle, PowerCycleClock.                                         *)
(***************************************************************************)
EXTENDS AlohaRdc, PowerCycleClock, TLAPS

OffPoints == {"off_test", "off_set", "off_hw"}
OnPoints == {"on_test", "on_set", "on_hw"}
TurnOnPoints == {"turn_on_keep", "turn_on_look", "turn_on_set"}
TurnOffPoints == {"turn_off_keep", "turn_off_flag", "turn_off_hw"}

-----------------------------------------------------------------------------
(* The inductive invariant, part by part.                                    *)

Locals == [pc : MainPoints, ret : MainPoints, arg : BOOLEAN, was_on : BOOLEAN]

\* Who calls the subroutines, and that a handler starts with fresh locals.
PlacesOK ==
  /\ main.pc = "idle" => main = Idle
  /\ main.pc \in OffPoints =>
       main.ret \in {"send_acquire", "send_restore", "input_parse", "input_stop",
                     "burst_end"}
  /\ main.pc \in OnPoints => main.ret \in {"send_transmit", "input_ctimer"}
  /\ main.pc \in TurnOnPoints \cup TurnOffPoints \cup {"send_flag", "send_check"} =>
       main.ret = "idle"
  /\ main.pc \in {"input_ctimer", "input_stop", "burst_end"} => main.ret = main.pc
  /\ main.pc = "input_parse" => main.ret \in {"idle", "input_parse"}
  /\ main.pc \in {"send_acquire", "send_on", "send_transmit", "send_restore", "send_done"} =>
       main.ret \in {"send_acquire", "send_transmit", "send_restore"}

\* The main context has taken the radio to send.
SendingPlace ==
  \/ main.pc \in {"send_check", "send_acquire", "send_on", "send_transmit",
                  "send_restore", "send_done"}
  \/ main.pc \in OffPoints /\ main.ret \in {"send_acquire", "send_restore"}
  \/ main.pc \in OnPoints /\ main.ret = "send_transmit"

\* It has made the layer be on for it, if it was not.
BorrowingPlace ==
  \/ main.pc \in {"send_transmit", "send_restore"}
  \/ main.pc \in OffPoints /\ main.ret = "send_restore"
  \/ main.pc \in OnPoints /\ main.ret = "send_transmit"

\* The modes follow the places.
ModesOK ==
  /\ we_are_sending <=> SendingPlace
  /\ SendingPlace \/ main.pc = "send_flag" => ~we_are_receiving_burst
  /\ main.pc \in OnPoints => we_are_sending \/ we_are_receiving_burst
  /\ main.ret = "input_stop" => ~we_are_receiving_burst

\* The layer is on or off as the place says.
FlagsOK ==
  /\ main.pc \in TurnOnPoints \cup {"off_set", "off_hw", "on_set", "on_hw"} => contikimac_is_on
  /\ main.pc \in TurnOffPoints => ~contikimac_is_on
  /\ BorrowingPlace => contikimac_is_on
  /\ main.pc = "send_on" => main.was_on = contikimac_is_on
  /\ main.pc = "send_done" => main.was_on = contikimac_is_on
  /\ main.pc \in {"off_set", "off_hw"} => ~contikimac_keep_radio_on
  /\ BorrowingPlace /\ ~main.was_on => contikimac_keep_radio_on /\ radio
  /\ main.pc = "send_flag" \/ SendingPlace =>
       contikimac_is_on \/ contikimac_keep_radio_on

\* What is known of the radio while it is switched, and while the layer is off.
RadioOK ==
  /\ main.pc = "on_hw" => radio_is_on
  /\ main.pc = "turn_off_flag" => contikimac_keep_radio_on = main.arg
  /\ main.pc = "turn_off_hw" =>
       contikimac_keep_radio_on = main.arg /\ radio_is_on = main.arg
  /\ ~contikimac_is_on /\ main.pc \notin TurnOffPoints => radio = contikimac_keep_radio_on

\* The slot of rtimer.c is taken exactly while the hardware is armed, and the
\* layer that is on and not just turned on has it.
SlotOK ==
  /\ next_rtimer = armed
  /\ isr /= "out" => ~armed
  /\ contikimac_is_on /\ isr = "out" =>
       armed \/ main.pc \in TurnOnPoints \/ (BorrowingPlace /\ ~main.was_on)
  /\ main.pc = "turn_on_set" /\ ~main.arg /\ isr = "out" => armed

\* The invariant: none of the properties is inductive without the rest.
RInv ==
  /\ TypeOK /\ PlacesOK /\ ModesOK /\ FlagsOK /\ RadioOK /\ SlotOK
  /\ OffIsOff
  /\ BurstHasDeadline

USE DEF OffPoints, OnPoints, TurnOnPoints, TurnOffPoints, IsrPoints

-----------------------------------------------------------------------------
(* The locals of the main context after a step.                              *)

\* Goto changes the place alone.
LEMMA GotoSets ==
  ASSUME TypeOK, NEW x \in MainPoints, Goto(x)
  PROVE  /\ main' \in Locals
         /\ main'.pc = x /\ main'.ret = main.ret
         /\ main'.arg = main.arg /\ main'.was_on = main.was_on
BY DEF TypeOK, Goto, Locals

\* Call remembers where to return to.
LEMMA CallSets ==
  ASSUME TypeOK, NEW x \in MainPoints, NEW y \in MainPoints, Call(x, y)
  PROVE  /\ main' \in Locals
         /\ main'.pc = x /\ main'.ret = y
         /\ main'.arg = main.arg /\ main'.was_on = main.was_on
<1>1. main' = [pc |-> x, ret |-> y, arg |-> main.arg, was_on |-> main.was_on]
  BY DEF TypeOK, Call
<1> QED BY <1>1 DEF TypeOK, Locals

\* A handler that has finished leaves nothing.
LEMMA FinishSets ==
  ASSUME main' = Idle
  PROVE  /\ main' \in Locals
         /\ main'.pc = "idle" /\ main'.ret = "idle"
         /\ main'.arg = FALSE /\ main'.was_on = FALSE
BY DEF Idle, Locals, MainPoints

-----------------------------------------------------------------------------
(* Steps of on() and off(). *)

\* off() goes on only where the layer is on and not told to keep the radio on.
LEMMA OffTestKeeps ==
  ASSUME RInv, OffTest
  PROVE  RInv'
<1> DEFINE x == IF contikimac_is_on /\ radio_is_on /\ ~contikimac_keep_radio_on
                 THEN "off_set" ELSE main.ret
<1>1. Goto(x) /\ x \in MainPoints
  BY DEF OffTest, RInv, TypeOK, MainPoints
<1>2. /\ main' \in Locals
      /\ main'.pc = x /\ main'.ret = main.ret
      /\ main'.arg = main.arg /\ main'.was_on = main.was_on
  <2> HIDE DEF x
  <2> QED BY <1>1, GotoSets DEF RInv
<1>3. TypeOK'
  BY <1>2 DEF RInv, TypeOK, Locals, OffTest, MainAt, flags, modes, air, timers
<1> QED
  BY <1>2, <1>3 DEF RInv, PlacesOK, ModesOK, FlagsOK, RadioOK, SlotOK, OffIsOff,
     BurstHasDeadline, Idle, SendingPlace, BorrowingPlace, SwitchingRadio, TypeOK,
     OffTest, MainAt, flags, modes, air, timers

\* Until off() has switched the radio the main context is known to be at it.
LEMMA OffSetKeeps ==
  ASSUME RInv, OffSet
  PROVE  RInv'
<1> DEFINE x == "off_hw"
<1>1. Goto(x) /\ x \in MainPoints
  BY DEF OffSet, RInv, TypeOK, MainPoints
<1>2. /\ main' \in Locals
      /\ main'.pc = x /\ main'.ret = main.ret
      /\ main'.arg = main.arg /\ main'.was_on = main.was_on
  <2> HIDE DEF x
  <2> QED BY <1>1, GotoSets DEF RInv
<1>3. radio_is_on' \in BOOLEAN
  BY Zenon DEF OffSet, RInv, TypeOK
<1>4. TypeOK'
  BY <1>2, <1>3 DEF RInv, TypeOK, Locals, OffSet, MainAt, flags, modes, air, timers
<1> QED
  BY <1>2, <1>4 DEF RInv, PlacesOK, ModesOK, FlagsOK, RadioOK, SlotOK, OffIsOff,
     BurstHasDeadline, Idle, SendingPlace, BorrowingPlace, SwitchingRadio, TypeOK,
     OffSet, MainAt, flags, modes, air, timers

\* The radio loses the frame it was receiving; the layer believes it off already.
LEMMA OffHwKeeps ==
  ASSUME RInv, OffHw
  PROVE  RInv'
<1> DEFINE x == main.ret
<1>1. Goto(x) /\ x \in MainPoints
  BY DEF OffHw, RInv, TypeOK, MainPoints
<1>2. /\ main' \in Locals
      /\ main'.pc = x /\ main'.ret = main.ret
      /\ main'.arg = main.arg /\ main'.was_on = main.was_on
  <2> HIDE DEF x
  <2> QED BY <1>1, GotoSets DEF RInv
<1>3. radio' \in BOOLEAN
  BY Zenon DEF OffHw, SwitchOff, RInv, TypeOK
<1>4. TypeOK'
  BY <1>2, <1>3 DEF RInv, TypeOK, Locals, OffHw, MainAt, SwitchOff, flags, modes, air,
     timers
<1> QED
  BY <1>2, <1>4 DEF RInv, PlacesOK, ModesOK, FlagsOK, RadioOK, SlotOK, OffIsOff,
     BurstHasDeadline, Idle, SendingPlace, BorrowingPlace, SwitchingRadio, TypeOK,
     OffHw, MainAt, SwitchOff, flags, modes, air, timers

\* on() goes on only in a send or a burst, which keep the interrupt away.
LEMMA OnTestKeeps ==
  ASSUME RInv, OnTest
  PROVE  RInv'
<1> DEFINE x == IF contikimac_is_on /\ ~radio_is_on THEN "on_set" ELSE main.ret
<1>1. Goto(x) /\ x \in MainPoints
  BY DEF OnTest, RInv, TypeOK, MainPoints
<1>2. /\ main' \in Locals
      /\ main'.pc = x /\ main'.ret = main.ret
      /\ main'.arg = main.arg /\ main'.was_on = main.was_on
  <2> HIDE DEF x
  <2> QED BY <1>1, GotoSets DEF RInv
<1>3. TypeOK'
  BY <1>2 DEF RInv, TypeOK, Locals, OnTest, MainAt, flags, modes, air, timers
<1> QED
  BY <1>2, <1>3 DEF RInv, PlacesOK, ModesOK, FlagsOK, RadioOK, SlotOK, OffIsOff,
     BurstHasDeadline, Idle, SendingPlace, BorrowingPlace, SwitchingRadio, TypeOK,
     OnTest, MainAt, flags, modes, air, timers

\* The radio is believed on before it is on.
LEMMA OnSetKeeps ==
  ASSUME RInv, OnSet
  PROVE  RInv'
<1> DEFINE x == "on_hw"
<1>1. Goto(x) /\ x \in MainPoints
  BY DEF OnSet, RInv, TypeOK, MainPoints
<1>2. /\ main' \in Locals
      /\ main'.pc = x /\ main'.ret = main.ret
      /\ main'.arg = main.arg /\ main'.was_on = main.was_on
  <2> HIDE DEF x
  <2> QED BY <1>1, GotoSets DEF RInv
<1>3. radio_is_on' \in BOOLEAN
  BY Zenon DEF OnSet, RInv, TypeOK
<1>4. TypeOK'
  BY <1>2, <1>3 DEF RInv, TypeOK, Locals, OnSet, MainAt, flags, modes, air, timers
<1> QED
  BY <1>2, <1>4 DEF RInv, PlacesOK, ModesOK, FlagsOK, RadioOK, SlotOK, OffIsOff,
     BurstHasDeadline, Idle, SendingPlace, BorrowingPlace, SwitchingRadio, TypeOK,
     OnSet, MainAt, flags, modes, air, timers

\* The radio is switched on while it is still believed on.
LEMMA OnHwKeeps ==
  ASSUME RInv, OnHw
  PROVE  RInv'
<1> DEFINE x == main.ret
<1>1. Goto(x) /\ x \in MainPoints
  BY DEF OnHw, RInv, TypeOK, MainPoints
<1>2. /\ main' \in Locals
      /\ main'.pc = x /\ main'.ret = main.ret
      /\ main'.arg = main.arg /\ main'.was_on = main.was_on
  <2> HIDE DEF x
  <2> QED BY <1>1, GotoSets DEF RInv
<1>3. radio' \in BOOLEAN
  BY Zenon DEF OnHw, RInv, TypeOK
<1>4. TypeOK'
  BY <1>2, <1>3 DEF RInv, TypeOK, Locals, OnHw, MainAt, flags, modes, air, timers
<1> QED
  BY <1>2, <1>4 DEF RInv, PlacesOK, ModesOK, FlagsOK, RadioOK, SlotOK, OffIsOff,
     BurstHasDeadline, Idle, SendingPlace, BorrowingPlace, SwitchingRadio, TypeOK,
     OnHw, MainAt, flags, modes, air, timers

-----------------------------------------------------------------------------
(* Steps of send_packet. *)

\* A send begins outside bursts, with the layer or the radio on.
LEMMA SendStartKeeps ==
  ASSUME RInv, SendStart
  PROVE  RInv'
<1>1. /\ main' \in Locals
      /\ main'.pc = "send_flag" /\ main'.ret = "idle" /\ main'.was_on = FALSE
  BY DEF SendStart, Idle, Locals, MainPoints
<1>2. TypeOK'
  BY <1>1 DEF RInv, TypeOK, Locals, SendStart, MainAt, flags, modes, air, timers
<1> QED
  BY <1>1, <1>2 DEF RInv, PlacesOK, ModesOK, FlagsOK, RadioOK, SlotOK, OffIsOff,
     BurstHasDeadline, Idle, SendingPlace, BorrowingPlace, SwitchingRadio, TypeOK,
     SendStart, MainAt, flags, modes, air, timers

\* The flag that keeps the interrupt away is set at the first place of the send.
LEMMA SendFlagKeeps ==
  ASSUME RInv, SendFlag
  PROVE  RInv'
<1> DEFINE x == "send_check"
<1>1. Goto(x) /\ x \in MainPoints
  BY DEF SendFlag, RInv, TypeOK, MainPoints
<1>2. /\ main' \in Locals
      /\ main'.pc = x /\ main'.ret = main.ret
      /\ main'.arg = main.arg /\ main'.was_on = main.was_on
  <2> HIDE DEF x
  <2> QED BY <1>1, GotoSets DEF RInv
<1>3. we_are_sending' \in BOOLEAN
  BY Zenon DEF SendFlag, RInv, TypeOK
<1>4. TypeOK'
  BY <1>2, <1>3 DEF RInv, TypeOK, Locals, SendFlag, MainAt, flags, modes, air, timers
<1> QED
  BY <1>2, <1>4 DEF RInv, PlacesOK, ModesOK, FlagsOK, RadioOK, SlotOK, OffIsOff,
     BurstHasDeadline, Idle, SendingPlace, BorrowingPlace, SwitchingRadio, TypeOK,
     SendFlag, MainAt, flags, modes, air, timers

\* A send that would trash a reception is given up, otherwise the radio is freed.
LEMMA SendCheckKeeps ==
  ASSUME RInv, SendCheck
  PROVE  RInv'
<1>1. /\ main' \in Locals
      /\ rx /= "none" => main' = Idle /\ main'.pc = "idle" /\ main'.ret = "idle"
      /\ rx = "none" => /\ main'.pc = "off_test" /\ main'.ret = "send_acquire"
                       /\ main'.arg = main.arg /\ main'.was_on = main.was_on
  <2>1. CASE rx /= "none"
    BY <2>1, FinishSets DEF SendCheck, Finish
  <2>2. CASE rx = "none"
    <3>1. Call("off_test", "send_acquire")
      BY <2>2 DEF SendCheck
    <3>2. "off_test" \in MainPoints /\ "send_acquire" \in MainPoints
      BY DEF MainPoints
    <3> QED BY <2>2, <3>1, <3>2, CallSets DEF RInv
  <2> QED BY <2>1, <2>2
<1>2. TypeOK'
  <2>1. TypeOK
    BY DEF RInv
  <2>2. /\ we_are_sending' \in {FALSE, we_are_sending}
        /\ UNCHANGED <<flags, we_are_receiving_burst, air, ct, timers, pt, isr>>
    BY DEF SendCheck
  <2>3. main' \in [pc : MainPoints, ret : MainPoints, arg : BOOLEAN, was_on : BOOLEAN]
    BY <1>1 DEF Locals
  <2>4. we_are_sending' \in BOOLEAN
    BY <2>1, <2>2 DEF TypeOK
  <2> QED BY <2>1, <2>2, <2>3, <2>4 DEF TypeOK, flags, air, timers
<1> QED
  BY <1>1, <1>2 DEF RInv, PlacesOK, ModesOK, FlagsOK, RadioOK, SlotOK, OffIsOff,
     BurstHasDeadline, Idle, SendingPlace, BorrowingPlace, SwitchingRadio, TypeOK,
     SendCheck, MainAt, flags, modes, air, timers

\* was_on is the state of the layer, which nothing but the main context changes.
LEMMA SendAcquireKeeps ==
  ASSUME RInv, SendAcquire
  PROVE  RInv'
<1>1. /\ main' \in Locals
      /\ main'.pc = "send_on" /\ main'.ret = main.ret
      /\ main'.arg = main.arg /\ main'.was_on = contikimac_is_on
  <2>1. main' = [pc |-> "send_on", ret |-> main.ret, arg |-> main.arg,
                 was_on |-> contikimac_is_on]
    BY DEF SendAcquire, RInv, TypeOK
  <2> QED BY <2>1 DEF RInv, TypeOK, Locals, MainPoints
<1>2. TypeOK'
  BY <1>1 DEF RInv, TypeOK, Locals, SendAcquire, MainAt, flags, modes, air, timers
<1> QED
  BY <1>1, <1>2 DEF RInv, PlacesOK, ModesOK, FlagsOK, RadioOK, SlotOK, OffIsOff,
     BurstHasDeadline, Idle, SendingPlace, BorrowingPlace, SwitchingRadio, TypeOK,
     SendAcquire, MainAt, flags, modes, air, timers

\* The layer is on for the send, and was_on remembers whether it is to stay so.
LEMMA SendOnKeeps ==
  ASSUME RInv, SendOn
  PROVE  RInv'
<1>1. /\ main' \in Locals
      /\ main.arg => main'.pc = "send_transmit" /\ main'.ret = main.ret
      /\ ~main.arg => main'.pc = "on_test" /\ main'.ret = "send_transmit"
      /\ main'.arg = main.arg /\ main'.was_on = main.was_on
  <2>1. {"send_transmit", "on_test"} \subseteq MainPoints
    BY DEF MainPoints
  <2>2. CASE main.arg
    <3>1. Goto("send_transmit")
      BY <2>2 DEF SendOn
    <3> QED BY <3>1, <2>1, <2>2, GotoSets DEF RInv
  <2>3. CASE ~main.arg
    <3>1. Call("on_test", "send_transmit")
      BY <2>3 DEF SendOn
    <3> QED BY <3>1, <2>1, <2>3, CallSets DEF RInv
  <2> QED BY <2>2, <2>3
<1>2. contikimac_is_on' \in BOOLEAN
  BY Zenon DEF SendOn, RInv, TypeOK
<1>3. TypeOK'
  BY <1>1, <1>2 DEF RInv, TypeOK, Locals, SendOn, MainAt, flags, modes, air, timers
<1> QED
  BY <1>1, <1>3 DEF RInv, PlacesOK, ModesOK, FlagsOK, RadioOK, SlotOK, OffIsOff,
     BurstHasDeadline, Idle, SendingPlace, BorrowingPlace, SwitchingRadio, TypeOK,
     SendOn, MainAt, flags, modes, air, timers

\* A borrowed layer keeps the radio on after the transmission.
LEMMA SendTransmitKeeps ==
  ASSUME RInv, SendTransmit
  PROVE  RInv'
<1>1. Call("off_test", "send_restore")
  BY DEF SendTransmit
<1>2. "off_test" \in MainPoints /\ "send_restore" \in MainPoints
  BY DEF MainPoints
<1>3. /\ main' \in Locals
      /\ main'.pc = "off_test" /\ main'.ret = "send_restore"
      /\ main'.arg = main.arg /\ main'.was_on = main.was_on
  BY <1>1, <1>2, CallSets DEF RInv
<1>4. TypeOK'
  BY <1>3 DEF RInv, TypeOK, Locals, SendTransmit, MainAt, flags, modes, air, timers
<1> QED
  BY <1>3, <1>4 DEF RInv, PlacesOK, ModesOK, FlagsOK, RadioOK, SlotOK, OffIsOff,
     BurstHasDeadline, Idle, SendingPlace, BorrowingPlace, SwitchingRadio, TypeOK,
     SendTransmit, MainAt, flags, modes, air, timers

\* The flag returns to what it was, as only the main context writes it.
LEMMA SendRestoreKeeps ==
  ASSUME RInv, SendRestore
  PROVE  RInv'
<1> DEFINE x == "send_done"
<1>1. Goto(x) /\ x \in MainPoints
  BY DEF SendRestore, RInv, TypeOK, MainPoints
<1>2. /\ main' \in Locals
      /\ main'.pc = x /\ main'.ret = main.ret
      /\ main'.arg = main.arg /\ main'.was_on = main.was_on
  <2> HIDE DEF x
  <2> QED BY <1>1, GotoSets DEF RInv
<1>3. TypeOK'
  BY <1>2 DEF RInv, TypeOK, Locals, SendRestore, MainAt, flags, modes, air, timers
<1> QED
  BY <1>2, <1>3 DEF RInv, PlacesOK, ModesOK, FlagsOK, RadioOK, SlotOK, OffIsOff,
     BurstHasDeadline, Idle, SendingPlace, BorrowingPlace, SwitchingRadio, TypeOK,
     SendRestore, MainAt, flags, modes, air, timers

\* A send that is over has returned the layer as it found it.
LEMMA SendDoneKeeps ==
  ASSUME RInv, SendDone
  PROVE  RInv'
<1>1. /\ main' \in Locals /\ main' = Idle
      /\ main'.pc = "idle" /\ main'.ret = "idle"
      /\ main'.arg = FALSE /\ main'.was_on = FALSE
  BY FinishSets DEF SendDone, Finish
<1>2. we_are_sending' \in BOOLEAN
  BY Zenon DEF SendDone, RInv, TypeOK
<1>3. TypeOK'
  BY <1>1, <1>2 DEF RInv, TypeOK, Locals, SendDone, MainAt, flags, modes, air, timers
<1> QED
  BY <1>1, <1>3 DEF RInv, PlacesOK, ModesOK, FlagsOK, RadioOK, SlotOK, OffIsOff,
     BurstHasDeadline, Idle, SendingPlace, BorrowingPlace, SwitchingRadio, TypeOK,
     SendDone, MainAt, flags, modes, air, timers

-----------------------------------------------------------------------------
(* Steps of input_packet and recv_burst_off. *)

\* A packet is taken in; the radio stays on for the rest of a burst.
LEMMA InputStartKeeps ==
  ASSUME RInv, InputStart
  PROVE  RInv'
<1>1. /\ main' \in Locals
      /\ we_are_receiving_burst => main'.pc = "input_parse" /\ main'.ret = "idle"
      /\ ~we_are_receiving_burst => main'.pc = "off_test" /\ main'.ret = "input_parse"
  <2>1. {"input_parse", "off_test"} \subseteq MainPoints /\ main.ret = "idle"
    BY DEF RInv, PlacesOK, InputStart, MainAt, Idle, MainPoints
  <2>2. CASE we_are_receiving_burst
    <3>1. Goto("input_parse")
      BY <2>2 DEF InputStart
    <3> QED BY <3>1, <2>1, <2>2, GotoSets DEF RInv
  <2>3. CASE ~we_are_receiving_burst
    <3>1. Call("off_test", "input_parse")
      BY <2>3 DEF InputStart
    <3> QED BY <3>1, <2>1, <2>3, CallSets DEF RInv
  <2> QED BY <2>2, <2>3
<1>2. TypeOK'
  BY <1>1 DEF RInv, TypeOK, Locals, InputStart, MainAt, flags, modes, air, timers
<1> QED
  BY <1>1, <1>2 DEF RInv, PlacesOK, ModesOK, FlagsOK, RadioOK, SlotOK, OffIsOff,
     BurstHasDeadline, Idle, SendingPlace, BorrowingPlace, SwitchingRadio, TypeOK,
     InputStart, MainAt, flags, modes, air, timers

\* A frame that is not for us leaves no trace.
LEMMA InputIgnoredKeeps ==
  ASSUME RInv, InputIgnored
  PROVE  RInv'
<1>1. /\ main' \in Locals /\ main' = Idle
      /\ main'.pc = "idle" /\ main'.ret = "idle"
      /\ main'.arg = FALSE /\ main'.was_on = FALSE
  BY FinishSets DEF InputIgnored, Finish
<1>2. TypeOK'
  BY <1>1 DEF RInv, TypeOK, Locals, InputIgnored, MainAt, flags, modes, air, timers
<1> QED
  BY <1>1, <1>2 DEF RInv, PlacesOK, ModesOK, FlagsOK, RadioOK, SlotOK, OffIsOff,
     BurstHasDeadline, Idle, SendingPlace, BorrowingPlace, SwitchingRadio, TypeOK,
     InputIgnored, MainAt, flags, modes, air, timers

\* A burst that goes on has its deadline set next.
LEMMA InputForUsKeeps ==
  ASSUME RInv, InputForUs
  PROVE  RInv'
<1>1. /\ main' \in Locals
      /\ we_are_receiving_burst' => main'.pc = "on_test" /\ main'.ret = "input_ctimer"
      /\ ~we_are_receiving_burst' => main'.pc = "off_test" /\ main'.ret = "input_stop"
  <2>1. {"on_test", "input_ctimer", "off_test", "input_stop"} \subseteq MainPoints
    BY DEF MainPoints
  <2>2. CASE we_are_receiving_burst'
    <3>1. Call("on_test", "input_ctimer")
      BY <2>2 DEF InputForUs
    <3> QED BY <3>1, <2>1, <2>2, CallSets DEF RInv
  <2>3. CASE ~we_are_receiving_burst'
    <3>1. Call("off_test", "input_stop")
      BY <2>3 DEF InputForUs
    <3> QED BY <3>1, <2>1, <2>3, CallSets DEF RInv
  <2> QED BY <2>2, <2>3
<1>2. TypeOK'
  BY <1>1 DEF RInv, TypeOK, Locals, InputForUs, MainAt, flags, modes, air, timers
<1> QED
  BY <1>1, <1>2 DEF RInv, PlacesOK, ModesOK, FlagsOK, RadioOK, SlotOK, OffIsOff,
     BurstHasDeadline, Idle, SendingPlace, BorrowingPlace, SwitchingRadio, TypeOK,
     InputForUs, MainAt, flags, modes, air, timers

\* The deadline of the burst is set, or not needed any more.
LEMMA InputCtimerKeeps ==
  ASSUME RInv, InputCtimer
  PROVE  RInv'
<1>1. /\ main' \in Locals /\ main' = Idle
      /\ main'.pc = "idle" /\ main'.ret = "idle"
      /\ main'.arg = FALSE /\ main'.was_on = FALSE
  BY FinishSets DEF InputCtimer, Finish
<1>2. ct' \in BOOLEAN
  BY Zenon DEF InputCtimer, RInv, TypeOK
<1>3. TypeOK'
  BY <1>1, <1>2 DEF RInv, TypeOK, Locals, InputCtimer, MainAt, flags, modes, air, timers
<1> QED
  BY <1>1, <1>3 DEF RInv, PlacesOK, ModesOK, FlagsOK, RadioOK, SlotOK, OffIsOff,
     BurstHasDeadline, Idle, SendingPlace, BorrowingPlace, SwitchingRadio, TypeOK,
     InputCtimer, MainAt, flags, modes, air, timers

\* The deadline has passed: the burst ends next.
LEMMA RecvBurstOffKeeps ==
  ASSUME RInv, RecvBurstOff
  PROVE  RInv'
<1>1. Call("off_test", "burst_end")
  BY DEF RecvBurstOff
<1>2. "off_test" \in MainPoints /\ "burst_end" \in MainPoints
  BY DEF MainPoints
<1>3. /\ main' \in Locals
      /\ main'.pc = "off_test" /\ main'.ret = "burst_end"
      /\ main'.arg = main.arg /\ main'.was_on = main.was_on
  BY <1>1, <1>2, CallSets DEF RInv
<1>4. ct' \in BOOLEAN
  BY Zenon DEF RecvBurstOff, RInv, TypeOK
<1>5. TypeOK'
  BY <1>3, <1>4 DEF RInv, TypeOK, Locals, RecvBurstOff, MainAt, flags, modes, air,
     timers
<1> QED
  BY <1>3, <1>5 DEF RInv, PlacesOK, ModesOK, FlagsOK, RadioOK, SlotOK, OffIsOff,
     BurstHasDeadline, Idle, SendingPlace, BorrowingPlace, SwitchingRadio, TypeOK,
     RecvBurstOff, MainAt, flags, modes, air, timers

\* No burst, no deadline.
LEMMA BurstEndKeeps ==
  ASSUME RInv, BurstEnd
  PROVE  RInv'
<1>1. /\ main' \in Locals /\ main' = Idle
      /\ main'.pc = "idle" /\ main'.ret = "idle"
      /\ main'.arg = FALSE /\ main'.was_on = FALSE
  BY FinishSets DEF BurstEnd, Finish
<1>2. we_are_receiving_burst' \in BOOLEAN
  BY Zenon DEF BurstEnd, RInv, TypeOK
<1>3. TypeOK'
  BY <1>1, <1>2 DEF RInv, TypeOK, Locals, BurstEnd, MainAt, flags, modes, air, timers
<1> QED
  BY <1>1, <1>3 DEF RInv, PlacesOK, ModesOK, FlagsOK, RadioOK, SlotOK, OffIsOff,
     BurstHasDeadline, Idle, SendingPlace, BorrowingPlace, SwitchingRadio, TypeOK,
     BurstEnd, MainAt, flags, modes, air, timers

-----------------------------------------------------------------------------
(* Steps of turn_on and turn_off. *)

\* Turning on starts in a layer that is off.
LEMMA TurnOnKeeps ==
  ASSUME RInv, TurnOn
  PROVE  RInv'
<1> DEFINE x == "turn_on_keep"
<1>1. Goto(x) /\ x \in MainPoints
  BY DEF TurnOn, RInv, TypeOK, MainPoints
<1>2. /\ main' \in Locals
      /\ main'.pc = x /\ main'.ret = main.ret
      /\ main'.arg = main.arg /\ main'.was_on = main.was_on
  <2> HIDE DEF x
  <2> QED BY <1>1, GotoSets DEF RInv
<1>3. contikimac_is_on' \in BOOLEAN
  BY Zenon DEF TurnOn, RInv, TypeOK
<1>4. TypeOK'
  BY <1>2, <1>3 DEF RInv, TypeOK, Locals, TurnOn, MainAt, flags, modes, air, timers
<1> QED
  BY <1>2, <1>4 DEF RInv, PlacesOK, ModesOK, FlagsOK, RadioOK, SlotOK, OffIsOff,
     BurstHasDeadline, Idle, SendingPlace, BorrowingPlace, SwitchingRadio, TypeOK,
     TurnOn, MainAt, flags, modes, air, timers

\* The radio is given back to the power cycle.
LEMMA TurnOnKeepKeeps ==
  ASSUME RInv, TurnOnKeep
  PROVE  RInv'
<1> DEFINE x == "turn_on_look"
<1>1. Goto(x) /\ x \in MainPoints
  BY DEF TurnOnKeep, RInv, TypeOK, MainPoints
<1>2. /\ main' \in Locals
      /\ main'.pc = x /\ main'.ret = main.ret
      /\ main'.arg = main.arg /\ main'.was_on = main.was_on
  <2> HIDE DEF x
  <2> QED BY <1>1, GotoSets DEF RInv
<1>3. contikimac_keep_radio_on' \in BOOLEAN
  BY Zenon DEF TurnOnKeep, RInv, TypeOK
<1>4. TypeOK'
  BY <1>2, <1>3 DEF RInv, TypeOK, Locals, TurnOnKeep, MainAt, flags, modes, air, timers
<1> QED
  BY <1>2, <1>4 DEF RInv, PlacesOK, ModesOK, FlagsOK, RadioOK, SlotOK, OffIsOff,
     BurstHasDeadline, Idle, SendingPlace, BorrowingPlace, SwitchingRadio, TypeOK,
     TurnOnKeep, MainAt, flags, modes, air, timers

\* The slot is looked at before it is filled; a timer that was there may fire in
\* between, and its cycle then sets the next.
LEMMA TurnOnLookKeeps ==
  ASSUME RInv, TurnOnLook
  PROVE  RInv'
<1>1. /\ main' \in Locals
      /\ main'.pc = "turn_on_set" /\ main'.ret = main.ret
      /\ main'.arg = ~next_rtimer /\ main'.was_on = main.was_on
  <2>1. main' = [pc |-> "turn_on_set", ret |-> main.ret, arg |-> ~next_rtimer,
                 was_on |-> main.was_on]
    BY DEF TurnOnLook, RInv, TypeOK
  <2> QED BY <2>1 DEF RInv, TypeOK, Locals, MainPoints
<1>2. TypeOK'
  BY <1>1 DEF RInv, TypeOK, Locals, TurnOnLook, MainAt, flags, modes, air, timers
<1> QED
  BY <1>1, <1>2 DEF RInv, PlacesOK, ModesOK, FlagsOK, RadioOK, SlotOK, OffIsOff,
     BurstHasDeadline, Idle, SendingPlace, BorrowingPlace, SwitchingRadio, TypeOK,
     TurnOnLook, MainAt, flags, modes, air, timers

\* The slot is filled, and armed unless it was occupied and is armed already.
LEMMA TurnOnSetKeeps ==
  ASSUME RInv, TurnOnSet
  PROVE  RInv'
<1>1. /\ main' \in Locals /\ main' = Idle
      /\ main'.pc = "idle" /\ main'.ret = "idle"
      /\ main'.arg = FALSE /\ main'.was_on = FALSE
  BY FinishSets DEF TurnOnSet, Finish
<1>2. next_rtimer' \in BOOLEAN /\ armed' \in BOOLEAN
  BY Zenon DEF TurnOnSet, RInv, TypeOK
<1>3. TypeOK'
  BY <1>1, <1>2 DEF RInv, TypeOK, Locals, TurnOnSet, MainAt, flags, modes, air, timers
<1> QED
  BY <1>1, <1>3 DEF RInv, PlacesOK, ModesOK, FlagsOK, RadioOK, SlotOK, OffIsOff,
     BurstHasDeadline, Idle, SendingPlace, BorrowingPlace, SwitchingRadio, TypeOK,
     TurnOnSet, MainAt, flags, modes, air, timers

\* Turning off starts with the flag that the interrupt tests.
LEMMA TurnOffKeeps ==
  ASSUME RInv, TurnOff
  PROVE  RInv'
<1>1. /\ main' \in Locals
      /\ main'.pc = "turn_off_keep" /\ main'.ret = "idle" /\ main'.was_on = FALSE
  BY DEF TurnOff, Idle, Locals, MainPoints
<1>2. contikimac_is_on' \in BOOLEAN
  BY Zenon DEF TurnOff, RInv, TypeOK
<1>3. TypeOK'
  BY <1>1, <1>2 DEF RInv, TypeOK, Locals, TurnOff, MainAt, flags, modes, air, timers
<1> QED
  BY <1>1, <1>3 DEF RInv, PlacesOK, ModesOK, FlagsOK, RadioOK, SlotOK, OffIsOff,
     BurstHasDeadline, Idle, SendingPlace, BorrowingPlace, SwitchingRadio, TypeOK,
     TurnOff, MainAt, flags, modes, air, timers

\* Whether the radio is to stay on is remembered before it is switched.
LEMMA TurnOffKeepKeeps ==
  ASSUME RInv, TurnOffKeep
  PROVE  RInv'
<1> DEFINE x == "turn_off_flag"
<1>1. Goto(x) /\ x \in MainPoints
  BY DEF TurnOffKeep, RInv, TypeOK, MainPoints
<1>2. /\ main' \in Locals
      /\ main'.pc = x /\ main'.ret = main.ret
      /\ main'.arg = main.arg /\ main'.was_on = main.was_on
  <2> HIDE DEF x
  <2> QED BY <1>1, GotoSets DEF RInv
<1>3. contikimac_keep_radio_on' \in BOOLEAN
  BY Zenon DEF TurnOffKeep, RInv, TypeOK
<1>4. TypeOK'
  BY <1>2, <1>3 DEF RInv, TypeOK, Locals, TurnOffKeep, MainAt, flags, modes, air, timers
<1> QED
  BY <1>2, <1>4 DEF RInv, PlacesOK, ModesOK, FlagsOK, RadioOK, SlotOK, OffIsOff,
     BurstHasDeadline, Idle, SendingPlace, BorrowingPlace, SwitchingRadio, TypeOK,
     TurnOffKeep, MainAt, flags, modes, air, timers

\* The belief follows before the radio does.
LEMMA TurnOffFlagKeeps ==
  ASSUME RInv, TurnOffFlag
  PROVE  RInv'
<1> DEFINE x == "turn_off_hw"
<1>1. Goto(x) /\ x \in MainPoints
  BY DEF TurnOffFlag, RInv, TypeOK, MainPoints
<1>2. /\ main' \in Locals
      /\ main'.pc = x /\ main'.ret = main.ret
      /\ main'.arg = main.arg /\ main'.was_on = main.was_on
  <2> HIDE DEF x
  <2> QED BY <1>1, GotoSets DEF RInv
<1>3. radio_is_on' \in BOOLEAN
  BY Zenon DEF TurnOffFlag, RInv, TypeOK
<1>4. TypeOK'
  BY <1>2, <1>3 DEF RInv, TypeOK, Locals, TurnOffFlag, MainAt, flags, modes, air, timers
<1> QED
  BY <1>2, <1>4 DEF RInv, PlacesOK, ModesOK, FlagsOK, RadioOK, SlotOK, OffIsOff,
     BurstHasDeadline, Idle, SendingPlace, BorrowingPlace, SwitchingRadio, TypeOK,
     TurnOffFlag, MainAt, flags, modes, air, timers

\* The radio is as turn_off was told.
LEMMA TurnOffHwKeeps ==
  ASSUME RInv, TurnOffHw
  PROVE  RInv'
<1>1. /\ main' \in Locals /\ main' = Idle
      /\ main'.pc = "idle" /\ main'.ret = "idle"
      /\ main'.arg = FALSE /\ main'.was_on = FALSE
  BY FinishSets DEF TurnOffHw, Finish
<1>2. radio' \in BOOLEAN
  BY Zenon DEF TurnOffHw, SwitchOff, RInv, TypeOK
<1>3. TypeOK'
  BY <1>1, <1>2 DEF RInv, TypeOK, Locals, TurnOffHw, MainAt, SwitchOff, flags, modes,
     air, timers
<1> QED
  BY <1>1, <1>3 DEF RInv, PlacesOK, ModesOK, FlagsOK, RadioOK, SlotOK, OffIsOff,
     BurstHasDeadline, Idle, SendingPlace, BorrowingPlace, SwitchingRadio, TypeOK,
     TurnOffHw, MainAt, SwitchOff, flags, modes, air, timers

-----------------------------------------------------------------------------
(* Steps of the interrupt, and of the radio.                                 *)

\* What the invariant needs of a step that leaves the main context where it is.
LEMMA InterruptKeeps ==
  ASSUME RInv, UNCHANGED <<flags, modes, ct, main>>,
         TypeOK', OffIsOff', RadioOK', SlotOK', we_are_sending => radio' = radio
  PROVE  RInv'
<1>1. PlacesOK' /\ BurstHasDeadline'
  BY DEF RInv, PlacesOK, BurstHasDeadline, modes
<1>2. ModesOK'
  BY DEF RInv, ModesOK, SendingPlace, modes
<1>3. FlagsOK'
  BY DEF RInv, FlagsOK, ModesOK, SendingPlace, BorrowingPlace, flags
<1> QED BY <1>1, <1>2, <1>3 DEF RInv

\* The interrupt switches the radio only in a layer that is on, which neither
\* sends nor receives a burst; the main context is then not at switching it.
LEMMA InterruptSwitches ==
  ASSUME RInv, UNCHANGED <<flags, modes, main>>,
         TurnRadioOff \/ TurnRadioOn \/ UNCHANGED air
  PROVE  /\ radio_is_on' \in BOOLEAN /\ radio' \in BOOLEAN
         /\ rx' \in {"none", "receiving", "pending"}
         /\ OffIsOff' /\ RadioOK'
         /\ we_are_sending => UNCHANGED <<radio_is_on, radio>>
<1>1. CASE UNCHANGED air
  BY <1>1 DEF RInv, TypeOK, OffIsOff, RadioOK, SwitchingRadio, air, flags
<1>2. CASE ~UNCHANGED air
  <2>1. contikimac_is_on /\ ~we_are_sending /\ ~we_are_receiving_burst
    BY <1>2 DEF TurnRadioOff, TurnRadioOn, PowercycleMaySwitch
  <2>2. main.pc \notin {"on_hw", "turn_off_flag", "turn_off_hw"}
    BY <2>1 DEF RInv, ModesOK, FlagsOK
  <2>3. \/ radio_is_on' = FALSE /\ radio' = FALSE
        \/ radio_is_on' = TRUE /\ radio' = TRUE
    BY <1>2 DEF TurnRadioOff, TurnRadioOn, SwitchOff
  <2>4. radio_is_on' \in BOOLEAN /\ radio' \in BOOLEAN
    BY Zenon, <2>3
  <2>5. rx' \in {"none", "receiving", "pending"}
    BY <1>2 DEF TurnRadioOff, TurnRadioOn, SwitchOff, RInv, TypeOK
  <2>6. OffIsOff' /\ RadioOK'
    BY <2>1, <2>2, <2>3 DEF OffIsOff, RadioOK, flags
  <2> QED BY <2>1, <2>4, <2>5, <2>6
<1> QED BY <1>1, <1>2

\* The step after which the slot of rtimer.c is filled again.
LEMMA YieldSets ==
  ASSUME RInv, NEW resume \in {"listen", "cycle"}, YieldAt(resume),
         UNCHANGED <<flags, modes, air, ct, main>>
  PROVE  RInv'
<1>1. next_rtimer' \in BOOLEAN /\ armed' \in BOOLEAN
  BY Zenon DEF YieldAt, RInv, TypeOK
<1>2. TypeOK' /\ SlotOK'
  <2>1. TypeOK'
    BY <1>1 DEF YieldAt, RInv, TypeOK, flags, modes, air
  <2>2. SlotOK'
    BY DEF YieldAt, SlotOK, RInv, FlagsOK, flags
  <2> QED BY <2>1, <2>2
<1>3. OffIsOff' /\ RadioOK' /\ (we_are_sending => radio' = radio)
  BY InterruptSwitches DEF air
<1> QED BY <1>2, <1>3, InterruptKeeps

\* The hardware compare fires: the slot is emptied, and the cycle that runs next
\* fills it again at its yield.
LEMMA InterruptStepKeeps ==
  ASSUME RInv, Interrupt
  PROVE  RInv'
<1>1. isr' \in IsrPoints
  BY DEF Interrupt, RInv, TypeOK
<1>2. next_rtimer' = FALSE /\ armed' = FALSE
  BY DEF Interrupt
<1>3. next_rtimer' \in BOOLEAN /\ armed' \in BOOLEAN
  BY Zenon, <1>2
<1>4. TypeOK'
  BY <1>1, <1>3 DEF Interrupt, RInv, TypeOK, flags, modes, air
<1>5. isr' /= "out"
  BY DEF Interrupt, RInv, TypeOK, SlotOK
<1>6. SlotOK'
  BY <1>2, <1>5 DEF SlotOK
<1>7. OffIsOff' /\ RadioOK' /\ (we_are_sending => radio' = radio)
  BY InterruptSwitches DEF Interrupt, air
<1> QED BY <1>4, <1>6, <1>7, InterruptKeeps DEF Interrupt

\* The steps of a running interrupt up to its yield.
LEMMA IsrStepKeeps ==
  ASSUME RInv,
         \/ IsrBegin \/ IsrClear \/ IsrPacketSeen \/ IsrSilence
         \/ IsrListenDone \/ IsrAfter
  PROVE  RInv'
<1>1. /\ UNCHANGED <<flags, modes, ct, timers, pt, main>>
      /\ TurnRadioOff \/ TurnRadioOn \/ UNCHANGED air
      /\ isr /= "out" /\ isr' /= "out" /\ isr' \in IsrPoints
  BY DEF IsrBegin, IsrClear, IsrPacketSeen, IsrSilence, IsrListenDone, IsrAfter
<1>2. /\ radio_is_on' \in BOOLEAN /\ radio' \in BOOLEAN
      /\ rx' \in {"none", "receiving", "pending"}
      /\ OffIsOff' /\ RadioOK'
      /\ we_are_sending => radio' = radio
  BY <1>1, InterruptSwitches
<1>3. TypeOK'
  BY <1>1, <1>2 DEF RInv, TypeOK, flags, modes, timers
<1>4. SlotOK'
  BY <1>1 DEF RInv, SlotOK, timers, flags
<1> QED BY <1>1, <1>2, <1>3, <1>4, InterruptKeeps

\* advance_cycle_start goes round again or waits.
LEMMA IsrEndKeeps ==
  ASSUME RInv, IsrEnd
  PROVE  RInv'
<1>1. CASE YieldAt("cycle")
  BY <1>1, YieldSets DEF IsrEnd
<1>2. CASE isr' = "begin" /\ UNCHANGED <<timers, pt>>
  <2>1. TypeOK' /\ SlotOK'
    BY <1>2 DEF IsrEnd, RInv, TypeOK, SlotOK, flags, modes, air, timers
  <2>2. OffIsOff' /\ RadioOK' /\ (we_are_sending => radio' = radio)
    BY InterruptSwitches DEF IsrEnd, air
  <2> QED BY <2>1, <2>2, InterruptKeeps DEF IsrEnd
<1> QED BY <1>1, <1>2 DEF IsrEnd

\* The radio receives without being switched.
LEMMA ReceiveKeeps ==
  ASSUME RInv, Receive
  PROVE  RInv'
<1>1. TypeOK'
  BY DEF Receive, RInv, TypeOK, flags, modes, timers
<1>2. SlotOK'
  BY DEF Receive, RInv, SlotOK, BorrowingPlace, flags, timers
<1>3. OffIsOff' /\ RadioOK'
  BY DEF Receive, RInv, OffIsOff, RadioOK, SwitchingRadio, flags
<1> QED BY <1>1, <1>2, <1>3, InterruptKeeps DEF Receive

-----------------------------------------------------------------------------
(* The theorems.                                                             *)

LEMMA InitRInv == Init => RInv
<1> SUFFICES ASSUME Init PROVE RInv
  OBVIOUS
<1>1. TypeOK
  BY DEF Init, TypeOK, Idle, MainPoints
<1> QED
  BY <1>1 DEF Init, RInv, PlacesOK, ModesOK, FlagsOK, RadioOK, SlotOK, OffIsOff,
         BurstHasDeadline, SendingPlace, BorrowingPlace, SwitchingRadio, Idle

\* Every step keeps the invariant, one lemma for each action.
LEMMA NextKeepsRInv == RInv /\ [Next]_vars => RInv'
<1> SUFFICES ASSUME RInv, [Next]_vars PROVE RInv'
  OBVIOUS
<1>1. CASE Subroutine
  BY <1>1, OffTestKeeps, OffSetKeeps, OffHwKeeps, OnTestKeeps, OnSetKeeps, OnHwKeeps
     DEF Subroutine
<1>2. CASE SendPacket
  BY <1>2, SendStartKeeps, SendFlagKeeps, SendCheckKeeps, SendAcquireKeeps, SendOnKeeps,
     SendTransmitKeeps, SendRestoreKeeps, SendDoneKeeps DEF SendPacket
<1>3. CASE InputPacket
  BY <1>3, InputStartKeeps, InputIgnoredKeeps, InputForUsKeeps, InputCtimerKeeps,
     RecvBurstOffKeeps, BurstEndKeeps DEF InputPacket
<1>4. CASE Turn
  BY <1>4, TurnOnKeeps, TurnOnKeepKeeps, TurnOnLookKeeps, TurnOnSetKeeps, TurnOffKeeps,
     TurnOffKeepKeeps, TurnOffFlagKeeps, TurnOffHwKeeps DEF Turn
<1>5. CASE Powercycle
  <2>1. CASE IsrListenOn
    BY <2>1, YieldSets DEF IsrListenOn
  <2> QED
    BY <1>5, <2>1, InterruptStepKeeps, IsrStepKeeps, IsrEndKeeps DEF Powercycle
<1>6. CASE Receive
  BY <1>6, ReceiveKeeps
<1>7. CASE UNCHANGED vars
  BY <1>7 DEF vars, flags, modes, air, timers, RInv, TypeOK, PlacesOK, ModesOK, FlagsOK,
     RadioOK, SlotOK, OffIsOff, BurstHasDeadline, SendingPlace, BorrowingPlace, SwitchingRadio
<1> QED BY <1>1, <1>2, <1>3, <1>4, <1>5, <1>6, <1>7 DEF Next, Main

\* The invariant holds in every reachable state.
LEMMA InvariantHolds == Spec => []RInv
BY InitRInv, NextKeepsRInv, PTL DEF Spec

\* Neither a power cycle between two steps of off(), on() or turn_off() nor a burst
\* leaves the radio on while the layer believes it off.
THEOREM NeverBurnsUnnoticed == Spec => []OffIsOff
<1>1. RInv => OffIsOff
  BY DEF RInv
<1> QED BY <1>1, InvariantHolds, PTL

\* The next power cycle and the end of a burst are always scheduled, whatever the
\* order of turn_on, its rtimer_set and the interrupt that empties the slot.
THEOREM TimersStayArmed == Spec => []TimersArmed
<1>1. RInv => TimersArmed
  <2> SUFFICES ASSUME RInv PROVE TimersArmed
    OBVIOUS
  <2>1. PowerCycleArmed
    BY DEF RInv, SlotOK, ModesOK, PowerCycleArmed, BorrowingPlace, SendingPlace
  <2> QED BY <2>1 DEF RInv, TimersArmed
<1> QED BY <1>1, InvariantHolds, PTL

\* A layer that is turned off keeps the radio as turn_off was told, also after it
\* was borrowed for a send.
THEOREM OffStaysAsTold == Spec => []TurnedOffHolds
<1>1. RInv => TurnedOffHolds
  BY DEF RInv, RadioOK, TurnedOffHolds
<1> QED BY <1>1, InvariantHolds, PTL

\* The interrupt never touches the radio in a send: it tests the guards and acts
\* with no step of the main context in between.
THEOREM SendsAreUndisturbed == Spec => SendUndisturbed
<1>1. RInv /\ [Next]_vars =>
        [we_are_sending /\ isr /= "out" => UNCHANGED <<radio_is_on, radio>>]_vars
  <2> SUFFICES ASSUME RInv, Next, we_are_sending, isr /= "out"
               PROVE  UNCHANGED <<radio_is_on, radio>>
    OBVIOUS
  <2>1. CASE Main
    BY <2>1 DEF Main, Subroutine, OffTest, OffSet, OffHw, OnTest, OnSet, OnHw,
       SendPacket,
       SendStart, SendFlag, SendCheck, SendAcquire, SendOn, SendTransmit, SendRestore,
       SendDone, InputPacket, InputStart, InputIgnored, InputForUs, InputCtimer,
       RecvBurstOff, BurstEnd, Turn, TurnOn, TurnOnKeep, TurnOnLook, TurnOnSet, TurnOff,
       TurnOffKeep, TurnOffFlag, TurnOffHw, MainAt
  <2>2. CASE Powercycle
    BY <2>2 DEF Powercycle, Interrupt, IsrBegin, IsrClear, IsrPacketSeen, IsrSilence,
       IsrListenOn, IsrListenDone, IsrAfter, IsrEnd, TurnRadioOff, TurnRadioOn,
       PowercycleMaySwitch, air
  <2>3. CASE Receive
    BY <2>3 DEF Receive
  <2> QED BY <2>1, <2>2, <2>3 DEF Next
<1> QED BY <1>1, InvariantHolds, PTL DEF Spec, SendUndisturbed

-----------------------------------------------------------------------------
(* PowerCycleClock, for every width of the clock and wherever it wraps: a     *)
(* clear channel is sensed for CCA_ACTIVE_TIME in a cycle, if that is at most *)
(* half of the clock's range, which the constants of a 90 % duty cycle break; *)
(* and the node wakes once a period (Punctual).                              *)

\* Sums of clock values are clock values.
LEMMA PlusTyped ==
  ASSUME NEW a \in Clock, NEW b \in Clock
  PROVE  Plus(a, b) \in Clock
BY ClockAssumption DEF ClockAssumption, Plus, Clock, Range16

\* RTIMER_CLOCK_LT compares two times at most half the range apart as it should:
\* d ticks after s, the time s + t is still to come exactly when d < t.
LEMMA ComparesWithinHalf ==
  ASSUME NEW s \in Clock, NEW t \in Clock, t <= HalfRange, NEW d \in 0..t
  PROVE  LT(Plus(s, d), Plus(s, t)) <=> d < t
<1>1. HalfRange \in Nat \ {0}
  BY ClockAssumption DEF ClockAssumption
<1>2. s \in Nat /\ s < 2 * HalfRange /\ t \in Nat /\ d \in Nat /\ d <= t
  BY <1>1 DEF Clock, Range16
<1> QED BY <1>1, <1>2 DEF LT, Plus, Minus, Range16

\* One tick more.
LEMMA PlusOne ==
  ASSUME NEW s \in Clock, NEW d \in Nat, d < HalfRange
  PROVE  Plus(Plus(s, d), 1) = Plus(s, d + 1)
BY ClockAssumption DEF ClockAssumption, Plus, Clock, Range16

-----------------------------------------------------------------------------
\* While the channel is sensed, the history "listened" is the time since start.
ClockInv ==
  /\ CycleTypeOK
  /\ phase = "sense" => listened <= CCA_ACTIVE_TIME /\ now = Plus(start, listened)
  /\ SensesForActiveTime

\* The constants in their ranges.
LEMMA ConstantsTyped ==
  /\ CYCLE_TIME \in Clock /\ CCA_ACTIVE_TIME \in Clock /\ RTIMER_GUARD_TIME \in Clock
  /\ HalfRange \in Nat \ {0} /\ 1 \in Clock
BY ClockAssumption DEF ClockAssumption, Clock, Range16

\* A cycle that begins now has sensed for no time.
LEMMA BeginsAtStart ==
  ASSUME NEW t \in Clock
  PROVE  t = Plus(t, 0) /\ 0 <= CCA_ACTIVE_TIME
BY ConstantsTyped DEF Plus, Clock, Range16

\* The first power cycle begins with the invariant.
LEMMA ClockInit == CycleInit => ClockInv
<1> SUFFICES ASSUME CycleInit PROVE ClockInv
  OBVIOUS
<1> QED BY BeginsAtStart DEF CycleInit, ClockInv, CycleTypeOK, SensesForActiveTime

\* Every step keeps the invariant: a tick adds one to the time since start, and the
\* sensing loop, whose comparison is right within half the range, ends in time.
LEMMA ClockNext ==
  ASSUME CCA_ACTIVE_TIME <= HalfRange, ClockInv, [CycleNext]_cycleVars
  PROVE  ClockInv'
<1>0. CycleTypeOK
  BY DEF ClockInv
<1>1. CASE Wake
  BY <1>1, BeginsAtStart DEF Wake, ClockInv, CycleTypeOK, SensesForActiveTime
<1>2. CASE Sense
  <2>1. listened < CCA_ACTIVE_TIME
    <3>1. LT(Plus(start, listened), Plus(start, CCA_ACTIVE_TIME))
      BY <1>2 DEF Sense, ClockInv
    <3>2. listened \in 0..CCA_ACTIVE_TIME /\ start \in Clock
      BY <1>2, ConstantsTyped DEF Sense, ClockInv, CycleTypeOK, Clock
    <3> QED BY <3>1, <3>2, ConstantsTyped, ComparesWithinHalf
  <2>2. now' = Plus(start', listened')
    <3>1. now = Plus(start, listened) /\ start \in Clock /\ listened \in Nat
      BY <1>2 DEF Sense, ClockInv, CycleTypeOK
    <3>2. listened < HalfRange
      BY <2>1, <3>1, ConstantsTyped DEF Clock
    <3> QED BY <1>2, <3>1, <3>2, PlusOne DEF Sense
  <2>3. CycleTypeOK'
    <3>1. Plus(now, 1) \in Clock
      BY <1>0, ConstantsTyped, PlusTyped DEF CycleTypeOK
    <3> QED BY <1>0, <1>2, <3>1 DEF Sense, CycleTypeOK
  <2>4. listened' <= CCA_ACTIVE_TIME
    BY <1>0, <1>2, <2>1, ConstantsTyped DEF Sense, CycleTypeOK, Clock
  <2> QED BY <1>2, <2>2, <2>3, <2>4 DEF Sense, ClockInv, SensesForActiveTime
<1>3. CASE SenseEnds
  <2>1. listened = CCA_ACTIVE_TIME
    <3>1. ~LT(Plus(start, listened), Plus(start, CCA_ACTIVE_TIME))
      BY <1>3 DEF SenseEnds, ClockInv
    <3>2. listened \in 0..CCA_ACTIVE_TIME /\ start \in Clock
      BY <1>3, ConstantsTyped DEF SenseEnds, history, ClockInv, CycleTypeOK, Clock
    <3>3. ~(listened < CCA_ACTIVE_TIME)
      BY <3>1, <3>2, ConstantsTyped, ComparesWithinHalf
    <3> QED BY <3>2, <3>3, ConstantsTyped DEF Clock
  <2> QED BY <1>0, <1>3, <2>1 DEF SenseEnds, history, ClockInv, CycleTypeOK, SensesForActiveTime
<1>4. CASE Busy
  <2>1. Plus(now, 1) \in Clock
    BY <1>0, ConstantsTyped, PlusTyped DEF CycleTypeOK
  <2> QED BY <1>4, <2>1 DEF Busy, ClockInv, CycleTypeOK, SensesForActiveTime
<1>5. CASE EndCycle
  <2>1. NextCycleStart \in Clock
    BY <1>0, ConstantsTyped, PlusTyped DEF CycleTypeOK, NextCycleStart
  <2>2. GuardedTime(NextCycleStart) \in Clock
    BY <1>0, <2>1, ConstantsTyped, PlusTyped DEF CycleTypeOK, GuardedTime
  <2>3. now \in Clock
    BY <1>0 DEF CycleTypeOK
  <2>4. CASE LT(now, NextCycleStart)
    <3>1. phase' = "asleep" \/ phase' = "stopped"
      BY <1>5, <2>4 DEF EndCycle
    <3>2. CycleTypeOK'
      BY <1>0, <1>5, <2>1, <2>2, <2>4 DEF EndCycle, CycleTypeOK
    <3> QED BY <3>1, <3>2 DEF ClockInv, SensesForActiveTime
  <2>5. CASE ~LT(now, NextCycleStart)
    <3>1. phase' = "sense" /\ start' = now /\ now' = now /\ listened' = 0
      BY <1>5, <2>5 DEF EndCycle
    <3>2. packet_seen' = FALSE /\ busy' = 0 /\ slept' = 0 /\ cycle_start' = NextCycleStart
      BY <1>5, <2>5 DEF EndCycle
    <3>3. is_on' = is_on /\ wake' = wake /\ restarted' = restarted
      BY <1>5, <2>5 DEF EndCycle
    <3>4. CycleTypeOK'
      BY <1>0, <2>1, <2>3, <3>1, <3>2, <3>3 DEF CycleTypeOK
    <3> QED BY <2>3, <3>1, <3>4, BeginsAtStart DEF ClockInv, SensesForActiveTime
  <2> QED BY <2>4, <2>5
<1>6. CASE Sleep
  <2>1. Plus(now, 1) \in Clock
    BY <1>0, ConstantsTyped, PlusTyped DEF CycleTypeOK
  <2> QED BY <1>6, <2>1 DEF Sleep, ClockInv, CycleTypeOK, SensesForActiveTime
<1>7. CASE CycleTurnsOff
  BY <1>7 DEF CycleTurnsOff, history, ClockInv, CycleTypeOK, SensesForActiveTime
<1>8. CASE Hears
  BY <1>8 DEF Hears, history, ClockInv, CycleTypeOK, SensesForActiveTime
<1>9. CASE CycleTurnsOn
  <2>1. Plus(now', CYCLE_TIME) \in Clock
    BY <1>9, ConstantsTyped, PlusTyped DEF CycleTurnsOn
  <2> QED BY <1>9, <2>1 DEF CycleTurnsOn, ClockInv, CycleTypeOK, SensesForActiveTime
<1>10. CASE UNCHANGED cycleVars
  BY <1>10 DEF cycleVars, history, ClockInv, CycleTypeOK, SensesForActiveTime
<1> QED BY <1>1, <1>2, <1>3, <1>4, <1>5, <1>6, <1>7, <1>8, <1>9, <1>10 DEF CycleNext

\* A channel that stays clear is sensed for exactly CCA_ACTIVE_TIME ticks, through
\* any wrap of the clock, any latency of the interrupt, any delay by packets and
\* any turning off and on, if that time is at most half of the clock's range.
THEOREM SensesLongEnough ==
  ASSUME CCA_ACTIVE_TIME <= HalfRange
  PROVE  CycleSpec => []SensesForActiveTime
<1>1. ClockInv /\ [CycleNext]_cycleVars => ClockInv'
  BY ClockNext
<1>2. ClockInv => SensesForActiveTime
  BY DEF ClockInv
<1> QED BY ClockInit, <1>1, <1>2, PTL DEF CycleSpec

-----------------------------------------------------------------------------
(* A period of the cycle.                                                    *)

Period == CYCLE_TIME + CCA_ACTIVE_TIME

\* What keeps a cycle near its planned beginning: two periods fit the clock, a wake
\* is late by less than half of its range, and a packet does not outlast a period.
Punctual ==
  /\ Period < HalfRange
  /\ RTIMER_GUARD_TIME + MaxLate < HalfRange
  /\ MaxBusy <= CYCLE_TIME + 1

\* The ticks of the cycle so far, all on the radio.
Awake == listened + busy

\* The ticks until the latest time for the interrupt.
Remaining == Minus(Plus(wake, MaxLate), now)

\* A cycle begins little after it was planned, and the time it is planned to sleep
\* ends a period after it began.
PeriodInv ==
  ~restarted =>
    /\ phase \in {"sense", "busy"} =>
         /\ Minus(start, cycle_start) <= RTIMER_GUARD_TIME + MaxLate
         /\ now = Plus(start, Awake) /\ Awake <= Period
         /\ listened <= CCA_ACTIVE_TIME
         /\ busy <= MaxBusy
         /\ packet_seen => listened < CCA_ACTIVE_TIME
         /\ ~packet_seen => busy = 0
         /\ phase = "sense" => busy = 0 /\ ~packet_seen
    /\ phase = "asleep" =>
         /\ Minus(wake, cycle_start) <= RTIMER_GUARD_TIME
         /\ Awake + slept + Remaining <= Period + RTIMER_GUARD_TIME + MaxLate

PInv == ClockInv /\ PeriodInv

\* The constants as numbers, for the arithmetic below.
LEMMA PunctualNumbers ==
  ASSUME Punctual
  PROVE  /\ HalfRange \in Nat /\ CYCLE_TIME \in Nat /\ CCA_ACTIVE_TIME \in Nat
         /\ RTIMER_GUARD_TIME \in Nat /\ MaxLate \in Nat /\ MaxBusy \in Nat
         /\ Period \in Nat /\ Period < HalfRange /\ Period = CYCLE_TIME + CCA_ACTIVE_TIME
         /\ RTIMER_GUARD_TIME + MaxLate < HalfRange
         /\ MaxBusy <= CYCLE_TIME + 1
         /\ CCA_ACTIVE_TIME <= HalfRange
         /\ Range16 = 2 * HalfRange /\ MaxLate \in Clock
BY ClockAssumption DEF ClockAssumption, Clock, Range16, Punctual, Period

\* A wake that is late by l after a plan that was late by g is late by both.
LEMMA LateTogether ==
  ASSUME NEW H \in Nat, NEW g \in Nat, NEW l \in Nat, g + l < 2 * H, Range16 = 2 * H,
         NEW c \in Clock, NEW w \in Clock, NEW t \in Clock,
         Minus(w, c) <= g, Minus(t, w) <= l
  PROVE  Minus(t, c) <= g + l
BY DEF Minus, Clock

\* The time left until the next cycle, of a cycle that began late by at most g and
\* has lasted for d.
LEMMA NextIsDue ==
  ASSUME NEW H \in Nat, NEW g \in Nat, NEW p \in Nat, NEW d \in Nat,
         g < H, p < H, d <= p, Range16 = 2 * H,
         NEW c \in Clock, NEW s \in Clock, NEW n \in Clock,
         Minus(s, c) <= g, n = Plus(s, d)
  PROVE  LET lag == Minus(s, c) + d IN
         /\ lag < p <=> Minus(n, Plus(c, p)) >= H
         /\ lag < p => Minus(Plus(c, p), n) = p - lag
         /\ lag >= p => Minus(n, Plus(c, p)) = lag - p
BY DEF Minus, Plus, Clock

\* The time to which the rtimer is set, r ticks before the next cycle.
LEMMA GuardHolds ==
  ASSUME NEW H \in Nat, NEW g \in Nat, NEW l \in Nat, NEW r \in Nat,
         g + l < H, r < H, Range16 = 2 * H, NEW n \in Clock, NEW x \in Clock,
         Minus(x, n) = r
  PROVE  LET w == IF Minus(x, Plus(n, g)) >= H THEN Plus(n, g) ELSE x IN
         /\ w \in Clock /\ Minus(w, x) <= g
         /\ Minus(Plus(w, l), n) = (IF r < g THEN g ELSE r) + l
BY DEF Minus, Plus, Clock

\* A tick brings the latest time for the interrupt nearer.
LEMMA TickRemains ==
  ASSUME NEW H \in Nat, H > 0, Range16 = 2 * H, NEW n \in Clock, NEW x \in Clock, n /= x
  PROVE  Minus(x, Plus(n, 1)) = Minus(x, n) - 1
BY DEF Minus, Plus, Clock

LEMMA PlusAdds ==
  ASSUME NEW H \in Nat, Range16 = 2 * H, NEW s \in Clock, NEW d \in Nat, d + 1 < 2 * H
  PROVE  /\ Plus(s, d) \in Clock
         /\ Plus(Plus(s, d), 1) = Plus(s, d + 1)
BY DEF Plus, Clock

LEMMA DifferenceTyped ==
  ASSUME NEW H \in Nat, Range16 = 2 * H, NEW s \in Clock, NEW t \in Clock
  PROVE  Minus(s, t) \in Nat /\ Minus(s, s) = 0
BY DEF Minus, Clock

LEMMA PeriodInit == ASSUME Punctual, CycleInit PROVE PInv
<1>1. ClockInv
  BY ClockInit
<1>2. now = Plus(start, 0) /\ Minus(start, cycle_start) = 0
  BY PunctualNumbers, DifferenceTyped, BeginsAtStart DEF CycleInit
<1> QED
  BY <1>1, <1>2, PunctualNumbers DEF CycleInit, PInv, PeriodInv, Awake

\* While a cycle goes on, every tick is one on the radio.
LEMMA PeriodGoesOn ==
  ASSUME Punctual, PInv, ClockInv', Sense \/ Hears \/ SenseEnds \/ Busy
  PROVE  PeriodInv'
<1> SUFFICES ASSUME ~restarted' PROVE PeriodInv'
  BY DEF PeriodInv
<1>1. /\ ~restarted /\ phase \in {"sense", "busy"} /\ phase' \in {"sense", "busy"}
      /\ UNCHANGED <<start, cycle_start>>
  BY DEF Sense, Hears, SenseEnds, Busy, history
<1>2. /\ Minus(start, cycle_start) <= RTIMER_GUARD_TIME + MaxLate
      /\ now = Plus(start, Awake) /\ Awake <= Period
      /\ listened <= CCA_ACTIVE_TIME
      /\ busy <= MaxBusy
      /\ packet_seen => listened < CCA_ACTIVE_TIME
      /\ ~packet_seen => busy = 0
      /\ phase = "sense" => busy = 0 /\ ~packet_seen
  BY <1>1 DEF PInv, PeriodInv
<1>3. /\ start \in Clock /\ now \in Clock /\ listened \in Nat /\ busy \in Nat
      /\ packet_seen \in BOOLEAN
  BY DEF PInv, ClockInv, CycleTypeOK
<1>4. LT(now, Plus(start, CCA_ACTIVE_TIME)) /\ phase = "sense" => listened < CCA_ACTIVE_TIME
  <2> SUFFICES ASSUME LT(now, Plus(start, CCA_ACTIVE_TIME)), phase = "sense"
               PROVE  listened < CCA_ACTIVE_TIME
    OBVIOUS
  <2>1. now = Plus(start, listened) /\ listened \in 0..CCA_ACTIVE_TIME
    BY <1>2, <1>3, PunctualNumbers DEF PInv, ClockInv
  <2>2. CCA_ACTIVE_TIME \in Clock /\ CCA_ACTIVE_TIME <= HalfRange
    BY PunctualNumbers, ConstantsTyped
  <2> QED
    BY <1>3, <2>1, <2>2, ComparesWithinHalf
<1>5. Awake \in Nat /\ Awake + 1 < 2 * HalfRange /\ Plus(now, 1) = Plus(start, Awake + 1)
  <2>1. Awake \in Nat /\ Awake + 1 < 2 * HalfRange
    BY <1>2, <1>3, PunctualNumbers DEF Awake
  <2> QED
    BY <1>2, <1>3, <2>1, PlusAdds, PunctualNumbers
<1>6. CASE Sense
  <2>1. /\ phase = "sense" /\ phase' = "sense" /\ now' = Plus(now, 1)
        /\ listened' = listened + 1 /\ UNCHANGED <<packet_seen, busy>>
        /\ listened < CCA_ACTIVE_TIME
    BY <1>4, <1>6 DEF Sense
  <2>2. Awake' = Awake + 1 /\ listened' <= CCA_ACTIVE_TIME /\ Awake' <= Period
    BY <1>2, <1>3, <2>1, PunctualNumbers DEF Awake
  <2> QED
    BY <1>1, <1>2, <1>5, <2>1, <2>2 DEF PeriodInv
<1>7. CASE Hears \/ SenseEnds
  <2>1. /\ phase = "sense" /\ phase' = "busy" /\ UNCHANGED <<now, listened, busy>>
        /\ packet_seen' => listened < CCA_ACTIVE_TIME
        /\ Awake' = Awake
    BY <1>2, <1>4, <1>7 DEF Hears, SenseEnds, history, Awake
  <2> QED
    BY <1>1, <1>2, <2>1 DEF PeriodInv
<1>8. CASE Busy
  <2>1. /\ phase = "busy" /\ packet_seen /\ busy < MaxBusy /\ now' = Plus(now, 1)
        /\ busy' = busy + 1 /\ UNCHANGED <<phase, packet_seen, listened>>
    BY <1>8 DEF Busy
  <2>2. Awake' = Awake + 1 /\ busy' <= MaxBusy /\ Awake' <= Period
    BY <1>2, <1>3, <2>1, PunctualNumbers DEF Awake
  <2> QED
    BY <1>1, <1>2, <1>5, <2>1, <2>2 DEF PeriodInv
<1> QED
  BY <1>6, <1>7, <1>8

\* A cycle ends: the next one is planned, or it is late and begins at once.
LEMMA PeriodEnds ==
  ASSUME Punctual, PInv, ClockInv', EndCycle
  PROVE  PeriodInv'
<1> SUFFICES ASSUME ~restarted' PROVE PeriodInv'
  BY DEF PeriodInv
<1> DEFINE g == RTIMER_GUARD_TIME + MaxLate
           lag == Minus(start, cycle_start) + Awake
<1>1. /\ ~restarted /\ phase = "busy" /\ now' = now /\ cycle_start' = NextCycleStart
      /\ slept' = 0
  BY DEF EndCycle
<1>2. /\ Minus(start, cycle_start) <= g
      /\ now = Plus(start, Awake) /\ Awake <= Period
  BY <1>1 DEF PInv, PeriodInv
<1>3. /\ start \in Clock /\ cycle_start \in Clock /\ now \in Clock
      /\ listened \in Nat /\ busy \in Nat /\ Awake \in Nat
  BY DEF PInv, ClockInv, CycleTypeOK, Awake
<1>4. NextCycleStart = Plus(cycle_start, Period) /\ NextCycleStart \in Clock
  BY <1>3, PunctualNumbers DEF NextCycleStart, Plus, Clock
<1>5. Minus(start, cycle_start) \in Nat /\ lag \in Nat /\ g \in Nat /\ Awake <= lag
  BY <1>3, PunctualNumbers, DifferenceTyped
<1>6. /\ lag < Period <=> LT(now, NextCycleStart)
      /\ lag < Period => Minus(NextCycleStart, now) = Period - lag
      /\ lag >= Period => Minus(now, NextCycleStart) = lag - Period
  <2>1. g < HalfRange /\ Period < HalfRange /\ Period \in Nat /\ HalfRange \in Nat
        /\ Range16 = 2 * HalfRange
    BY PunctualNumbers
  <2>2. /\ lag < Period <=> Minus(now, Plus(cycle_start, Period)) >= HalfRange
        /\ lag < Period => Minus(Plus(cycle_start, Period), now) = Period - lag
        /\ lag >= Period => Minus(now, Plus(cycle_start, Period)) = lag - Period
    <3> HIDE DEF g
    <3> QED
      BY <1>2, <1>3, <1>5, <2>1, NextIsDue
  <2> QED
    BY <1>4, <2>2 DEF LT
<1> HIDE DEF lag
<1>7. CASE LT(now, NextCycleStart)
  <2>1. /\ phase' = "asleep" \/ phase' = "stopped"
        /\ wake' = GuardedTime(NextCycleStart) /\ UNCHANGED <<listened, busy>>
        /\ Awake' = Awake
    BY <1>7 DEF EndCycle, Awake
  <2> DEFINE r == Minus(NextCycleStart, now)
  <2>2. r = Period - lag /\ r \in Nat /\ r < HalfRange
    BY <1>5, <1>6, <1>7, PunctualNumbers
  <2>3. /\ Minus(wake', NextCycleStart) <= RTIMER_GUARD_TIME
        /\ Minus(Plus(wake', MaxLate), now)
             = (IF r < RTIMER_GUARD_TIME THEN RTIMER_GUARD_TIME ELSE r) + MaxLate
    <3>1. wake' = IF Minus(NextCycleStart, Plus(now, RTIMER_GUARD_TIME)) >= HalfRange
                  THEN Plus(now, RTIMER_GUARD_TIME) ELSE NextCycleStart
      BY <2>1 DEF GuardedTime, LT
    <3>2. /\ HalfRange \in Nat /\ RTIMER_GUARD_TIME \in Nat /\ MaxLate \in Nat
          /\ RTIMER_GUARD_TIME + MaxLate < HalfRange /\ Range16 = 2 * HalfRange
      BY PunctualNumbers
    <3>3. now \in Clock /\ NextCycleStart \in Clock /\ Minus(NextCycleStart, now) = r
      BY <1>3, <1>4
    <3> HIDE DEF r
    <3> QED
      BY <2>2, <3>1, <3>2, <3>3, GuardHolds
  <2>4. Remaining' = (IF r < RTIMER_GUARD_TIME THEN RTIMER_GUARD_TIME ELSE r) + MaxLate
    BY <1>1, <2>3 DEF Remaining
  <2>5. Awake' + slept' + Remaining' <= Period + RTIMER_GUARD_TIME + MaxLate
    <3> HIDE DEF r
    <3> QED
      BY <1>1, <1>3, <1>5, <1>6, <1>7, <2>1, <2>2, <2>4, PunctualNumbers
  <2> QED
    BY <1>1, <2>1, <2>3, <2>5 DEF PeriodInv
<1>8. CASE ~LT(now, NextCycleStart)
  <2>1. /\ phase' = "sense" /\ packet_seen' = FALSE
        /\ start' = now /\ listened' = 0 /\ busy' = 0
    BY <1>8 DEF EndCycle
  <2>2. Minus(now, NextCycleStart) <= g
    BY <1>2, <1>3, <1>5, <1>6, <1>8, PunctualNumbers DEF lag
  <2>3. Awake' = 0 /\ now = Plus(now, 0)
    BY <1>3, <2>1, BeginsAtStart DEF Awake
  <2>4. /\ Minus(start', cycle_start') <= RTIMER_GUARD_TIME + MaxLate
        /\ now' = Plus(start', Awake')
    BY <1>1, <2>1, <2>2, <2>3
  <2> QED
    BY <2>1, <2>3, <2>4, PunctualNumbers DEF PeriodInv
<1> QED
  BY <1>7, <1>8

\* The node sleeps, is turned off or on, and wakes.
LEMMA PeriodSleeps ==
  ASSUME Punctual, PInv, ClockInv', Wake \/ Sleep \/ CycleTurnsOff \/ CycleTurnsOn
  PROVE  PeriodInv'
<1> SUFFICES ASSUME ~restarted' PROVE PeriodInv'
  BY DEF PeriodInv
<1>1. ~restarted /\ phase = "asleep" /\ cycle_start' = cycle_start
  BY DEF Wake, Sleep, CycleTurnsOff, CycleTurnsOn, history
<1>2. /\ Minus(wake, cycle_start) <= RTIMER_GUARD_TIME
      /\ Awake + slept + Remaining <= Period + RTIMER_GUARD_TIME + MaxLate
  BY <1>1 DEF PInv, PeriodInv
<1>3. /\ now \in Clock /\ wake \in Clock /\ cycle_start \in Clock
      /\ listened \in Nat /\ busy \in Nat /\ slept \in Nat /\ Awake \in Nat
  BY DEF PInv, ClockInv, CycleTypeOK, Awake
<1>4. CASE Wake
  <2>1. /\ Minus(now, wake) <= MaxLate /\ phase' = "sense" /\ now' = now /\ start' = now
        /\ packet_seen' = FALSE /\ listened' = 0 /\ busy' = 0
    BY <1>4 DEF Wake
  <2>2. Minus(now, cycle_start) <= RTIMER_GUARD_TIME + MaxLate
    BY <1>2, <1>3, <2>1, LateTogether, PunctualNumbers
  <2>3. Awake' = 0 /\ now = Plus(now, 0)
    BY <1>3, <2>1, BeginsAtStart DEF Awake
  <2>4. /\ Minus(start', cycle_start') <= RTIMER_GUARD_TIME + MaxLate
        /\ now' = Plus(start', Awake')
    BY <1>1, <2>1, <2>2, <2>3
  <2> QED
    BY <2>1, <2>3, <2>4, PunctualNumbers DEF PeriodInv
<1>5. CASE Sleep
  <2>1. /\ now /= Plus(wake, MaxLate) /\ now' = Plus(now, 1) /\ slept' = slept + 1
        /\ phase' = "asleep" /\ UNCHANGED <<wake, listened, busy>>
        /\ Awake' = Awake
    BY <1>1, <1>5 DEF Sleep, Awake
  <2>2. Plus(wake, MaxLate) \in Clock
    BY <1>3, PunctualNumbers, PlusTyped
  <2>3. Remaining' = Remaining - 1
    BY <1>3, <2>1, <2>2, TickRemains, PunctualNumbers, ConstantsTyped DEF Remaining
  <2>4. Remaining \in Nat
    BY <1>3, <2>2, DifferenceTyped, PunctualNumbers DEF Remaining
  <2>5. Awake' + slept' + Remaining' <= Period + RTIMER_GUARD_TIME + MaxLate
    BY <1>2, <1>3, <2>1, <2>3, <2>4, PunctualNumbers
  <2> QED
    BY <1>1, <1>2, <2>1, <2>5 DEF PeriodInv
<1>6. CASE CycleTurnsOff
  BY <1>1, <1>2, <1>6 DEF CycleTurnsOff, history, PeriodInv, Awake, Remaining
<1>7. CASE CycleTurnsOn
  BY <1>7 DEF CycleTurnsOn
<1> QED
  BY <1>4, <1>5, <1>6, <1>7

LEMMA PeriodNext ==
  ASSUME Punctual, PInv, [CycleNext]_cycleVars
  PROVE  PInv'
<1>1. ClockInv'
  BY ClockNext, PunctualNumbers DEF PInv
<1>2. CASE UNCHANGED cycleVars
  BY <1>1, <1>2 DEF PInv, PeriodInv, cycleVars, history, Awake, Remaining
<1> QED
  BY <1>1, <1>2, PeriodGoesOn, PeriodEnds, PeriodSleeps DEF PInv, CycleNext

\* A node that is not turned off wakes within a period of the beginning of its last
\* cycle, but for the guard time and the latency: through every wrap of the clock
\* and however often packets delay its cycles, if two periods fit the clock's range
\* and a packet is done within a period.
THEOREM WakesInTime ==
  ASSUME Punctual
  PROVE  CycleSpec => []WakesEveryPeriod
<1>1. CycleInit => PInv
  BY PeriodInit
<1>2. PInv /\ [CycleNext]_cycleVars => PInv'
  BY PeriodNext
<1>3. PInv => WakesEveryPeriod
  <2> SUFFICES ASSUME PInv, phase = "asleep", ~restarted PROVE WithinPeriod
    BY DEF WakesEveryPeriod
  <2>1. /\ Awake + slept + Remaining <= Period + RTIMER_GUARD_TIME + MaxLate
        /\ now \in Clock /\ wake \in Clock
        /\ listened \in Nat /\ busy \in Nat /\ slept \in Nat
    BY DEF PInv, PeriodInv, ClockInv, CycleTypeOK
  <2>2. Plus(wake, MaxLate) \in Clock
    BY <2>1, PunctualNumbers, PlusTyped
  <2>3. Remaining \in Nat
    BY <2>1, <2>2, DifferenceTyped, PunctualNumbers DEF Remaining
  <2> QED
    BY <2>1, <2>3, PunctualNumbers DEF WithinPeriod, Awake
<1> QED
  BY <1>1, <1>2, <1>3, PTL DEF CycleSpec
=============================================================================
