------------------------------ MODULE AlohaRdc ------------------------------
(***************************************************************************)
(* The radio duty cycling layer under ALOHA,                                *)
(* core/net/mac/contikimac/contikimac-for-aloha-rdc.c, and the slot of the    *)
(* one pending real-time timer in core/sys/rtimer.c.                         *)
(*                                                                          *)
(* Two contexts share the flags and the radio.  The main context sends,      *)
(* takes received packets in, and turns the layer on and off: one step here  *)
(* is one access to a shared variable or to the radio, as the real-time       *)
(* timer interrupt may come between any two of them.  The interrupt runs the *)
(* protothread powercycle up to its next yield while the main context waits; *)
(* the radio goes on receiving meanwhile.  Time is abstracted: a comparison  *)
(* with the clock may go either way (PowerCycleClock has the arithmetic).    *)
(***************************************************************************)
EXTENDS Naturals

CONSTANT Switching  \* may the layer be turned off and on again?

ASSUME AlohaRdcAssumption == Switching \in BOOLEAN

VARIABLES
  contikimac_is_on, contikimac_keep_radio_on,
  radio_is_on,             \* what the layer believes of the radio
  we_are_sending, we_are_receiving_burst,
  radio,                   \* is the radio really on?
  rx,                      \* the radio's reception: none, receiving, pending
  ct,                      \* is the burst timer pending?
  next_rtimer,             \* is the slot of rtimer.c occupied?
  armed,                   \* is the hardware compare armed?
  pt,                      \* where powercycle resumes: start, listen, cycle
  isr,                     \* the interrupt's position, "out" when it does not run
  main                     \* the main context's position and locals

flags == <<contikimac_is_on, contikimac_keep_radio_on>>
modes == <<we_are_sending, we_are_receiving_burst>>
air == <<radio_is_on, radio, rx>>
timers == <<next_rtimer, armed>>
vars == <<flags, modes, air, ct, timers, pt, isr, main>>

IsrPoints == {"out", "begin", "sense", "listen", "after", "end"}
MainPoints ==
  {"idle", "off_test", "off_set", "off_hw", "on_test", "on_set", "on_hw",
   "send_flag", "send_check", "send_acquire", "send_on", "send_transmit",
   "send_restore", "send_done",
   "input_parse", "input_ctimer", "input_stop", "burst_end",
   "turn_on_keep", "turn_on_look", "turn_on_set",
   "turn_off_keep", "turn_off_flag", "turn_off_hw"}

TypeOK ==
  /\ contikimac_is_on \in BOOLEAN /\ contikimac_keep_radio_on \in BOOLEAN
  /\ radio_is_on \in BOOLEAN /\ radio \in BOOLEAN
  /\ we_are_sending \in BOOLEAN /\ we_are_receiving_burst \in BOOLEAN
  /\ rx \in {"none", "receiving", "pending"}
  /\ ct \in BOOLEAN /\ next_rtimer \in BOOLEAN /\ armed \in BOOLEAN
  /\ pt \in {"start", "listen", "cycle"}
  /\ isr \in IsrPoints
  /\ main \in [pc : MainPoints, ret : MainPoints, arg : BOOLEAN, was_on : BOOLEAN]

Idle == [pc |-> "idle", ret |-> "idle", arg |-> FALSE, was_on |-> FALSE]

\* After init: the layer is on and the first power cycle is scheduled.
Init ==
  /\ contikimac_is_on = TRUE /\ contikimac_keep_radio_on = FALSE
  /\ radio_is_on = FALSE /\ radio = FALSE /\ rx = "none"
  /\ we_are_sending = FALSE /\ we_are_receiving_burst = FALSE
  /\ ct = FALSE /\ next_rtimer = TRUE /\ armed = TRUE
  /\ pt = "start" /\ isr = "out" /\ main = Idle

-----------------------------------------------------------------------------
(* The main context.  off() and on() are subroutines that return to main.ret.*)

MainAt(pc) == isr = "out" /\ main.pc = pc
Goto(pc) == main' = [main EXCEPT !.pc = pc]
Call(routine, ret) == main' = [main EXCEPT !.pc = routine, !.ret = ret]
Finish == main' = Idle

\* A radio that is switched off loses the frame it is receiving.
SwitchOff == radio' = FALSE /\ rx' = IF rx = "receiving" THEN "none" ELSE rx

OffAlways ==  \* mutant: contikimac_keep_radio_on is not tested
  /\ MainAt("off_test")
  /\ Goto(IF radio_is_on THEN "off_set" ELSE main.ret)
  /\ UNCHANGED <<flags, modes, air, ct, timers, pt, isr>>
OffTest ==
  /\ MainAt("off_test")
  /\ Goto(IF contikimac_is_on /\ radio_is_on /\ ~contikimac_keep_radio_on
          THEN "off_set" ELSE main.ret)
  /\ UNCHANGED <<flags, modes, air, ct, timers, pt, isr>>

OffSet ==
  /\ MainAt("off_set")
  /\ radio_is_on' = FALSE
  /\ Goto("off_hw")
  /\ UNCHANGED <<flags, modes, radio, rx, ct, timers, pt, isr>>

OffHw ==
  /\ MainAt("off_hw")
  /\ SwitchOff
  /\ Goto(main.ret)
  /\ UNCHANGED <<flags, modes, radio_is_on, ct, timers, pt, isr>>

OnTest ==
  /\ MainAt("on_test")
  /\ Goto(IF contikimac_is_on /\ ~radio_is_on THEN "on_set" ELSE main.ret)
  /\ UNCHANGED <<flags, modes, air, ct, timers, pt, isr>>

OnSet ==
  /\ MainAt("on_set")
  /\ radio_is_on' = TRUE
  /\ Goto("on_hw")
  /\ UNCHANGED <<flags, modes, radio, rx, ct, timers, pt, isr>>

OnHw ==
  /\ MainAt("on_hw")
  /\ radio' = TRUE
  /\ Goto(main.ret)
  /\ UNCHANGED <<flags, modes, radio_is_on, rx, ct, timers, pt, isr>>

Subroutine == OffTest \/ OffSet \/ OffHw \/ OnTest \/ OnSet \/ OnHw

-----------------------------------------------------------------------------
(* send_packet, called from qsend_list.                                      *)

\* qsend_list does not send during a burst, send_packet not when the layer and
\* the radio are turned off; arg tells a broadcast.
SendStart ==
  /\ MainAt("idle")
  /\ ~we_are_receiving_burst
  /\ contikimac_is_on \/ contikimac_keep_radio_on
  /\ \E broadcast \in BOOLEAN :
       main' = [Idle EXCEPT !.pc = "send_flag", !.arg = broadcast]
  /\ UNCHANGED <<flags, modes, air, ct, timers, pt, isr>>

SendFlag ==
  /\ MainAt("send_flag")
  /\ we_are_sending' = TRUE
  /\ Goto("send_check")
  /\ UNCHANGED <<flags, we_are_receiving_burst, air, ct, timers, pt, isr>>

\* A packet that is being received or waits in the radio is not trashed.
SendCheck ==
  /\ MainAt("send_check")
  /\ IF rx /= "none"
     THEN we_are_sending' = FALSE /\ Finish
     ELSE UNCHANGED we_are_sending /\ Call("off_test", "send_acquire")
  /\ UNCHANGED <<flags, we_are_receiving_burst, air, ct, timers, pt, isr>>

SendAcquire ==
  /\ MainAt("send_acquire")
  /\ main' = [main EXCEPT !.pc = "send_on", !.was_on = contikimac_is_on]
  /\ UNCHANGED <<flags, modes, air, ct, timers, pt, isr>>

SendOn ==
  /\ MainAt("send_on")
  /\ contikimac_is_on' = TRUE
  /\ IF main.arg THEN Goto("send_transmit") ELSE Call("on_test", "send_transmit")
  /\ UNCHANGED <<contikimac_keep_radio_on, modes, air, ct, timers, pt, isr>>

\* The frame goes out.  For a unicast what is in the radio afterwards is read as
\* the acknowledgement, whatever it is.
SendTransmit ==
  /\ MainAt("send_transmit")
  /\ rx' = IF main.arg THEN rx ELSE "none"
  /\ Call("off_test", "send_restore")
  /\ UNCHANGED <<flags, modes, radio_is_on, radio, ct, timers, pt, isr>>

SendRestore ==
  /\ MainAt("send_restore")
  /\ contikimac_is_on' = main.was_on
  /\ Goto("send_done")
  /\ UNCHANGED <<contikimac_keep_radio_on, modes, air, ct, timers, pt, isr>>

SendDone ==
  /\ MainAt("send_done")
  /\ we_are_sending' = FALSE
  /\ Finish
  /\ UNCHANGED <<flags, we_are_receiving_burst, air, ct, timers, pt, isr>>

SendPacket ==
  \/ SendStart \/ SendFlag \/ SendCheck \/ SendAcquire \/ SendOn \/ SendTransmit
  \/ SendRestore \/ SendDone

-----------------------------------------------------------------------------
(* input_packet, called by the radio driver's process, and recv_burst_off.   *)

InputStart ==
  /\ MainAt("idle")
  /\ rx = "pending"
  /\ rx' = "none"
  /\ IF we_are_receiving_burst THEN Goto("input_parse")
                               ELSE Call("off_test", "input_parse")
  /\ UNCHANGED <<flags, modes, radio_is_on, radio, ct, timers, pt, isr>>

\* An acknowledgement, a broken frame or one for another node is ignored.
InputIgnored ==
  /\ MainAt("input_parse")
  /\ Finish
  /\ UNCHANGED <<flags, modes, air, ct, timers, pt, isr>>

\* A frame for us; its frame pending bit says whether a burst goes on.
InputForUs ==
  /\ MainAt("input_parse")
  /\ we_are_receiving_burst' \in BOOLEAN
  /\ IF we_are_receiving_burst' THEN Call("on_test", "input_ctimer")
                                ELSE Call("off_test", "input_stop")
  /\ UNCHANGED <<flags, we_are_sending, air, ct, timers, pt, isr>>

InputStops ==  \* mutant: the timer is stopped in either case
  /\ MainAt("input_ctimer") \/ MainAt("input_stop")
  /\ ct' = FALSE
  /\ Finish
  /\ UNCHANGED <<flags, modes, air, timers, pt, isr>>
InputCtimer ==
  /\ MainAt("input_ctimer") \/ MainAt("input_stop")
  /\ ct' = (main.pc = "input_ctimer")
  /\ Finish
  /\ UNCHANGED <<flags, modes, air, timers, pt, isr>>

RecvBurstOff ==
  /\ MainAt("idle")
  /\ ct
  /\ ct' = FALSE
  /\ Call("off_test", "burst_end")
  /\ UNCHANGED <<flags, modes, air, timers, pt, isr>>

BurstEnd ==
  /\ MainAt("burst_end")
  /\ we_are_receiving_burst' = FALSE
  /\ Finish
  /\ UNCHANGED <<flags, we_are_sending, air, ct, timers, pt, isr>>

InputPacket ==
  InputStart \/ InputIgnored \/ InputForUs \/ InputCtimer \/ RecvBurstOff \/ BurstEnd

-----------------------------------------------------------------------------
(* turn_on with its rtimer_set, and turn_off.                                *)

TurnOn ==
  /\ Switching /\ MainAt("idle")
  /\ ~contikimac_is_on
  /\ contikimac_is_on' = TRUE
  /\ Goto("turn_on_keep")
  /\ UNCHANGED <<contikimac_keep_radio_on, modes, air, ct, timers, pt, isr>>

TurnOnKeep ==
  /\ MainAt("turn_on_keep")
  /\ contikimac_keep_radio_on' = FALSE
  /\ Goto("turn_on_look")
  /\ UNCHANGED <<contikimac_is_on, modes, air, ct, timers, pt, isr>>

\* rtimer_set looks whether the slot is free before it takes it; arg is "first".
TurnOnLook ==
  /\ MainAt("turn_on_look")
  /\ main' = [main EXCEPT !.pc = "turn_on_set", !.arg = ~next_rtimer]
  /\ UNCHANGED <<flags, modes, air, ct, timers, pt, isr>>

TurnOnUnarmed ==  \* mutant: rtimer_set fills the slot and does not arm the timer
  /\ MainAt("turn_on_set")
  /\ next_rtimer' = TRUE
  /\ Finish
  /\ UNCHANGED <<flags, modes, air, ct, armed, pt, isr>>
TurnOnSet ==
  /\ MainAt("turn_on_set")
  /\ next_rtimer' = TRUE
  /\ armed' = (armed \/ main.arg)
  /\ Finish
  /\ UNCHANGED <<flags, modes, air, ct, pt, isr>>

TurnOff ==
  /\ Switching /\ MainAt("idle")
  /\ contikimac_is_on' = FALSE
  /\ \E keep \in BOOLEAN : main' = [Idle EXCEPT !.pc = "turn_off_keep", !.arg = keep]
  /\ UNCHANGED <<contikimac_keep_radio_on, modes, air, ct, timers, pt, isr>>

TurnOffKeep ==
  /\ MainAt("turn_off_keep")
  /\ contikimac_keep_radio_on' = main.arg
  /\ Goto("turn_off_flag")
  /\ UNCHANGED <<contikimac_is_on, modes, air, ct, timers, pt, isr>>

TurnOffFlag ==
  /\ MainAt("turn_off_flag")
  /\ radio_is_on' = main.arg
  /\ Goto("turn_off_hw")
  /\ UNCHANGED <<flags, modes, radio, rx, ct, timers, pt, isr>>

TurnOffHw ==
  /\ MainAt("turn_off_hw")
  /\ IF main.arg THEN radio' = TRUE /\ UNCHANGED rx ELSE SwitchOff
  /\ Finish
  /\ UNCHANGED <<flags, modes, radio_is_on, ct, timers, pt, isr>>

Turn ==
  \/ TurnOn \/ TurnOnKeep \/ TurnOnLook \/ TurnOnSet
  \/ TurnOff \/ TurnOffKeep \/ TurnOffFlag \/ TurnOffHw

-----------------------------------------------------------------------------
(* The interrupt: rtimer_run_next calls powercycle.  It tests the guards and  *)
(* switches the radio with nothing in between but the radio itself.           *)

SwitchInBurst == ~we_are_sending           \* mutant: bursts not tested
SwitchInSend == ~we_are_receiving_burst    \* mutant: sending not tested
PowercycleMaySwitch == ~we_are_sending /\ ~we_are_receiving_burst

\* powercycle_turn_radio_off
TurnRadioOff ==
  IF /\ PowercycleMaySwitch
     /\ contikimac_is_on /\ radio_is_on /\ ~contikimac_keep_radio_on
  THEN radio_is_on' = FALSE /\ SwitchOff
  ELSE UNCHANGED air

\* powercycle_turn_radio_on
TurnRadioOn ==
  IF PowercycleMaySwitch /\ contikimac_is_on /\ ~radio_is_on
  THEN radio_is_on' = TRUE /\ radio' = TRUE /\ UNCHANGED rx
  ELSE UNCHANGED air

\* schedule_powercycle, schedule_powercycle_fixed, then the yield at resume.
YieldAt(resume) ==
  /\ next_rtimer' = contikimac_is_on
  /\ armed' = contikimac_is_on
  /\ pt' = resume
  /\ isr' = "out"

Interrupt ==
  /\ isr = "out"
  /\ armed
  /\ armed' = FALSE
  /\ next_rtimer' = FALSE
  /\ isr' = IF ~next_rtimer THEN "out"
            ELSE CASE pt = "listen" -> "listen"
                   [] pt \in {"start", "cycle"} -> "begin"
  /\ UNCHANGED <<flags, modes, air, ct, pt, main>>

\* The top of the loop: the radio is switched on and the channel sensed, unless
\* the main context uses the radio.
IsrBegin ==
  /\ isr = "begin"
  /\ TurnRadioOn
  /\ isr' = IF PowercycleMaySwitch THEN "sense" ELSE "end"
  /\ UNCHANGED <<flags, modes, ct, timers, pt, main>>

\* The channel stays clear for the whole active time.
IsrClear ==
  /\ isr = "sense"
  /\ TurnRadioOff
  /\ isr' = "end"
  /\ UNCHANGED <<flags, modes, ct, timers, pt, main>>

IsrPacketSeen ==
  /\ isr = "sense"
  /\ isr' = "listen"
  /\ UNCHANGED <<flags, modes, air, ct, timers, pt, main>>

\* Nothing heard for too long (MAX_SILENCE_PERIODS, fast sleep).
IsrSilence ==
  /\ isr = "listen"
  /\ ~we_are_sending /\ radio_is_on
  /\ rx /= "receiving"
  /\ TurnRadioOff
  /\ isr' = "after"
  /\ UNCHANGED <<flags, modes, ct, timers, pt, main>>

\* Look again later.
IsrListenOn ==
  /\ isr = "listen"
  /\ ~we_are_sending /\ radio_is_on
  /\ rx /= "pending"
  /\ YieldAt("listen")
  /\ UNCHANGED <<flags, modes, air, ct, main>>

\* A packet has arrived, the main context has taken the radio, or the time is up
\* (the last at any time).
IsrListenDone ==
  /\ isr = "listen"
  /\ isr' = "after"
  /\ UNCHANGED <<flags, modes, air, ct, timers, pt, main>>

\* The radio stays on only for a reception that is not overdue.
IsrStaysOn ==  \* mutant: the radio is not turned off after the listening
  isr = "after" /\ isr' = "end" /\ UNCHANGED <<flags, modes, air, ct, timers, pt, main>>
IsrAfter ==
  /\ isr = "after"
  /\ \/ radio_is_on /\ TurnRadioOff
     \/ ~radio_is_on /\ UNCHANGED air
     \/ radio_is_on /\ rx /= "none" /\ UNCHANGED air
  /\ isr' = "end"
  /\ UNCHANGED <<flags, modes, ct, timers, pt, main>>

\* advance_cycle_start: wait for the next cycle, or go on when it is due.
IsrEnd ==
  /\ isr = "end"
  /\ \/ YieldAt("cycle")
     \/ isr' = "begin" /\ UNCHANGED <<timers, pt>>
  /\ UNCHANGED <<flags, modes, air, ct, main>>

Powercycle ==
  \/ Interrupt \/ IsrBegin \/ IsrClear \/ IsrPacketSeen \/ IsrSilence
  \/ IsrListenOn \/ IsrListenDone \/ IsrAfter \/ IsrEnd

-----------------------------------------------------------------------------
\* The radio receives a frame, or fails to.
Receive ==
  /\ radio
  /\ \/ rx = "none" /\ rx' = "receiving"
     \/ rx = "receiving" /\ rx' \in {"none", "pending"}
  /\ UNCHANGED <<flags, modes, radio_is_on, radio, ct, timers, pt, isr, main>>

Main == Subroutine \/ SendPacket \/ InputPacket \/ Turn

Next == Main \/ Powercycle \/ Receive

Spec == Init /\ [][Next]_vars

\* The main context gets the processor between two interrupts, which are at
\* least RTIMER_GUARD_TIME apart; a pending interrupt or timer comes; the driver is
\* polled for a received packet; the clock
\* ends the listening and the catching up with missed cycles.
Fairness ==
  /\ SF_vars(main.pc /= "idle" /\ Main)
  /\ SF_vars(RecvBurstOff)
  /\ SF_vars(InputStart)
  /\ WF_vars(Interrupt)
  /\ WF_vars(isr /= "out" /\ Powercycle)
  /\ SF_vars(IsrListenDone)
  /\ SF_vars(IsrEnd /\ isr' = "out")

FairSpec == Spec /\ Fairness

-----------------------------------------------------------------------------
(* What the layer must keep.                                                 *)

\* The main context is between setting radio_is_on and switching the radio.
SwitchingRadio == main.pc \in {"off_hw", "on_hw", "turn_off_hw"}

\* When the layer believes the radio off, it is off: no order of main context
\* and interrupt leaves the radio burning unnoticed.
OffIsOff == ~radio_is_on /\ ~SwitchingRadio => ~radio

\* While the main context sends, the power cycle interrupt does not touch the
\* radio nor what the layer believes of it.
SendUndisturbed ==
  [][we_are_sending /\ isr /= "out" => UNCHANGED <<radio_is_on, radio>>]_vars

\* While the layer is on the next power cycle is scheduled, through any turning
\* off and on and any order with the interrupt; the main context may just be
\* setting the timer, or have switched the layer on only to send.
PowerCycleArmed ==
  contikimac_is_on /\ isr = "out" =>
    \/ next_rtimer /\ armed
    \/ main.pc \in {"turn_on_keep", "turn_on_look", "turn_on_set"}
    \/ we_are_sending /\ ~main.was_on

\* The reception of a burst has an end: its timer is pending, or the main context
\* is about to set it or to end the burst.
BurstHasDeadline ==
  we_are_receiving_burst => ct \/ main.ret \in {"input_ctimer", "burst_end"}

\* Both: no order of the main context with the interrupt leaves the layer waiting
\* for a timer that is not set, neither for the next cycle nor for a burst's end.
TimersArmed == TypeOK /\ PowerCycleArmed /\ BurstHasDeadline

\* A layer that is turned off keeps its hands off the radio: it stays on or off as
\* turn_off was told, sends that borrow it included.
TurnedOffHolds ==
  ~contikimac_is_on /\ main.pc = "idle" /\ ~we_are_sending =>
    radio = contikimac_keep_radio_on

\* A radio that the layer believes on and that is off does not stay so: the layer
\* is deaf at most until a cycle, a burst or a transmission ends.
DeafnessHeals == (radio_is_on /\ ~radio) ~> (~radio_is_on \/ radio)

\* While the layer stays on its power cycles go on.
CyclesGoOn == <>[]contikimac_is_on => []<>(isr = "begin")
=============================================================================
