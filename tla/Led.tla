--------------------------------- MODULE Led ---------------------------------
(***************************************************************************)
(* The LED behaviour of lib/edgehog_device/led.c: the handler of the       *)
(* server's requests, which runs in the thread that polls the device, the  *)
(* blink thread, which has a higher priority, and the one-minute timer     *)
(* that ends a blink.                                                      *)
(***************************************************************************)

VARIABLES
  runBit,     \* LED_STATE_RUN_BIT of led_run_state
  blink,      \* where the blink thread is
  lit,        \* the level of the pin
  ledTimer,   \* led_blink_timer is armed
  handler,    \* where edgehog_led_event is
  trampled    \* the handle of a live blink thread was cleared or used again

vars == <<runBit, blink, lit, ledTimer, handler, trampled>>

\* The three entry points differ in how often they change the pin while they sleep.
Blinking   == {"test", "sleep"}
BlinkPlace == {"none", "ended"} \cup Blinking

Init ==
  /\ runBit = FALSE /\ blink = "none"
  /\ lit = FALSE /\ ledTimer = FALSE
  /\ handler = "idle" /\ trampled = FALSE
-----------------------------------------------------------------------------
(***************************************************************************)
(* edgehog_led_event.  Configuring the pin makes it active, also for a     *)
(* request that is then refused.                                           *)
(***************************************************************************)
Asked == handler = "idle"

\* edgehog_led_setup fails before or while it configures the pin.
Unready ==
  /\ Asked
  /\ UNCHANGED <<runBit, blink, lit, ledTimer, handler, trampled>>

Refused ==
  /\ Asked
  /\ runBit
  /\ lit' = TRUE
  /\ UNCHANGED <<runBit, blink, ledTimer, handler, trampled>>

\* Mutant: the bit is left set when the behaviour is not supported.
UnsupportedKept ==
  /\ Asked
  /\ ~runBit
  /\ runBit' = TRUE
  /\ lit' = TRUE
  /\ trampled' = (trampled \/ blink \in Blinking)
  /\ blink' = "none"
  /\ UNCHANGED <<ledTimer, handler>>

\* The RUN bit is set, the thread handle cleared, and then get_blink_entry finds no entry
\* point; the fail label clears the bit.  A thread that still slept is gone.
Unsupported ==
  /\ Asked
  /\ ~runBit
  /\ lit' = TRUE
  /\ trampled' = (trampled \/ blink \in Blinking)
  /\ blink' = "none"
  /\ UNCHANGED <<runBit, ledTimer, handler>>

\* The new thread preempts the handler before the timer is set.
Accepted ==
  /\ Asked
  /\ ~runBit
  /\ runBit' = TRUE
  /\ lit' = TRUE
  /\ trampled' = (trampled \/ blink \in Blinking)
  /\ blink' = "test"
  /\ handler' = "timer"
  /\ UNCHANGED ledTimer

\* set_blink_timer
SetTimer ==
  /\ handler = "timer"
  /\ ledTimer' = TRUE
  /\ handler' = "idle"
  /\ UNCHANGED <<runBit, blink, lit, trampled>>

Request == Unready \/ Refused \/ Unsupported \/ Accepted
-----------------------------------------------------------------------------
(***************************************************************************)
(* The blink thread, and expiry_blink_timer.                               *)
(***************************************************************************)
BlinkKeeps == UNCHANGED <<runBit, ledTimer, handler, trampled>>

\* The first level of a round: the other one, or on for a double blink; a pin that cannot be
\* toggled keeps its level.
Toggle ==
  /\ blink = "test" /\ runBit
  /\ lit' \in BOOLEAN
  /\ blink' = "sleep"
  /\ BlinkKeeps

\* double_blink_entry_point changes the pin three times before it tests the bit again.
ToggleAgain ==
  /\ blink = "sleep"
  /\ lit' = ~lit
  /\ UNCHANGED blink /\ BlinkKeeps

\* The last sleep of a round is over.
Awake ==
  /\ blink = "sleep"
  /\ blink' = "test"
  /\ UNCHANGED lit /\ BlinkKeeps

BlinkEnd ==
  /\ blink = "test" /\ ~runBit
  /\ lit' = FALSE
  /\ blink' = "ended"
  /\ BlinkKeeps

\* What takes the thread from one round to the next, or to its end.
Round == Toggle \/ Awake \/ BlinkEnd

\* Mutant: the timer does not clear the bit.
ExpireUnseen ==
  /\ ledTimer
  /\ ledTimer' = FALSE
  /\ UNCHANGED <<runBit, blink, lit, handler, trampled>>

Expire ==
  /\ ledTimer
  /\ ledTimer' = FALSE
  /\ runBit' = FALSE
  /\ UNCHANGED <<blink, lit, handler, trampled>>
-----------------------------------------------------------------------------
Next == Request \/ SetTimer \/ Round \/ ToggleAgain \/ Expire

Spec == Init /\ [][Next]_vars
-----------------------------------------------------------------------------
TypeOK ==
  /\ runBit \in BOOLEAN /\ lit \in BOOLEAN /\ ledTimer \in BOOLEAN
  /\ blink \in BlinkPlace
  /\ handler \in {"idle", "timer"}
  /\ trampled \in BOOLEAN

(***************************************************************************)
(* The RUN bit is set exactly while something will clear it: the timer, or *)
(* the handler that is about to arm it.  So the LED is never blocked for   *)
(* ever by a request that failed, and a timer never outlives the blink it  *)
(* was armed for to cut the next one short.                                *)
(***************************************************************************)
RunIsTimed == /\ runBit <=> ledTimer \/ handler = "timer"
              /\ handler = "timer" => ~ledTimer
=============================================================================
