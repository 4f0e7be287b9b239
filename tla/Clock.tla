-------------------------------- MODULE Clock -------------------------------
(***************************************************************************)
(* The tick counter and the uptime derived from it:                        *)
(* src/kernel/drivers/timer.cpp, with the calls of timer_irq in            *)
(* src/arch/x86_64/handlers.cpp and of sched::yield (`int $32').           *)
(***************************************************************************)
EXTENDS Integers

CONSTANTS
    Rate,       \* the argument of timer::init: interrupts per second
    frequency,  \* the variable the uptime is computed with
    MaxPulses, MaxYields   \* bounds

VARIABLES
    pulses,   \* periods of the timer chip since it was programmed
    counter,
    missed,   \* periods that ended while interrupts were off
    yields    \* times a task entered timer_irq through sched::yield

vars == <<pulses, counter, missed, yields>>

Init == pulses = 0 /\ counter = 0 /\ missed = 0 /\ yields = 0

tick ==
    /\ pulses < MaxPulses
    /\ pulses' = pulses + 1
    /\ counter' = counter + 1
    /\ UNCHANGED <<missed, yields>>

\* A second period ends before a pending interrupt is taken.
miss ==
    /\ pulses < MaxPulses
    /\ pulses' = pulses + 1
    /\ missed' = missed + 1
    /\ UNCHANGED <<counter, yields>>

\* sched::yield raises the timer's vector: the handler counts a tick.
yield ==
    /\ yields < MaxYields
    /\ yields' = yields + 1
    /\ counter' = counter + 1
    /\ UNCHANGED <<pulses, missed>>

Next == tick \/ miss \/ yield

Spec == Init /\ [][Next]_vars

get_uptime_sec == counter \div frequency

\* "ticks / freq = seconds": as long as no tick was missed or forged, the
\* uptime is the number of seconds since the timer was started.
TicksPerFreqAreSeconds ==
    missed = 0 /\ yields = 0 => get_uptime_sec = pulses \div Rate
=============================================================================
