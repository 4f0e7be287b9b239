------------------------------ MODULE Keyboard ------------------------------
(***************************************************************************)
(* Two keyboards type into one decoder: the PS/2 keyboard's interrupt      *)
(* (src/kernel/drivers/keyboard.cpp) and the USB keyboard, whose state the *)
(* timer interrupt polls and turns into the same scan codes                *)
(* (src/kernel/drivers/usb.cpp).  They share the modifier flags, the mark  *)
(* left by an 0xE0 prefix and the filter for repeated codes.               *)
(*                                                                         *)
(* The characters go to the buffer of TtyInput.  The ring of key events    *)
(* that is also filled has no reader in the kernel and is left out.        *)
(***************************************************************************)
EXTENDS Integers, Sequences, SequencesExt, FiniteSets

CONSTANTS MaxWire,    \* bound on the bytes that wait to be read
          MaxHeld,    \* bound on the keys that are down, on each keyboard
          MaxOdd      \* bound on the circumstances in odd when a USB key changes

VARIABLES
    held,       \* PS/2 keys that are down
    locked,     \* Caps Lock as the user has set it
    wire,       \* bytes that the PS/2 keyboard has sent
    report,     \* what the USB keyboard would report: [mods, keys]
    prev,       \* the last report that keyboard_poll has taken note of
    kb,         \* the decoder: [extended, mods, caps, last]
    want,       \* history: what was typed on the PS/2 keyboard and is on its way
    wantu,      \* history: the same for the USB keyboard
    wrong,      \* history: a character came that was not the next one
    polled,     \* the USB keyboard has not changed since the last poll
    odd         \* history: circumstances in which keys may be mistaken

keyboard_vars == <<held, locked, wire, report, prev, kb, want, wantu, wrong, polled, odd>>

\* The scan codes of a key; two of the keys have a prefix.
Bytes(k, up) ==
    LET b(c) == [c |-> c, up |-> up]
    IN  CASE k = "ralt" -> <<[c |-> "E0", up |-> FALSE], b("alt")>>
          [] k = "up"   -> <<[c |-> "E0", up |-> FALSE], b("8")>>
          [] OTHER      -> <<b(k)>>

\* Without the prefix the arrow's code is that of a key pad digit, and the
\* right Alt is the left one.  (Ctrl is treated as Alt is.)
scancode_to_key(c) == CASE c = "8" -> "kp8" [] c = "alt" -> "lalt" [] OTHER -> c

extended_scancode_to_key(c) == CASE c = "8" -> "up" [] c = "alt" -> "ralt" [] OTHER -> "none"

Modifier(k) ==
    CASE k \in {"lshift", "rshift"} -> {"shift"} [] k \in {"lalt", "ralt"} -> {"alt"} [] OTHER -> {}

\* Keys that give characters, NumLock being off.
key_to_ascii(k) == k \in {"a", "s", "d", "up"}

\* USB keys are B and C; the table gives them the codes of S and D.
hid_to_ps2 == [b |-> "s", c |-> "d"]

Printed(k, mods, caps) ==
    IF key_to_ascii(k) THEN <<[key |-> k, mods |-> mods, caps |-> caps]>> ELSE <<>>

\* Mutant: the code is compared without the bit that says released.
Bounces_masked(k, sc) == sc.c = k.last.c

\* The same byte again within fifteen ticks.
Bounces(k, sc) == sc = k.last

\* Mutant: the right Alt is released by its left name only.
Released_left(mods, key) == IF key = "ralt" THEN mods ELSE mods \ Modifier(key)

\* Either key of a pair clears the flag.
Released(mods, key) == mods \ Modifier(key)

\* The decoder after a code, and the character it adds.  Caps Lock also sets
\* the lights, and Alt with a function key the terminal.
process_scancode(k, sc) ==
    LET key == IF k.extended THEN extended_scancode_to_key(sc.c) ELSE scancode_to_key(sc.c)
        seen == [k EXCEPT !.last = sc]
        mods == IF sc.up THEN Released(k.mods, key) ELSE k.mods \cup Modifier(key)
        caps == IF key = "caps" /\ ~ sc.up THEN ~ k.caps ELSE k.caps
    IN  IF Bounces(k, sc) THEN [kb |-> k, out |-> <<>>]
        ELSE IF sc.c = "E0" THEN [kb |-> [seen EXCEPT !.extended = TRUE], out |-> <<>>]
        ELSE [kb |-> [seen EXCEPT !.extended = FALSE, !.mods = mods, !.caps = caps],
              out |-> IF sc.up THEN <<>> ELSE Printed(key, mods, caps)]
----------------------------------------------------------------------------
Keys == {"a", "lshift", "rshift", "ralt", "up", "caps"}
Held(S) == UNION {Modifier(k) : k \in S}
None == [c |-> "none", up |-> FALSE]

KeyboardInit ==
    /\ held = {} /\ locked = FALSE /\ wire = <<>>
    /\ report = [mods |-> {}, keys |-> {}] /\ prev = report
    /\ kb = [extended |-> FALSE, mods |-> {}, caps |-> FALSE, last |-> None]
    /\ want = <<>> /\ wantu = <<>> /\ wrong = FALSE
    /\ polled = TRUE /\ odd = {}

\* What is typed is awaited until something odd happens.
Await(q, typed) == IF odd' = {} THEN q \o typed ELSE <<>>
Odd(S) == odd' = odd \cup S

\* A character arrives at the terminal.
Arrive(out) ==
    LET usb == out # <<>> /\ out[1].key \in {"s", "d"}
        Next1(q, x) == q # <<>> /\ Head(q) = x
        Takes(q, x) == IF Next1(q, x) THEN Tail(q) ELSE q
    IN  /\ want' = Await(IF out # <<>> /\ ~ usb THEN Takes(want, out[1]) ELSE want, <<>>)
        /\ wantu' = Await(IF usb THEN Takes(wantu, out[1].key) ELSE wantu, <<>>)
        /\ wrong' = (out # <<>> /\ odd' = {}
                       /\ ~ (IF usb THEN Next1(wantu, out[1].key) ELSE Next1(want, out[1])))

press(k) ==
    /\ k \notin held /\ Len(wire) < MaxWire /\ Cardinality(held) < MaxHeld
    /\ held' = held \cup {k}
    /\ locked' = (IF k = "caps" THEN ~ locked ELSE locked)
    /\ wire' = wire \o Bytes(k, FALSE)
    /\ Odd({})
    /\ want' = Await(want, Printed(k, Held(held'), locked'))
    /\ UNCHANGED <<report, prev, kb, wantu, wrong, polled>>

\* A key that is held sends its code again, 92 ms apart at the rate a keyboard
\* starts with: more than fifteen ticks of the 250 Hz timer.
repeat ==
    /\ "a" \in held /\ wire = <<>> /\ kb.last = None
    /\ wire' = Bytes("a", FALSE)
    /\ Odd({})
    /\ want' = Await(want, Printed("a", Held(held), locked))
    /\ UNCHANGED <<held, locked, report, prev, kb, wantu, wrong, polled>>

release(k) ==
    /\ k \in held /\ Len(wire) < MaxWire
    /\ held' = held \ {k}
    /\ wire' = wire \o Bytes(k, TRUE)
    /\ Odd(IF Modifier(k) \cap Held(held') # {} THEN {"half"} ELSE {})
    /\ want' = Await(want, <<>>) /\ wantu' = Await(wantu, <<>>)
    /\ UNCHANGED <<locked, report, prev, kb, wrong, polled>>

irq_handler ==
    LET next == process_scancode(kb, Head(wire))
    IN  /\ wire # <<>>
        /\ wire' = Tail(wire)
        /\ kb' = next.kb
        /\ Odd({})
        /\ Arrive(next.out)
        /\ UNCHANGED <<held, locked, report, prev, polled>>

\* Fifteen ticks without a code.
Passes == /\ kb' = [kb EXCEPT !.last = None]
          /\ UNCHANGED <<held, locked, wire, report, prev, want, wantu, wrong, polled, odd>>

usb_change(r, typed) ==
    /\ report' = r /\ Cardinality(r.keys) <= MaxHeld
    /\ Odd((IF polled THEN {} ELSE {"unseen"}) \cup (IF r.mods # {} THEN {"usb modifier"} ELSE {}))
    /\ want' = Await(want, <<>>) /\ wantu' = Await(wantu, typed)
    /\ polled' = FALSE
    /\ UNCHANGED <<held, locked, wire, prev, kb, wrong>>

usb_key ==
    \/ \E k \in DOMAIN hid_to_ps2 \ report.keys :
         usb_change([report EXCEPT !.keys = @ \cup {k}], <<hid_to_ps2[k]>>)
    \/ \E k \in report.keys : usb_change([report EXCEPT !.keys = @ \ {k}], <<>>)
    \/ usb_change([report EXCEPT !.mods = {"lshift"} \ @], <<>>)

inject_scancode(sc) ==
    LET next == process_scancode(kb, sc)
    IN  /\ kb' = next.kb
        /\ Odd(IF kb.extended THEN {"mixed"} ELSE {})
        /\ Arrive(next.out)

\* One change for each poll, a modifier first; only the other changes, and
\* all of them at once, are remembered.  A transfer that brings no report
\* changes nothing.
keyboard_poll ==
    LET new == report.keys \ prev.keys
        gone == prev.keys \ report.keys
    IN  /\ report # prev
        /\ polled' = TRUE
        /\ IF report.mods # prev.mods
             THEN inject_scancode([c |-> "lshift", up |-> report.mods = {}]) /\ UNCHANGED prev
             ELSE /\ prev' = report
                  /\ \E k \in (IF new # {} THEN new ELSE gone) :
                       inject_scancode([c |-> hid_to_ps2[k], up |-> new = {}])
        /\ UNCHANGED <<held, locked, wire, report>>

KeyboardNext ==
    \/ \E k \in Keys : press(k) \/ release(k)
    \/ repeat \/ irq_handler \/ Passes
    \/ Cardinality(odd) < MaxOdd /\ usb_key
    \/ keyboard_poll

KeyboardSpec == KeyboardInit /\ [][KeyboardNext]_keyboard_vars
----------------------------------------------------------------------------
\* What reaches the terminal is what was typed on either keyboard: every key,
\* once, in order, and with the modifiers that were down when it was pressed,
\* also while a held key repeats (a USB key counts as the key that its table
\* names).  Not so after one of two Shift keys was let go, after a USB
\* modifier, when two keys of the USB keyboard change between polls, and when
\* a polled code falls between a prefix and its code.
TypedIsMeant ==
    odd = {} =>
      /\ ~ wrong
      /\ wire = <<>> => want = <<>>
      /\ polled => wantu = <<>>

\* No modifier sticks: once the bytes are read, a flag is set only if a key of
\* its pair is down, whatever was mixed.  (A USB modifier does stick: the poll
\* that reports it does not remember the report, so that letting it go looks
\* like no change.)
NoStuckModifier ==
    wire = <<>> /\ "usb modifier" \notin odd => kb.mods \subseteq Held(held)
=============================================================================
