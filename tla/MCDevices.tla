----------------------------- MODULE MCDevices ------------------------------
(***************************************************************************)
(* The drivers: the console, the keyboards, the mouse, the kernel log and   *)
(* the disks.  They share no state in the models, so a behaviour runs one   *)
(* of them and leaves the others as they start.                             *)
(***************************************************************************)
EXTENDS Console, Keyboard, Mouse, KernelLog, Ahci

VARIABLE part    \* the driver that runs

\* A mode that the font divides, and two with half a character left over, to
\* the right and at the bottom.
MCScreens == {[w |-> 6, h |-> 4], [w |-> 5, h |-> 4], [w |-> 4, h |-> 5]}

MCInit ==
    /\ part \in {"console", "keyboard", "mouse", "klog", "ahci"}
    /\ ConsoleInit /\ KeyboardInit /\ MouseInit /\ KlogInit /\ AhciInit
    /\ part # "console" => con.w = 6
    /\ part # "ahci" => \A h \in Hbas, n \in Ports : drive[h][n] = "none"

MCNext ==
    /\ UNCHANGED part
    /\ \/ /\ part = "console" /\ ConsoleNext
          /\ UNCHANGED <<keyboard_vars, mouse_vars, klog_vars, ahci_vars>>
       \/ /\ part = "keyboard" /\ KeyboardNext
          /\ UNCHANGED <<console_vars, mouse_vars, klog_vars, ahci_vars>>
       \/ /\ part = "mouse" /\ MouseNext
          /\ UNCHANGED <<console_vars, keyboard_vars, klog_vars, ahci_vars>>
       \/ /\ part = "klog" /\ KlogNext
          /\ UNCHANGED <<console_vars, keyboard_vars, mouse_vars, ahci_vars>>
       \/ /\ part = "ahci" /\ AhciNext
          /\ UNCHANGED <<console_vars, keyboard_vars, mouse_vars, klog_vars>>

MCSpec == MCInit /\ [][MCNext]_<<console_vars, keyboard_vars, mouse_vars, klog_vars, ahci_vars, part>>
----------------------------------------------------------------------------
\* What the console shows is right: no cursor is left behind where put hid it,
\* unless its echo was interrupted, and whatever was drawn and is not on the
\* screen yet lies in the rectangle that the next flush copies.
ScreenRight == NoTrace /\ DirtyCovers

\* The rings of the kernel log and of the mouse deliver bytes in order and
\* none twice, and all of them until the ring turns or overflows.
RingsInOrder == KmsgInOrder /\ MouseInOrder
=============================================================================
