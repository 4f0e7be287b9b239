-------------------------------- MODULE Ahci --------------------------------
(***************************************************************************)
(* The AHCI driver (src/kernel/drivers/ahci.cpp): the ports of all the     *)
(* controllers are probed, the disks and CD drives found get a device      *)
(* each, and the devices are read and written a sector at a time through   *)
(* the port's one bounce buffer.                                           *)
(*                                                                         *)
(* A command is a header, in a slot, that points to the port's command     *)
(* table.  probe_port sets that pointer, in slot 0, and setup_command      *)
(* clears the header, the pointer with it, for every command.  A host      *)
(* adapter that is sent to address 0 finds no command there: it completes  *)
(* the slot and moves no data, reports an error, or does not answer.       *)
(*                                                                         *)
(* A sector has two parts, so that there are transfers of less than one.   *)
(***************************************************************************)
EXTENDS Integers, Sequences, FiniteSets, FiniteSetsExt

CONSTANTS
    Hbas,       \* the controllers, 1 .. n in the order in which they are found
    Ports,      \* port numbers, 0 .. n
    SLOTS,      \* number of command slots
    MADE,       \* the devices for which MAKE_DEVICE is written out
    Blocks,     \* the sectors of every drive
    Values,     \* what half a sector may hold
    Junk,       \* a value that is on no drive
    MAXSECTORS  \* 0xFFFFFFFF

ASSUME AhciAssumption ==
    /\ IsFiniteSet(Hbas) /\ IsFiniteSet(Ports) /\ IsFiniteSet(Blocks)
    /\ Ports = 0 .. Cardinality(Ports) - 1 /\ Ports # {}
    /\ MADE \in Nat /\ MAXSECTORS \in Nat

VARIABLES
    drive,      \* drive[h][n]: "none", "ata" or "atapi"
    disk,       \* disk[h][n][b]: what the drive holds
    hba,        \* hba[h][n]: the slots that are busy
    ports,      \* the driver's table, by port number
    buffer,     \* buffer[h][n]: what the port's buffer holds
    dev_ctx,    \* the devices, in the order of their ids
    todo,       \* the steps of boot that are left
    last,       \* history: the last call of read, and what it gave
    taken       \* history: entries of ports that two drives have filled in

ahci_vars == <<drive, disk, hba, ports, buffer, dev_ctx, todo, last, taken>>

Size == Cardinality(Blocks)
NoCall == [ok |-> FALSE, got |-> <<>>, have |-> <<>>]
Free == [active |-> FALSE, is_atapi |-> FALSE, sectors |-> 0, hba |-> 1]

\* BootSteps: every port of every controller, then the disks, then the CD drives.
BootSteps ==
    LET n == Cardinality(Ports)
    IN  [k \in 1 .. n * Cardinality(Hbas) |->
           [step |-> "probe", hba |-> (k - 1) \div n + 1, port |-> (k - 1) % n]]
        \o [k \in 1 .. n |-> [step |-> "disk", port |-> k - 1]]
        \o [k \in 1 .. n |-> [step |-> "cdrom", port |-> k - 1]]

AhciInit ==
    /\ drive \in [Hbas -> [Ports -> {"none", "ata", "atapi"}]]
    /\ disk = [h \in Hbas |-> [n \in Ports |-> [b \in Blocks |-> <<b, b>>]]]
    /\ hba = [h \in Hbas |-> [n \in Ports |-> {}]]
    /\ ports = [n \in Ports |-> Free]
    /\ buffer = [h \in Hbas |-> [n \in Ports |-> <<Junk, Junk>>]]
    /\ dev_ctx = <<>> /\ todo = BootSteps
    /\ last = NoCall /\ taken = {}

find_slot(h, n) == (0 .. SLOTS - 1) \ hba[h][n]

\* The address of the command table in a header that has been set up.
setup_command == "zero"

\* What may become of a command: [ok, moved, busy], the last being whether the
\* slot stays busy.  A command that is found in its table may be carried out.
Outcomes ==
    {[ok |-> TRUE, moved |-> setup_command = "table", busy |-> FALSE]}
      \cup [ok : {FALSE}, moved : {FALSE}, busy : BOOLEAN]

\* A command, which becomes o, is put into the lowest slot that is free;
\* without one the call fails.
submit_command(h, n, o) ==
    LET free == find_slot(h, n)
    IN  /\ free = {} => ~ o.ok /\ ~ o.busy
        /\ hba' = IF o.busy THEN [hba EXCEPT ![h][n] = @ \cup {Min(free)}] ELSE hba

\* A command that was given up ends after all.
Late ==
    /\ \E h \in Hbas, n \in Ports : \E s \in hba[h][n] : hba' = [hba EXCEPT ![h][n] = @ \ {s}]
    /\ UNCHANGED <<drive, disk, ports, buffer, dev_ctx, todo, last, taken>>
----------------------------------------------------------------------------
\* The capacity that may be read from a buffer nobody has filled in.
Garbage == {0, Size + 1}

\* Mutant: a command that ends without an error is taken to have moved data.
identify_trusting(sectors, o) ==
    IF ~ o.ok THEN {sectors} ELSE IF o.moved THEN {Size} ELSE Garbage

\* The sectors of a disk: as they were, if no data was moved.
identify(sectors, o) == IF o.ok /\ o.moved THEN {Size} ELSE {sectors}

\* The bytes that were moved are not counted here.
atapi_identify(o) ==
    IF ~ o.ok THEN {MAXSECTORS} ELSE IF o.moved THEN {Size} ELSE Garbage

\* A port with a drive gets an entry and four blocks of memory, whether or not
\* the drive can be identified.  The entry is that of the port's number, which
\* may be in use for another controller, and keeps that one's sectors.
probe_port ==
    LET h == Head(todo).hba
        n == Head(todo).port
        cd == drive[h][n] = "atapi"
        Fill(o) == \E s \in (IF cd THEN atapi_identify(o) ELSE identify(ports[n].sectors, o)) :
                     ports' = [ports EXCEPT ![n] = [active |-> TRUE, is_atapi |-> cd,
                                                    sectors |-> s, hba |-> h]]
    IN  /\ todo # <<>> /\ Head(todo).step = "probe"
        /\ todo' = Tail(todo)
        /\ IF drive[h][n] = "none" THEN UNCHANGED <<hba, ports, taken>>
           ELSE /\ \E o \in Outcomes : submit_command(h, n, o) /\ Fill(o)
                /\ taken' = IF ports[n].active THEN taken \cup {n} ELSE taken
        /\ UNCHANGED <<drive, disk, buffer, dev_ctx, last>>

Dev(n, offset, sectors, cd, part) ==
    [port |-> n, offset |-> offset, sectors |-> sectors, is_cdrom |-> cd, part |-> part]

\* A disk and, if what was read as its first sector looks like a partition
\* table, its partitions.
register_disk_device ==
    LET n == Head(todo).port
        h == ports[n].hba
        whole == Dev(n, 0, ports[n].sectors, FALSE, FALSE)
        Mbr(o) == \/ dev_ctx' = Append(dev_ctx, whole)
                  \/ /\ o.ok
                     /\ dev_ctx' = dev_ctx \o <<whole, Dev(n, 1, 1, FALSE, TRUE)>>
    IN  /\ todo # <<>> /\ Head(todo).step = "disk"
        /\ todo' = Tail(todo)
        /\ IF ~ ports[n].active \/ ports[n].is_atapi THEN UNCHANGED <<hba, dev_ctx>>
           ELSE \E o \in Outcomes : submit_command(h, n, o) /\ Mbr(o)
        /\ UNCHANGED <<drive, disk, ports, buffer, last, taken>>

\* atapi::register_device, which asks for the capacity again.
register_cdrom ==
    LET n == Head(todo).port
        known == IF ports[n].sectors = MAXSECTORS THEN 0 ELSE ports[n].sectors
        Capacity(o) ==
            \E s \in (IF ~ o.ok THEN {known} ELSE IF o.moved THEN {Size} ELSE Garbage) :
              /\ ports' = IF o.ok THEN [ports EXCEPT ![n].sectors = s] ELSE ports
              /\ dev_ctx' = Append(dev_ctx, Dev(n, 0, s, TRUE, FALSE))
    IN  /\ todo # <<>> /\ Head(todo).step = "cdrom"
        /\ todo' = Tail(todo)
        /\ IF ~ ports[n].active \/ ~ ports[n].is_atapi THEN UNCHANGED <<hba, ports, dev_ctx>>
           ELSE \E o \in Outcomes : submit_command(ports[n].hba, n, o) /\ Capacity(o)
        /\ UNCHANGED <<drive, disk, buffer, last, taken>>
----------------------------------------------------------------------------
\* What a successful read of block b leaves in the buffer, and copies from it.
Filled(h, n, b, o) == IF o.moved /\ b \in Blocks THEN disk[h][n][b] ELSE buffer[h][n]

\* The devices that devfs knows.
Registered == 1 .. Min({Len(dev_ctx), MADE})

\* A device is read, from the first or the second half of a block.
device_read(id, b, from) ==
    LET d == dev_ctx[id]
        n == d.port
        h == ports[n].hba
        Take(o) ==
            LET s == Filled(h, n, d.offset + b, o)
            IN  IF ~ o.ok THEN last' = NoCall /\ UNCHANGED buffer
                ELSE /\ buffer' = [buffer EXCEPT ![h][n] = s]
                     /\ last' = [ok |-> TRUE, got |-> SubSeq(s, from, 2),
                                 have |-> SubSeq(disk[h][n][d.offset + b], from, 2)]
    IN  /\ \E o \in Outcomes : submit_command(h, n, o) /\ Take(o)
        /\ UNCHANGED disk

\* A write of one block: into the buffer, whatever becomes of the command.
Write(h, n, b, s) ==
    /\ buffer' = [buffer EXCEPT ![h][n] = s]
    /\ \E o \in Outcomes :
         /\ submit_command(h, n, o)
         /\ disk' = IF o.moved THEN [disk EXCEPT ![h][n][b] = s] ELSE disk

\* For a part of it the block is read first, and written only if that
\* succeeded.
device_write(id, b, from, v) ==
    LET d == dev_ctx[id]
        n == d.port
        h == ports[n].hba
    IN  /\ ~ d.is_cdrom
        /\ last' = NoCall
        /\ \/ from = 1 /\ Write(h, n, d.offset + b, <<v, v>>)
           \/ /\ from = 2 /\ \E o \in Outcomes : ~ o.ok /\ submit_command(h, n, o)
              /\ UNCHANGED <<buffer, disk>>
           \/ /\ from = 2 /\ find_slot(h, n) # {}
              /\ \E o \in Outcomes :
                   o.ok /\ Write(h, n, d.offset + b, <<Filled(h, n, d.offset + b, o)[1], v>>)

Call ==
    /\ todo = <<>>
    /\ \E id \in Registered, from \in 1 .. 2 :
         \E b \in {x \in Blocks : dev_ctx[id].offset + x \in Blocks} :
           device_read(id, b, from) \/ \E v \in Values : device_write(id, b, from, v)
    /\ UNCHANGED <<drive, ports, dev_ctx, todo, taken>>

\* Without a drive there is nothing to call.
Idle == todo = <<>> /\ dev_ctx = <<>> /\ UNCHANGED ahci_vars

AhciNext == probe_port \/ register_disk_device \/ register_cdrom \/ Call \/ Late \/ Idle

AhciSpec == AhciInit /\ [][AhciNext]_ahci_vars
----------------------------------------------------------------------------
\* The size of a disk's device, which BLKGETSIZE64 gives to programs, is that
\* of the disk, or 0 if the disk could not be identified; whichever commands
\* failed, timed out or ended without moving data.  Not so if two controllers
\* have a drive at the same port number: the second takes over the entry of
\* the first, sectors and all.
SectorsAreTheDisks ==
    \A id \in Registered :
      LET d == dev_ctx[id]
      IN  ~ d.is_cdrom /\ ~ d.part /\ d.port \notin taken => d.sectors \in {0, Size}

\* A read that succeeds gives what the disk holds.  "PRDBC ... is the real
\* signal; a command that "completes" clean but transferred 0 bytes is
\* indistinguishable from a real success without checking it", ahci.cpp says
\* of IDENTIFY; read, write and the packet commands do not check it.
ReadMeansData == last.ok => last.got = last.have
=============================================================================
