------------------------------- MODULE Memory -------------------------------
(***************************************************************************)
(* hardware/memory: the address space.  Below is the RAM, above it the     *)
(* Virtual RAM with the two tables of the device controller, which the CPU *)
(* can only read.  A word lies in one of them or raises SegfaultError.     *)
(* The operators take the content of the RAM as an argument.               *)
(***************************************************************************)
EXTENDS Binary

CONSTANTS
    RamSize,
    RegistryAddress, RegistrySize,  \* the device registry
    StatusAddress, StatusSize,      \* the device status table
    DeviceTables        \* what they hold: fixed here, see DeviceController

RamAddresses == 0 .. RamSize - 1
RegistryAddresses == RegistryAddress .. RegistryAddress + RegistrySize - 1
StatusAddresses == StatusAddress .. StatusAddress + StatusSize - 1

\* One table after the other, right behind the RAM, as in config.py.
ASSUME MemoryAssumption ==
    /\ RamSize \in Nat \ {0} /\ RegistrySize \in Nat /\ StatusSize \in Nat
    /\ RegistryAddress = RamSize
    /\ StatusAddress = RegistryAddress + RegistrySize
    /\ DeviceTables \in [RegistryAddresses \cup StatusAddresses -> Bytes]

\* What VirtualRAM is given as its last address is the one behind it.
VirtualFirst == RegistryAddress
VirtualLast == StatusAddress + StatusSize

\* The tests of RAM, VirtualRAM and DeviceController, for 1 or 2 bytes.
InRam(pos, length) == pos >= 0 /\ pos <= RamSize - length
InVirtualRam(pos, length) ==
    /\ pos >= VirtualFirst /\ pos <= VirtualLast - (length - 1)
    /\ \/ pos \in RegistryAddresses /\ pos + length - 1 \in RegistryAddresses
       \/ pos \in StatusAddresses /\ pos + length - 1 \in StatusAddresses

\* Memory asks the RAM or the VirtualRAM; between them there is no word.
Readable(pos, length) ==
    IF pos <= RamSize - length THEN InRam(pos, length)
    ELSE pos >= RamSize /\ InVirtualRam(pos, length)

\* The device controller refuses every write.
Writable(pos, length) == InRam(pos, length)

ReadByte(ram, pos) == IF pos < RamSize THEN ram[pos] ELSE DeviceTables[pos]

Read(ram, pos, length) ==
    IF length = 1 THEN ReadByte(ram, pos)
    ELSE ReadByte(ram, pos) * ByteSize + ReadByte(ram, pos + 1)

\* Faulty variant of Write: the less significant byte first.
WriteSwapped(ram, pos, length, value) ==
    IF length = 1 THEN [ram EXCEPT ![pos] = value]
    ELSE [ram EXCEPT ![pos] = GetLow(value), ![pos + 1] = GetHigh(value)]

\* The value is not checked: whatever it is, it is stored.
Write(ram, pos, length, value) ==
    IF length = 1 THEN [ram EXCEPT ![pos] = value]
    ELSE [ram EXCEPT ![pos] = GetHigh(value), ![pos + 1] = GetLow(value)]
=============================================================================
