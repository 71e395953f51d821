-------------------------------- MODULE Boot --------------------------------
(***************************************************************************)
(* From an executable file to a RAM to start from: utils/executable.py,    *)
(* utils/boot.py, the boot image of utils/config.py and Aldebaran.boot.    *)
(* A file is the sequence of its bytes.                                    *)
(***************************************************************************)
EXTENDS Memory, InstructionSet

CONSTANTS
    Signature,          \* ALDEBARAN_EXECUTABLE_SIGNATURE
    NumberOfInterrupts

ASSUME BootAssumption ==
    /\ Signature \in Seq(Bytes)
    /\ Len(Signature) + 3 \in Words
    /\ NumberOfInterrupts \in Nat
    /\ 2 * NumberOfInterrupts < RamSize /\ RamSize <= WordSize

-----------------------------------------------------------------------------
(* Executables *)

\* Signature, version, and the two bytes of the entry point.
FixedLength == Len(Signature) + 3

Executable(version, opcode, extra_header) ==
    [version |-> version, entry_point |-> FixedLength + Len(extra_header),
     extra_header |-> extra_header, opcode |-> opcode]

Header(exe) ==
    Signature \o <<exe.version>> \o ToBinary(exe.entry_point, 2) \o exe.extra_header

\* save_to_file
File(exe) == Header(exe) \o exe.opcode

\* What read(count) returns when pos bytes have been read: less at the end of the file.
Part(file, pos, count) ==
    SubSeq(file, pos + 1, IF pos + count < Len(file) THEN pos + count ELSE Len(file))

EntryPointIn(file) ==
    LET bytes == Part(file, Len(Signature) + 1, 2)
    IN  IF bytes = <<>> THEN 0 ELSE ToNumber(bytes)

ExtraHeaderLength(file) == EntryPointIn(file) - FixedLength

\* load_from_file raises no CorruptFileError. A file may end anywhere behind its
\* version; of the negative lengths, read takes -1 for "all there is".
Loadable(file) ==
    /\ Part(file, 0, Len(Signature)) = Signature
    /\ Len(file) > Len(Signature)
    /\ ExtraHeaderLength(file) >= -1

Loaded(file) ==
    LET rest == Part(file, FixedLength, Len(file))
        length == IF ExtraHeaderLength(file) = -1 THEN Len(rest) ELSE ExtraHeaderLength(file)
    IN  [version |-> file[Len(Signature) + 1], entry_point |-> EntryPointIn(file),
         extra_header |-> Part(rest, 0, length), opcode |-> Part(rest, length, Len(rest))]

-----------------------------------------------------------------------------
(* The RAM that the machine starts with *)

EntryPoint == 0
IVT == RamSize - 2 * NumberOfInterrupts
DefaultInterruptHandler == IVT - 1

\* create_boot_image: an IRET, and an interrupt table that leads to it.
BootImage ==
    [pos \in RamAddresses |->
        IF pos = DefaultInterruptHandler THEN InstructionMapping("IRET").opcode
        ELSE IF pos < IVT THEN 0
        ELSE IF (pos - IVT) % 2 = 0 THEN GetHigh(DefaultInterruptHandler)
        ELSE GetLow(DefaultInterruptHandler)]

\* The bytes are written where they come: also over the interrupt table.
LoadExecutable(ram, pos, exe) ==
    [address \in RamAddresses |->
        IF address - pos + 1 \in DOMAIN exe.opcode THEN exe.opcode[address - pos + 1]
        ELSE ram[address]]

\* Aldebaran.boot raises no error: UnsupportedExecutableVersionError or SegfaultError.
Bootable(file) ==
    /\ Loadable(file)
    /\ Loaded(file).version = 1
    /\ EntryPoint + Len(Loaded(file).opcode) <= RamSize

\* Aldebaran.boot; the entry point in the file plays no part.
BootedRam(file) == LoadExecutable(BootImage, EntryPoint, Loaded(file))
=============================================================================
