------------------------------- MODULE Loader -------------------------------
(***************************************************************************)
(* The boot loader, src/PhononPkg/Boot: UefiMain asks firmware for the     *)
(* screen and the ACPI root, reads and loads the kernel, and leaves boot   *)
(* services with a memory map that must be the one of that very moment.    *)
(*                                                                         *)
(* Firmware is external.  Its calls may fail, and its own timers may       *)
(* change the memory map between any two of them; each such surprise is    *)
(* counted against a bound.                                                *)
(***************************************************************************)
EXTENDS Integers

CONSTANTS
  Segments,        \* how many segments of the kernel are to be loaded
  MaxSurprises,    \* bound on what firmware does unasked, or refuses
  MaxDescriptors   \* bound on the entries of the memory map

MEMORY_EXIT_MAX_ATTEMPTS == 3
Pad == 2           \* descriptors a buffer has room for beyond what was asked

ASSUME LoaderAssumption == {Segments, MaxSurprises, MaxDescriptors} \subseteq Nat \ {0}

VARIABLES
  stage,       \* where UefiMain is
  services,    \* boot services are there
  held,        \* buffers and handles taken from firmware and not given back
  loaded,      \* segments of the kernel in place, each in pages of its own
  descriptors, \* entries of firmware's memory map
  current,     \* the map in the buffer is the map there is: the key is good
  mapSize,     \* MapSize, in descriptors
  attempt,     \* Attempt
  info,        \* the fields of PhononBootInfo that are filled in
  stubborn,    \* firmware never lets go of boot services
  surprises    \* what is left of MaxSurprises

loaderVars == <<stage, services, held, loaded, descriptors, current, mapSize,
                attempt, info, stubborn, surprises>>

Stages == {"screen", "rsdp", "open", "info", "image", "read", "load",
           "size", "buffer", "map", "exit", "retry", "jumped", "halted"}
Things == {"root", "file", "info", "image", "map"}

Filled == [screen : BOOLEAN, rsdp : BOOLEAN, entries : 0 .. (MaxDescriptors + Pad)]

LoaderTypeOK ==
  /\ stage \in Stages
  /\ services \in BOOLEAN /\ current \in BOOLEAN
  /\ held \subseteq Things
  /\ loaded \in 0 .. Segments
  /\ descriptors \in 1 .. MaxDescriptors
  /\ mapSize \in 0 .. (MaxDescriptors + Pad)
  /\ attempt \in 0 .. MEMORY_EXIT_MAX_ATTEMPTS
  /\ info \in Filled
  /\ stubborn \in BOOLEAN
  /\ surprises \in 0 .. MaxSurprises

LoaderInit ==
  /\ stage = "screen"
  /\ services = TRUE
  /\ held = {}
  /\ loaded = 0
  /\ descriptors = 1
  /\ current = FALSE
  /\ mapSize = 0
  /\ attempt = 0
  /\ info = [screen |-> FALSE, rsdp |-> FALSE, entries |-> 0]
  /\ stubborn \in BOOLEAN
  /\ surprises \in 0 .. MaxSurprises

-----------------------------------------------------------------------------
Refuse == surprises > 0 /\ surprises' = surprises - 1

(* Taking memory from firmware or giving it back changes the map; it may   *)
(* split an entry, which is the rare case and counts as a surprise.        *)
MapMoves ==
  /\ current' = FALSE
  /\ \/ UNCHANGED <<descriptors, surprises>>
     \/ /\ Refuse
        /\ descriptors' \in (descriptors + 1) .. (descriptors + Pad)
        /\ descriptors' <= MaxDescriptors
MapStays == UNCHANGED <<descriptors, current>>

(* A firmware timer.                                                       *)
FirmwareEvent ==
  /\ services
  /\ Refuse
  /\ current' = FALSE
  /\ descriptors' \in 1 .. MaxDescriptors
  /\ UNCHANGED <<stage, services, held, loaded, mapSize, attempt, info, stubborn>>

(* UefiMain, label Halt: it stalls, which is a boot service.               *)
Halt(keeping) == stage' = "halted" /\ held' = keeping

-----------------------------------------------------------------------------
(* GraphicsInit and AcpiFindRsdp.                                          *)
Ask(at, field, next) ==
  /\ stage = at
  /\ \/ stage' = next /\ info' = [info EXCEPT ![field] = TRUE] /\ UNCHANGED <<held, surprises>>
     \/ Refuse /\ Halt(held) /\ UNCHANGED info
  /\ MapStays
  /\ UNCHANGED <<services, loaded, mapSize, attempt, stubborn>>

GraphicsInit == Ask("screen", "screen", "rsdp")
AcpiFindRsdp == Ask("rsdp", "rsdp", "open")

(* FileIOReadFile: the volume and the file, the buffer for what is known   *)
(* of the file, the buffer for its contents, the contents.                 *)
OpenKernel ==
  /\ stage = "open"
  /\ \/ stage' = "info" /\ held' = {"root", "file"} /\ UNCHANGED surprises
     \/ Refuse /\ Halt({})
  /\ MapStays
  /\ UNCHANGED <<services, loaded, mapSize, attempt, info, stubborn>>

(* GetInfo is asked for the size with a buffer of no bytes, and firmware   *)
(* has to answer that this is too small: any other answer ends the read.   *)
(* One of them, success, would leave FileIOReadFile as a success without a *)
(* buffer (FileIO.c:86-89); UEFI rules it out, and so does the model.      *)
GetInfo ==
  /\ stage = "info"
  /\ \/ stage' = "image" /\ held' = held \cup {"info"} /\ MapMoves
     \/ Refuse /\ Halt({}) /\ MapStays
  /\ UNCHANGED <<services, loaded, mapSize, attempt, info, stubborn>>

(* The buffer for the contents is asked for after the other was freed.     *)
AllocateImage ==
  /\ stage = "image"
  /\ \/ stage' = "read" /\ held' = (held \ {"info"}) \cup {"image"} /\ MapMoves
     \/ Refuse /\ Halt({}) /\ MapStays
  /\ UNCHANGED <<services, loaded, mapSize, attempt, info, stubborn>>

ReadImageLeavingFile ==           \* mutant: success returns past the label
  /\ stage = "read"
  /\ \/ stage' = "load" /\ UNCHANGED <<held, surprises>>
     \/ Refuse /\ Halt({})
  /\ MapStays
  /\ UNCHANGED <<services, loaded, mapSize, attempt, info, stubborn>>

ReadImage ==
  /\ stage = "read"
  /\ \/ stage' = "load" /\ held' = {"image"} /\ UNCHANGED surprises
     \/ Refuse /\ Halt({})
  /\ MapStays
  /\ UNCHANGED <<services, loaded, mapSize, attempt, info, stubborn>>

(* ElfLoadImage: a page range for each segment, at its own address.  The   *)
(* ranges of the segments before one that fails are never given back: they *)
(* are not of `held`, and `loaded` still counts them.                      *)
LoadSegment ==
  /\ stage = "load"
  /\ loaded < Segments
  /\ \/ loaded' = loaded + 1 /\ UNCHANGED <<stage, held>> /\ MapMoves
     \/ Refuse /\ Halt({}) /\ UNCHANGED <<loaded, descriptors, current>>
  /\ UNCHANGED <<services, mapSize, attempt, info, stubborn>>

FreeImage ==
  /\ stage = "load"
  /\ loaded = Segments
  /\ stage' = "size"
  /\ held' = held \ {"image"}
  /\ MapMoves
  /\ UNCHANGED <<services, loaded, mapSize, attempt, info, stubborn>>

-----------------------------------------------------------------------------
(* MemoryExitBootServices.                                                 *)
AskMapSize ==
  /\ stage = "size"
  /\ \/ stage' = "buffer" /\ mapSize' = descriptors /\ UNCHANGED <<held, surprises>>
     \/ Refuse /\ Halt(held) /\ UNCHANGED mapSize
  /\ MapStays
  /\ UNCHANGED <<services, loaded, attempt, info, stubborn>>

AllocateMap ==
  /\ stage = "buffer"
  /\ \/ stage' = "map" /\ held' = held \cup {"map"} /\ mapSize' = mapSize + Pad /\ MapMoves
     \/ Refuse /\ Halt(held) /\ MapStays /\ UNCHANGED mapSize
  /\ UNCHANGED <<services, loaded, attempt, info, stubborn>>

MapSizeKept == mapSize            \* mutant: the size of the buffer, not of the map
MapSize == descriptors

GetMemoryMap ==
  /\ stage = "map"
  /\ \/ /\ mapSize >= descriptors
        /\ stage' = "exit"
        /\ mapSize' = MapSize
        /\ current' = TRUE
        /\ UNCHANGED <<held, descriptors, surprises>>
     \/ /\ mapSize < descriptors
        /\ stage' = "buffer"
        /\ mapSize' = descriptors
        /\ held' = held \ {"map"}
        /\ MapMoves
     \/ /\ Refuse
        /\ Halt(held \ {"map"})
        /\ UNCHANGED <<mapSize, descriptors, current>>
  /\ UNCHANGED <<services, loaded, attempt, info, stubborn>>

ExitBootServices ==
  /\ stage = "exit"
  /\ \/ /\ current /\ ~stubborn
        /\ services' = FALSE
        /\ stage' = "jumped"
        /\ info' = [info EXCEPT !.entries = mapSize]
        /\ UNCHANGED surprises
     \/ /\ ~current
        /\ stage' = "retry"
        /\ UNCHANGED <<services, info, surprises>>
     \/ /\ current
        /\ \/ Refuse
           \/ stubborn /\ UNCHANGED surprises
        /\ stage' = "retry"
        /\ UNCHANGED <<services, info>>
  /\ MapStays
  /\ UNCHANGED <<held, loaded, mapSize, attempt, stubborn>>

AgainKept == attempt              \* mutant: the attempts are not counted
Again == attempt + 1

(* The message, which boot services print, and the next attempt.           *)
Retry ==
  /\ stage = "retry"
  /\ attempt' = Again
  /\ IF Again < MEMORY_EXIT_MAX_ATTEMPTS
     THEN stage' = "size" /\ held' = held \ {"map"}
     ELSE Halt(held \ {"map"})
  /\ MapMoves
  /\ UNCHANGED <<services, loaded, mapSize, info, stubborn>>

LoaderNext ==
  \/ FirmwareEvent \/ GraphicsInit \/ AcpiFindRsdp
  \/ OpenKernel \/ GetInfo \/ AllocateImage \/ ReadImage
  \/ LoadSegment \/ FreeImage
  \/ AskMapSize \/ AllocateMap \/ GetMemoryMap \/ ExitBootServices \/ Retry

(* What the kernel is handed: boot services are gone, the whole kernel is  *)
(* in place, nothing of firmware's is held but the buffer with the memory  *)
(* map, the map is the one of the moment boot services ended, and its      *)
(* count is the number of its entries.  And a loader that halts instead,   *)
(* which takes a boot service, still has them and has given every buffer   *)
(* and handle back (Memory.c:88-115, PhononBoot.c:62-82); the pages of the *)
(* segments it had loaded by then stay taken.                              *)
HandoffIsSound ==
  /\ stage = "jumped" =>
       /\ ~services /\ loaded = Segments /\ held = {"map"} /\ current
       /\ info = [screen |-> TRUE, rsdp |-> TRUE, entries |-> descriptors]
  /\ stage = "halted" => services /\ held = {}
=============================================================================
