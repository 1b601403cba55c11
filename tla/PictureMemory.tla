--------------------------- MODULE PictureMemory ---------------------------
(***************************************************************************)
(* What a picture job says of the card (src/simple_serving/pictures        *)
(* comfy.py and jobs.py): the memory in use while it drew, out of reads of *)
(* /system_stats, and the models its experiment loaded in part, out of two *)
(* reads of ComfyUI's log.                                                 *)
(*                                                                         *)
(* A read lists devices: whether their amounts are numbers, their index    *)
(* and the free memory of torch, {} where it has none; and the RAM, {} if  *)
(* it does not read.  A read that fails is {} and adds nothing.            *)
(***************************************************************************)
EXTENDS Integers, Sequences, FiniteSets

CONSTANT MIB    \* the bytes of one MiB

ASSUME MIBAssumption == MIB \in Nat \ {0}

LOCAL INSTANCE SequencesExt

Larger(a, b) == IF a < b THEN b ELSE a
Smaller(a, b) == IF a < b THEN a ELSE b

(* The nearest whole number, a half upwards.                             *)
Mib(amount) == (2 * amount + MIB) \div (2 * MIB)

Nothing == [vram |-> <<>>, samples |-> 0, ram |-> {}]

Used(device) == device.total - device.free

(* A device without an index goes by its place in the list, from 0.      *)
DeviceRead(device, place) ==
  [index |-> IF device.index = {} THEN place - 1 ELSE CHOOSE i \in device.index : TRUE,
   total |-> Mib(device.total), used |-> Mib(Used(device)),
   occupied |-> {Mib(Used(device) + free) : free \in device.torch}]

(* Without a maximum yet, the one to add is held against 0.              *)
Occupied(known, one) ==
  IF one.occupied = {} THEN known.occupied
  ELSE {Larger(a, b) : a \in IF known.occupied = {} THEN {0} ELSE known.occupied, b \in one.occupied}

Entries(vram, index) == {i \in DOMAIN vram : vram[i].index = index}

(* The devices in the order in which they were first seen.               *)
WithDevice(vram, one) ==
  IF Entries(vram, one.index) = {} THEN Append(vram, one)
  ELSE [i \in DOMAIN vram |-> IF vram[i].index # one.index THEN vram[i]
          ELSE [vram[i] EXCEPT !.used = Larger(@, one.used), !.occupied = Occupied(vram[i], one)]]

WithRam(ram, read) ==
  IF read = {} THEN ram
  ELSE LET now == CHOOSE n \in read : TRUE
       IN  {[least |-> Smaller(now, seen.least), most |-> Larger(now, seen.most)] :
              seen \in IF ram = {} THEN {[least |-> now, most |-> now]} ELSE ram}

Merged(memory, stats, during) ==
  LET all  == [place \in DOMAIN stats.devices |->
                 [reads |-> stats.devices[place].reads, device |-> DeviceRead(stats.devices[place], place)]]
      seen == SelectSeq(all, LAMBDA one : one.reads)
  IN  [vram |-> FoldLeft(LAMBDA vram, one : WithDevice(vram, one.device), memory.vram, seen),
       samples |-> memory.samples + IF during /\ seen # <<>> THEN 1 ELSE 0,
       ram |-> WithRam(memory.ram, {Mib(ram.total - ram.free) : ram \in stats.ram})]

Sampled(memory, read, during) ==
  IF read = {} THEN memory ELSE Merged(memory, CHOOSE stats \in read : TRUE, during)

(* _sample reads while the job draws, and _last_sample once when it is   *)
(* over, for the maxima alone.                                           *)
MemoryOf(reads, last) ==
  Sampled(FoldLeft(LAMBDA memory, read : Sampled(memory, read, TRUE), Nothing, reads), last, FALSE)

-----------------------------------------------------------------------------
(* The log's ring: its lines, each with whether it tells of a partial    *)
(* load.  A hash stands for its line, and tells lines apart.             *)
LogCursor(lines) == IF lines = <<>> THEN {} ELSE {Last(lines)}

PartialLoadsAfter(cursor, lines) ==
  Cardinality({i \in DOMAIN lines : lines[i].partial /\ \A j \in i..Len(lines) : lines[j] \notin cursor})

(* Of an experiment alone, whose read before the submit is {} if it failed, *)
(* as is the read after it; {} if there is no number.                       *)
PartialLoads(cls, before, after) ==
  IF cls # "internal" THEN {}
  ELSE {PartialLoadsAfter(LogCursor(b), a) : b \in before, a \in after}
=============================================================================
