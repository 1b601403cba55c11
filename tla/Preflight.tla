----------------------------- MODULE Preflight -----------------------------
(***************************************************************************)
(* What the container has, against what the manifest asks of it            *)
(* (src/simple_serving/preflight.py): the preparation's check, the         *)
(* launcher's own before it starts the pair, the largest copy of the KV    *)
(* cache that fits, and what an offer must have for one.                   *)
(*                                                                         *)
(* A number that cannot be read is {}, else the set of that number.  The   *)
(* codes of a refusal are a set.  Sizes are in MiB, or in bytes where the  *)
(* code reads bytes.                                                       *)
(***************************************************************************)
EXTENDS Integers, SequencesExt

CONSTANTS
  MIB,          \* bytes: 2^20
  GB,           \* bytes of the decimal gigabyte in which Vast counts RAM: 10^9
  NO_LIMIT      \* bytes from which a cgroup limit is none: 2^60

ASSUME PreflightAssumption == MIB \in Nat \ {0} /\ GB \in Nat \ {0} /\ NO_LIMIT \in Nat

GIB == 1024 * MIB

SHM_MARGIN_MIB == 512
ENGINE_RESERVE_MIB == 12 * 1024

(* Rounded up, as math.ceil of a quotient.                               *)
CeilDiv(n, d) == (n + d - 1) \div d

AtLeastKnown(found, need) == \E n \in found : n >= need

Least(numbers) == CHOOSE n \in numbers : \A k \in numbers : n <= k

OrZero(n) == IF n < 0 THEN 0 ELSE n

-----------------------------------------------------------------------------
(* The machine's RAM, and the limit in the first file that can be read of  *)
(* cgroup v2's and v1's, each [read, number]; a file may hold no number.   *)
memory_limit_mib(total, v2, v1) ==
  LET file == IF v2.read THEN v2 ELSE v1
      limit == IF file.read THEN {n \in file.number : n < NO_LIMIT} ELSE {}
      known == total \cup limit
  IN IF known = {} THEN {} ELSE {Least(known) \div MIB}

offload_reasons(gib, shm, memory, expandable) ==
  {code \in {"shm_too_small", "memory_too_small", "expandable_segments"} :
     /\ gib # 0
     /\ code = "shm_too_small" => ~AtLeastKnown(shm, gib * 1024 + SHM_MARGIN_MIB)
     /\ code = "memory_too_small" => ~AtLeastKnown(memory, gib * 1024 + ENGINE_RESERVE_MIB)
     /\ code = "expandable_segments" => expandable}

(* The largest copy that passes offload_reasons, or 0.                   *)
largest_offload_gib(shm, memory) ==
  LET room == {n - SHM_MARGIN_MIB : n \in shm} \cup {n - ENGINE_RESERVE_MIB : n \in memory}
  IN IF shm = {} \/ memory = {} THEN 0 ELSE OrZero(Least(room) \div 1024)

offer_needs(gib) ==
  LET memory == gib * 1024 + ENGINE_RESERVE_MIB
  IN [offload_gib |-> gib, min_memory_mib |-> memory,
      min_ram_gb |-> CeilDiv(memory * MIB, GB), min_shm_mib |-> gib * 1024 + SHM_MARGIN_MIB]

(* Each session's whole prompt as it is written.                         *)
copy_gib(sessions, prompt_tokens, kib_per_token) ==
  CeilDiv(sessions * prompt_tokens * kib_per_token, 1024 * 1024)

(* found is the card's first GPU, if it can be asked.                    *)
gpu_reasons(found, min_compute_cap, min_gpu_mib) ==
  IF found = {} THEN {"gpu_unknown"}
  ELSE {code \in {"gpu_compute_cap_too_low", "gpu_memory_too_small"} : \E gpu \in found :
          IF code = "gpu_memory_too_small" THEN gpu.mib < min_gpu_mib
          ELSE gpu.compute_cap < min_compute_cap}

(* A file that is still to be fetched has a size, and what there is of it *)
(* in place, whole or in part.                                            *)
Lacking(file) == OrZero(Least({file.size - held : held \in {0} \cup file.whole \cup file.part}))

missing_bytes(files) == FoldLeft(LAMBDA need, file : need + Lacking(file), 0, files)

(* The free bytes of the first of a path and its parents that has any.   *)
disk_free(candidates) ==
  LET known == SelectSeq(candidates, LAMBDA free : free # {})
  IN IF known = <<>> THEN {} ELSE Head(known)

-----------------------------------------------------------------------------
(* measured: the numbers of a container c.                               *)
measured(c) == [shm |-> c.shm, memory |-> memory_limit_mib(c.total, c.v2, c.v1)]

(* The launcher's question.                                              *)
offload_unfit(gib, c) == offload_reasons(gib, measured(c).shm, measured(c).memory, c.expandable)

(* check: the GPU is asked for only where the manifest names one, and the *)
(* disk where there are files to fetch, a GiB over for venvs and logs.    *)
check(asked, c) ==
  offload_unfit(asked.offload_gib, c)
  \cup UNION {gpu_reasons(c.gpu, min.compute_cap, min.mib) : min \in asked.gpu}
  \cup {code \in {"disk_too_small"} :
          /\ asked.files # <<>>
          /\ ~AtLeastKnown(disk_free(c.disks), missing_bytes(asked.files) + GIB)}

(* plan: a size, or the sessions and their prompts that it is worked out of. *)
PlanAccepted(a) ==
  /\ a.offload_gib >= 0
  /\ (a.sessions = {}) = (a.prompt_tokens = {})
  /\ a.sessions # {} => /\ a.offload_gib = 0 /\ a.kib_per_token >= 1
                        /\ \A n \in a.sessions \cup a.prompt_tokens : n >= 1

plan(a) ==
  IF a.sessions = {} THEN offer_needs(a.offload_gib)
  ELSE offer_needs(CHOOSE gib \in {copy_gib(s, t, a.kib_per_token) :
                                     s \in a.sessions, t \in a.prompt_tokens} : TRUE)
=============================================================================
