-------------------------------- MODULE Proc --------------------------------
(***************************************************************************)
(* Process creation in the kernel of lab4 (proc.c): do_fork, and get_pid   *)
(* step by step with its two static variables.  get_pid runs with          *)
(* interrupts off, so nothing else moves while it scans the list.          *)
(***************************************************************************)
EXTENDS Integers, Sequences, Functions

CONSTANTS
  MAX_PID,       \* pids are below this
  MAX_PROCESS,   \* most processes at a time, idle included
  Buckets,       \* buckets of the pid hash
  Hash,          \* pid_hashfn
  CopyMmFails,   \* whether copy_mm may fail (lab4's does nothing and returns 0)
  Reclaims       \* whether a process may leave the list (do_exit of lab4 panics)

\* the static_assert of get_pid, and room for one process besides idle
ASSUME ProcAssumption ==
  /\ MAX_PID \in Nat /\ MAX_PROCESS \in Nat
  /\ MAX_PID > MAX_PROCESS /\ MAX_PROCESS > 1
  /\ Hash \in [1 .. MAX_PID - 1 -> Buckets]
  /\ CopyMmFails \in BOOLEAN /\ Reclaims \in BOOLEAN

E_NO_FREE_PROC == 5
E_NO_MEM == 4

VARIABLES
  proc_list,   \* the pids on the process list, head first (idle is not on it)
  hash_list,   \* for each bucket the pids chained there
  nr_process,
  last_pid,    \* get_pid's static variables
  next_safe,
  stage,          \* where do_fork is
  le,          \* get_pid's position in the list
  procs,       \* process structures allocated (idle's is not counted)
  stacks,      \* kernel stacks allocated (idle runs on bootstack)
  ret          \* what do_fork returned last

procvars == <<proc_list, hash_list, nr_process, last_pid, next_safe, stage, le, procs, stacks, ret>>

Pid == 1 .. MAX_PID - 1

ProcTypeOK ==
  /\ proc_list \in Seq(Pid)
  /\ hash_list \in [Buckets -> Seq(Pid)]
  /\ nr_process \in 1 .. MAX_PROCESS
  /\ last_pid \in 1 .. MAX_PID
  /\ next_safe \in 1 .. MAX_PID
  /\ stage \in {"ready", "alloc_proc", "setup_kstack", "copy_mm", "cleanup_kstack",
                "cleanup_proc", "get_pid", "scan", "link"}
  /\ le \in 1 .. Len(proc_list) + 1
  /\ procs \in Nat
  /\ stacks \in Nat
  /\ ret \in {0, -E_NO_FREE_PROC, -E_NO_MEM}

\* proc_init up to its kernel_thread call: idle is counted and not listed
ProcInit ==
  /\ proc_list = <<>>
  /\ hash_list = [b \in Buckets |-> <<>>]
  /\ nr_process = 1
  /\ last_pid = MAX_PID
  /\ next_safe = MAX_PID
  /\ stage = "ready"
  /\ le = 1
  /\ procs = 0
  /\ stacks = 0
  /\ ret = 0

(***************************************************************************)
(* do_fork up to get_pid: the limit, the three allocations, and the two    *)
(* labels that give back in the opposite order what was allocated.  ret is *)
(* set before the allocations and by nothing after them.                   *)
(***************************************************************************)
lists == <<proc_list, hash_list, nr_process, last_pid, next_safe, le>>

ForkRefused ==
  /\ stage = "ready"
  /\ nr_process >= MAX_PROCESS
  /\ ret' = -E_NO_FREE_PROC
  /\ UNCHANGED <<lists, stage, procs, stacks>>

ForkEnter ==
  /\ stage = "ready"
  /\ nr_process < MAX_PROCESS
  /\ ret' = -E_NO_MEM
  /\ stage' = "alloc_proc"
  /\ UNCHANGED <<lists, procs, stacks>>

alloc_proc ==
  /\ stage = "alloc_proc"
  /\ \/ stage' = "setup_kstack" /\ procs' = procs + 1
     \/ stage' = "ready" /\ UNCHANGED procs
  /\ UNCHANGED <<lists, stacks, ret>>

\* wrong: the failure goes to the first cleanup label, which frees a stack
setup_kstack_WrongLabel ==
  /\ stage = "setup_kstack"
  /\ \/ stage' = "copy_mm" /\ stacks' = stacks + 1
     \/ stage' = "cleanup_kstack" /\ UNCHANGED stacks
  /\ UNCHANGED <<lists, procs, ret>>

setup_kstack ==
  /\ stage = "setup_kstack"
  /\ \/ stage' = "copy_mm" /\ stacks' = stacks + 1
     \/ stage' = "cleanup_proc" /\ UNCHANGED stacks
  /\ UNCHANGED <<lists, procs, ret>>

copy_mm ==
  /\ stage = "copy_mm"
  /\ \/ stage' = "get_pid"
     \/ CopyMmFails /\ stage' = "cleanup_kstack"
  /\ UNCHANGED <<lists, procs, stacks, ret>>

bad_fork_cleanup_kstack ==
  /\ stage = "cleanup_kstack"
  /\ stacks' = stacks - 1
  /\ stage' = "cleanup_proc"
  /\ UNCHANGED <<lists, procs, ret>>

bad_fork_cleanup_proc ==
  /\ stage = "cleanup_proc"
  /\ procs' = procs - 1
  /\ stage' = "ready"
  /\ UNCHANGED <<lists, stacks, ret>>

(***************************************************************************)
(* get_pid.  Below next_safe the next pid is free without a look at the    *)
(* list; otherwise the list is scanned, from its start again whenever the  *)
(* candidate leaves the safe range.                                        *)
(***************************************************************************)
StartScan(candidate) ==
  /\ last_pid' = candidate
  /\ next_safe' = MAX_PID
  /\ le' = 1
  /\ stage' = "scan"

GetPidEnter ==
  /\ stage = "get_pid"
  /\ \/ /\ last_pid + 1 >= MAX_PID
        /\ StartScan(1)
     \/ /\ last_pid + 1 < MAX_PID
        /\ last_pid + 1 >= next_safe
        /\ StartScan(last_pid + 1)
     \/ /\ last_pid + 1 < MAX_PID
        /\ last_pid + 1 < next_safe
        /\ last_pid' = last_pid + 1
        /\ stage' = "link"
        /\ UNCHANGED <<next_safe, le>>
  /\ UNCHANGED <<proc_list, hash_list, nr_process, procs, stacks, ret>>

\* wrong: past the last pid the candidate is not set back to 1
ScanTakenNoWrap ==
  /\ stage = "scan"
  /\ le <= Len(proc_list)
  /\ proc_list[le] = last_pid
  /\ IF last_pid + 1 >= next_safe
     THEN StartScan(IF last_pid + 1 >= MAX_PID THEN last_pid ELSE last_pid + 1)
     ELSE /\ last_pid' = last_pid + 1
          /\ le' = le + 1
          /\ UNCHANGED <<next_safe, stage>>
  /\ UNCHANGED <<proc_list, hash_list, nr_process, procs, stacks, ret>>

\* the candidate is taken: try the next one, over again if it is not safe
ScanTaken ==
  /\ stage = "scan"
  /\ le <= Len(proc_list)
  /\ proc_list[le] = last_pid
  /\ IF last_pid + 1 >= next_safe
     THEN StartScan(IF last_pid + 1 >= MAX_PID THEN 1 ELSE last_pid + 1)
     ELSE /\ last_pid' = last_pid + 1
          /\ le' = le + 1
          /\ UNCHANGED <<next_safe, stage>>
  /\ UNCHANGED <<proc_list, hash_list, nr_process, procs, stacks, ret>>

\* wrong: the bound moves up as well as down
ScanOtherAny ==
  /\ stage = "scan"
  /\ le <= Len(proc_list)
  /\ proc_list[le] # last_pid
  /\ next_safe' = IF proc_list[le] > last_pid THEN proc_list[le] ELSE next_safe
  /\ le' = le + 1
  /\ UNCHANGED <<proc_list, hash_list, nr_process, last_pid, stage, procs, stacks, ret>>

\* another pid: it bounds the safe range if it is above the candidate
ScanOther ==
  /\ stage = "scan"
  /\ le <= Len(proc_list)
  /\ proc_list[le] # last_pid
  /\ next_safe' = IF proc_list[le] > last_pid /\ next_safe > proc_list[le]
                  THEN proc_list[le] ELSE next_safe
  /\ le' = le + 1
  /\ UNCHANGED <<proc_list, hash_list, nr_process, last_pid, stage, procs, stacks, ret>>

ScanEnd ==
  /\ stage = "scan"
  /\ le > Len(proc_list)
  /\ stage' = "link"
  /\ UNCHANGED <<proc_list, hash_list, nr_process, last_pid, next_safe, le, procs, stacks, ret>>

\* wrong: the process is hashed before it has its pid
ForkLinkHashedEarly ==
  /\ stage = "link"
  /\ LET b == CHOOSE b \in Buckets : TRUE
     IN  hash_list' = [hash_list EXCEPT ![b] = <<last_pid>> \o @]
  /\ proc_list' = <<last_pid>> \o proc_list
  /\ nr_process' = nr_process + 1
  /\ stage' = "ready"
  /\ le' = 1
  /\ UNCHANGED <<last_pid, next_safe, procs, stacks, ret>>

\* hash_proc and list_add put the process at the head of both lists, and do_fork
\* returns ret as it stands
ForkLink ==
  /\ stage = "link"
  /\ hash_list' = [hash_list EXCEPT ![Hash[last_pid]] = <<last_pid>> \o @]
  /\ proc_list' = <<last_pid>> \o proc_list
  /\ nr_process' = nr_process + 1
  /\ stage' = "ready"
  /\ le' = 1
  /\ UNCHANGED <<last_pid, next_safe, procs, stacks, ret>>

\* the reclaiming of a finished process, which proc.c announces in its header
Without(s, i) == [k \in 1 .. Len(s) - 1 |-> IF k < i THEN s[k] ELSE s[k + 1]]

Reclaim(i) ==
  /\ Reclaims
  /\ stage = "ready"
  /\ proc_list' = Without(proc_list, i)
  /\ hash_list' = [hash_list EXCEPT ![Hash[proc_list[i]]] =
                     LET k == CHOOSE k \in DOMAIN @ : @[k] = proc_list[i] IN Without(@, k)]
  /\ nr_process' = nr_process - 1
  /\ procs' = procs - 1
  /\ stacks' = stacks - 1
  /\ le' = 1
  /\ UNCHANGED <<last_pid, next_safe, stage, ret>>

GetPid == GetPidEnter \/ ScanTaken \/ ScanOther \/ ScanEnd

ProcNext ==
  \/ ForkRefused \/ ForkEnter
  \/ alloc_proc \/ setup_kstack \/ copy_mm
  \/ bad_fork_cleanup_kstack \/ bad_fork_cleanup_proc
  \/ GetPid
  \/ ForkLink
  \/ \E i \in 1 .. Len(proc_list) : Reclaim(i)

ProcSpec == ProcInit /\ [][ProcNext]_procvars

\* the kernel executes get_pid without interruption
ProcFairSpec == ProcSpec /\ WF_procvars(GetPid)

-----------------------------------------------------------------------------
(***************************************************************************)
(* Properties.                                                             *)
(***************************************************************************)

\* get_pid's comment: a unique pid.  No two processes of the list share one.
UniquePids == \A i, j \in 1 .. Len(proc_list) : proc_list[i] = proc_list[j] => i = j

\* The pid get_pid returns is on no process.
FreshPid == stage = "link" => last_pid \in Pid /\ \A i \in 1 .. Len(proc_list) : proc_list[i] # last_pid

\* find_proc walks one bucket; it finds every process of the list and no other.
find_proc(pid) == pid \in Pid /\ pid \in Range(hash_list[Hash[pid]])
HashMatchesList == \A pid \in Pid : find_proc(pid) <=> pid \in Range(proc_list)

\* do_fork's accounts: nr_process counts idle and the list, so its limit is the
\* limit of the list; between forks each listed process has one structure and one
\* kernel stack, and forks that failed, at whatever step, have left neither.
ForkAccounts ==
  /\ ProcTypeOK
  /\ nr_process = Len(proc_list) + 1
  /\ stage = "ready" => procs = Len(proc_list) /\ stacks = Len(proc_list)

\* What the comment of do_fork announces as its last step, and proc_init tests
\* (it panics when the pid of init_main is not above 0): a fork that has put a
\* process on the list returns its pid.
ForkReturnsPid == [][Len(proc_list') > Len(proc_list) => ret' = proc_list'[1]]_procvars

\* get_pid terminates: with fewer processes than pids the scan finds a gap,
\* however often it starts over.
GetPidTerminates == (stage = "scan") ~> (stage = "link")

(***************************************************************************)
(* Why the scan may stop and why the next call may skip it: between calls  *)
(* every listed pid above last_pid is at or above next_safe, and during a  *)
(* scan the same holds of the part already seen, which misses the          *)
(* candidate.                                                              *)
(***************************************************************************)
Seen == IF stage = "scan" THEN le - 1 ELSE Len(proc_list)

SafeRange == \A i \in 1 .. Seen : proc_list[i] > last_pid => proc_list[i] >= next_safe

CandidateFree == stage = "scan" => \A i \in 1 .. Seen : proc_list[i] # last_pid

CandidateInRange ==
  stage \in {"scan", "link"} => last_pid \in Pid /\ (last_pid < next_safe)

PidInv == /\ ProcTypeOK
          /\ UniquePids
          /\ FreshPid
          /\ SafeRange
          /\ CandidateFree
          /\ CandidateInRange
=============================================================================
