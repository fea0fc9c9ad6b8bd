--------------------------- MODULE ProcessProofs ----------------------------
(***************************************************************************)
(* Processes, and the tracing of one. get_pid returns a pid no process has, *)
(* for every MAX_PID, every limit on the number of processes and every      *)
(* sequence of forks and reclaims. The tracer reports every call but those  *)
(* of shadowed functions, for every text, word size and number of           *)
(* functions. The search of the debug information brackets every address,   *)
(* for every table.                                                         *)
(***************************************************************************)
EXTENDS Proc, Tracer, Kdebug, NatLemmas, SequenceTheorems, FiniteSetTheorems


USE DEF Pid

\* The part of the type invariant the argument about pids needs.
PidTypeOK ==
  /\ proc_list \in Seq(Pid)
  /\ last_pid \in 1 .. MAX_PID
  /\ next_safe \in 1 .. MAX_PID
  /\ stage \in {"ready", "alloc_proc", "setup_kstack", "copy_mm", "cleanup_kstack",
                "cleanup_proc", "get_pid", "scan", "link"}
  /\ le \in 1 .. Len(proc_list) + 1

IInv == /\ PidTypeOK
        /\ UniquePids
        /\ FreshPid
        /\ SafeRange
        /\ CandidateFree
        /\ CandidateInRange

\* The length of the list and its elements are numbers.
LEMMA ListFacts ==
  ASSUME PidTypeOK
  PROVE  /\ Len(proc_list) \in Nat
         /\ \A i \in 1 .. Len(proc_list) : proc_list[i] \in Pid /\ proc_list[i] \in Nat
         /\ MAX_PID \in Nat
<1>1. \A i \in 1 .. Len(proc_list) : proc_list[i] \in Pid
  BY ElementOfSeq DEF PidTypeOK
<1> QED BY <1>1, LenProperties, ProcAssumption DEF PidTypeOK

LEMMA InitIInv == ProcInit => IInv
<1> SUFFICES ASSUME ProcInit PROVE IInv
  OBVIOUS
<1>1. proc_list \in Seq(Pid) /\ Len(proc_list) = 0
  BY EmptySeq DEF ProcInit
<1> QED BY <1>1, ProcAssumption
        DEF ProcInit, IInv, PidTypeOK, UniquePids, FreshPid, SafeRange, CandidateFree,
            CandidateInRange, Seen

\* A scan that starts over has seen nothing yet.
LEMMA StartScanIInv ==
  ASSUME IInv, NEW c \in Pid, StartScan(c), proc_list' = proc_list
  PROVE  IInv'
<1>1. Len(proc_list) \in Nat /\ MAX_PID \in Nat
  BY ListFacts DEF IInv
<1>2. /\ last_pid' = c /\ next_safe' = MAX_PID /\ le' = 1 /\ stage' = "scan"
      /\ Seen' = 0
  BY DEF StartScan, Seen
<1>3. PidTypeOK'
  BY <1>1, <1>2 DEF IInv, PidTypeOK
<1> QED BY <1>1, <1>2, <1>3
        DEF IInv, UniquePids, FreshPid, SafeRange, CandidateFree, CandidateInRange

LEMMA EnterIInv == IInv /\ GetPidEnter => IInv'
<1> SUFFICES ASSUME IInv, GetPidEnter PROVE IInv'
  OBVIOUS
<1>1. /\ Len(proc_list) \in Nat
      /\ \A i \in 1 .. Len(proc_list) : proc_list[i] \in Nat
      /\ MAX_PID \in Nat /\ last_pid \in Nat /\ next_safe \in 1 .. MAX_PID
  BY ListFacts DEF IInv, PidTypeOK
<1>2. stage = "get_pid" /\ proc_list' = proc_list
  BY DEF GetPidEnter
<1>3. CASE last_pid + 1 >= MAX_PID /\ StartScan(1)
  BY <1>2, <1>3, StartScanIInv, ProcAssumption
<1>4. CASE last_pid + 1 < MAX_PID /\ StartScan(last_pid + 1)
  <2>1. last_pid + 1 \in Pid
    BY <1>1, <1>4
  <2> QED BY <1>2, <1>4, <2>1, StartScanIInv
<1>5. CASE /\ last_pid + 1 < MAX_PID /\ last_pid + 1 < next_safe
           /\ last_pid' = last_pid + 1 /\ stage' = "link" /\ UNCHANGED <<next_safe, le>>
  <2>1. Seen = Len(proc_list) /\ Seen' = Len(proc_list)
    BY <1>2, <1>5 DEF Seen
  <2>2. \A i \in 1 .. Len(proc_list) : proc_list[i] # last_pid + 1
    BY <1>1, <1>5, <2>1 DEF IInv, SafeRange
  <2>3. SafeRange'
    <3> SUFFICES ASSUME NEW i \in 1 .. Len(proc_list), proc_list[i] > last_pid + 1
                 PROVE  proc_list[i] >= next_safe
      BY <1>2, <1>5, <2>1 DEF SafeRange
    <3>1. proc_list[i] > last_pid
      BY <1>1
    <3> QED BY <2>1, <3>1 DEF IInv, SafeRange
  <2>4. PidTypeOK'
    BY <1>1, <1>2, <1>5 DEF IInv, PidTypeOK
  <2>5. FreshPid' /\ CandidateInRange' /\ CandidateFree'
    BY <1>1, <1>2, <1>5, <2>2 DEF FreshPid, CandidateInRange, CandidateFree
  <2>6. UniquePids'
    BY <1>2 DEF IInv, UniquePids
  <2> QED BY <2>3, <2>4, <2>5, <2>6 DEF IInv
<1> QED BY <1>3, <1>4, <1>5 DEF GetPidEnter

LEMMA TakenIInv == IInv /\ ScanTaken => IInv'
<1> SUFFICES ASSUME IInv, ScanTaken PROVE IInv'
  OBVIOUS
<1>1. /\ Len(proc_list) \in Nat
      /\ \A i \in 1 .. Len(proc_list) : proc_list[i] \in Nat
      /\ MAX_PID \in Nat /\ last_pid \in Pid /\ next_safe \in 1 .. MAX_PID
      /\ le \in 1 .. Len(proc_list)
  BY ListFacts DEF IInv, PidTypeOK, ScanTaken, CandidateInRange
<1>2. stage = "scan" /\ proc_list' = proc_list /\ proc_list[le] = last_pid /\ Seen = le - 1
  BY DEF ScanTaken, Seen
<1>3. CASE last_pid + 1 >= next_safe
  <2> DEFINE c == IF last_pid + 1 >= MAX_PID THEN 1 ELSE last_pid + 1
  <2>1. c \in Pid /\ StartScan(c)
    BY <1>1, <1>3, ProcAssumption DEF ScanTaken
  <2> HIDE DEF c
  <2> QED BY <1>2, <2>1, StartScanIInv
<1>4. CASE last_pid + 1 < next_safe
  <2>1. last_pid' = last_pid + 1 /\ le' = le + 1 /\ next_safe' = next_safe /\ stage' = stage
    BY <1>1, <1>4 DEF ScanTaken
  <2>2. Seen' = le
    BY <1>1, <1>2, <2>1 DEF Seen
  <2>3. \A i \in 1 .. le : proc_list[i] > last_pid => proc_list[i] >= next_safe
    BY <1>1, <1>2 DEF IInv, SafeRange
  <2>4. SafeRange'
    BY <1>1, <1>2, <2>1, <2>2, <2>3 DEF SafeRange
  <2>5. CandidateFree'
    BY <1>1, <1>2, <1>4, <2>1, <2>2, <2>3 DEF CandidateFree
  <2>6. PidTypeOK' /\ CandidateInRange' /\ FreshPid' /\ UniquePids'
    BY <1>1, <1>2, <1>4, <2>1
       DEF IInv, PidTypeOK, CandidateInRange, FreshPid, UniquePids
  <2> QED BY <2>4, <2>5, <2>6 DEF IInv
<1> QED BY <1>1, <1>3, <1>4

LEMMA OtherIInv == IInv /\ ScanOther => IInv'
<1> SUFFICES ASSUME IInv, ScanOther PROVE IInv'
  OBVIOUS
<1>1. /\ Len(proc_list) \in Nat
      /\ \A i \in 1 .. Len(proc_list) : proc_list[i] \in Pid
      /\ MAX_PID \in Nat /\ last_pid \in Pid /\ next_safe \in 1 .. MAX_PID
      /\ le \in 1 .. Len(proc_list) /\ last_pid < next_safe
  BY ListFacts DEF IInv, PidTypeOK, ScanOther, CandidateInRange
<1>2. /\ stage = "scan" /\ proc_list' = proc_list /\ proc_list[le] # last_pid
      /\ last_pid' = last_pid /\ stage' = stage /\ le' = le + 1
      /\ Seen = le - 1 /\ Seen' = le
  BY <1>1 DEF ScanOther, Seen
<1>3. /\ next_safe' \in 1 .. MAX_PID /\ next_safe' <= next_safe /\ last_pid < next_safe'
      /\ proc_list[le] > last_pid => next_safe' <= proc_list[le]
  BY <1>1 DEF ScanOther
<1>4. SafeRange'
  <2> SUFFICES ASSUME NEW i \in 1 .. le, proc_list[i] > last_pid
               PROVE  proc_list[i] >= next_safe'
    BY <1>2 DEF SafeRange
  <2>1. CASE i = le
    BY <1>1, <1>3, <2>1
  <2>2. CASE i # le
    BY <1>1, <1>2, <1>3, <2>2 DEF IInv, SafeRange
  <2> QED BY <2>1, <2>2
<1>5. CandidateFree'
  BY <1>1, <1>2 DEF IInv, CandidateFree
<1>6. PidTypeOK' /\ CandidateInRange' /\ FreshPid' /\ UniquePids'
  BY <1>1, <1>2, <1>3 DEF IInv, PidTypeOK, CandidateInRange, FreshPid, UniquePids
<1> QED BY <1>4, <1>5, <1>6 DEF IInv

LEMMA EndIInv == IInv /\ ScanEnd => IInv'
<1> SUFFICES ASSUME IInv, ScanEnd PROVE IInv'
  OBVIOUS
<1>1. Len(proc_list) \in Nat
  BY ListFacts DEF IInv
<1>2. /\ stage = "scan" /\ stage' = "link"
      /\ proc_list' = proc_list /\ last_pid' = last_pid
      /\ next_safe' = next_safe /\ le' = le
  BY DEF ScanEnd
<1>3. le = Len(proc_list) + 1
  BY <1>1 DEF IInv, PidTypeOK, ScanEnd
<1>4. Seen = Len(proc_list) /\ Seen' = Len(proc_list)
  BY <1>1, <1>2, <1>3 DEF Seen
<1> QED BY <1>1, <1>2, <1>4 DEF IInv, PidTypeOK, UniquePids, FreshPid, SafeRange, CandidateFree,
                    CandidateInRange

\* The new pid goes to the head of the list, whose other members are not it.
LEMMA LinkIInv == IInv /\ ForkLink => IInv'
<1> SUFFICES ASSUME IInv, ForkLink PROVE IInv'
  OBVIOUS
<1> DEFINE n == Len(proc_list)
<1>1. /\ n \in Nat /\ \A i \in 1 .. n : proc_list[i] \in Pid
      /\ MAX_PID \in Nat /\ last_pid \in Pid /\ proc_list \in Seq(Pid)
      /\ stage = "link" /\ stage' = "ready" /\ le' = 1
      /\ last_pid' = last_pid /\ next_safe' = next_safe
  BY ListFacts DEF IInv, PidTypeOK, ForkLink, CandidateInRange
<1>2. /\ proc_list' \in Seq(Pid) /\ Len(proc_list') = n + 1
      /\ proc_list'[1] = last_pid
      /\ \A i \in 2 .. n + 1 : proc_list'[i] = proc_list[i - 1]
  <2>1. /\ <<last_pid>> \in Seq(Pid) /\ Len(<<last_pid>>) = 1
        /\ proc_list' = <<last_pid>> \o proc_list
    BY <1>1 DEF ForkLink
  <2> QED BY <1>1, <2>1, ConcatProperties
<1>3. Seen = n /\ Seen' = n + 1
  BY <1>1, <1>2 DEF Seen
<1>4. \A i \in 1 .. n : proc_list[i] # last_pid
  BY <1>1 DEF IInv, FreshPid
<1>5. PidTypeOK'
  BY <1>1, <1>2 DEF IInv, PidTypeOK
<1>6. UniquePids'
  <2> SUFFICES ASSUME NEW i \in 1 .. n + 1, NEW j \in 1 .. n + 1,
                      proc_list'[i] = proc_list'[j]
               PROVE  i = j
    BY <1>2 DEF UniquePids
  <2>1. \A k \in 1 .. n + 1 : k = 1 \/ proc_list'[k] # last_pid
    <3> SUFFICES ASSUME NEW k \in 1 .. n + 1, k # 1 PROVE proc_list'[k] # last_pid
      OBVIOUS
    <3>1. k \in 2 .. n + 1 /\ k - 1 \in 1 .. n
      BY <1>1
    <3> QED BY <1>2, <1>4, <3>1
  <2>2. CASE i = 1 \/ j = 1
    BY <1>2, <2>1, <2>2
  <2>3. CASE i # 1 /\ j # 1
    <3>1. i - 1 \in 1 .. n /\ j - 1 \in 1 .. n /\ i \in 2 .. n + 1 /\ j \in 2 .. n + 1
      BY <1>1, <2>3
    <3>2. proc_list[i - 1] = proc_list[j - 1]
      BY <1>2, <3>1
    <3>3. \A k, m \in 1 .. n : proc_list[k] = proc_list[m] => k = m
      BY DEF IInv, UniquePids
    <3>4. i - 1 = j - 1
      BY <3>1, <3>2, <3>3
    <3>5. i \in Int /\ j \in Int
      BY <1>1
    <3> HIDE DEF n
    <3> QED BY <3>4, <3>5
  <2> QED BY <2>2, <2>3
<1>7. SafeRange'
  <2> SUFFICES ASSUME NEW i \in 1 .. n + 1, proc_list'[i] > last_pid
               PROVE  proc_list'[i] >= next_safe
    BY <1>1, <1>3 DEF SafeRange
  <2>1. i # 1
    BY <1>1, <1>2
  <2>2. i - 1 \in 1 .. n /\ proc_list'[i] = proc_list[i - 1]
    BY <1>1, <1>2, <2>1
  <2> QED BY <1>3, <2>2 DEF IInv, SafeRange
<1>8. FreshPid' /\ CandidateFree' /\ CandidateInRange'
  BY <1>1 DEF FreshPid, CandidateFree, CandidateInRange
<1> QED BY <1>5, <1>6, <1>7, <1>8 DEF IInv

\* Whoever leaves, the others keep their pids and their order.
LEMMA ReclaimIInv ==
  ASSUME IInv, NEW r \in 1 .. Len(proc_list), Reclaim(r)
  PROVE  IInv'
<1> DEFINE n == Len(proc_list)
<1>1. /\ n \in Nat /\ n >= 1 /\ r \in 1 .. n /\ \A i \in 1 .. n : proc_list[i] \in Pid
      /\ MAX_PID \in Nat /\ last_pid \in 1 .. MAX_PID
      /\ stage = "ready" /\ stage' = stage /\ le' = 1
      /\ last_pid' = last_pid /\ next_safe' = next_safe
      /\ proc_list' = Without(proc_list, r)
  BY ListFacts DEF IInv, PidTypeOK, Reclaim
<1> DEFINE src(i) == IF i < r THEN i ELSE i + 1
<1>2. \A i \in 1 .. n - 1 : src(i) \in 1 .. n /\ proc_list'[i] = proc_list[src(i)]
  BY <1>1 DEF Without
<1>3. proc_list' \in Seq(Pid) /\ Len(proc_list') = n - 1
  <2>1. n - 1 \in Nat
    BY <1>1
  <2>2. proc_list' = [k \in 1 .. n - 1 |-> IF k < r THEN proc_list[k] ELSE proc_list[k + 1]]
    BY <1>1 DEF Without
  <2>3. \A i \in 1 .. n - 1 : proc_list'[i] \in Pid
    BY <1>1, <1>2
  <2>4. proc_list' \in [1 .. n - 1 -> Pid]
    BY <2>2, <2>3
  <2>5. proc_list' \in Seq(Pid)
    BY <2>1, <2>4, SeqDef
  <2>6. DOMAIN proc_list' = 1 .. n - 1 /\ DOMAIN proc_list' = 1 .. Len(proc_list')
    BY <2>4, <2>5, LenProperties
  <2> QED BY <2>1, <2>5, <2>6, LenProperties, LenProperties
<1>4. Seen = n /\ Seen' = n - 1
  BY <1>1, <1>3 DEF Seen
<1>5. PidTypeOK'
  BY <1>1, <1>3 DEF IInv, PidTypeOK
<1>6. UniquePids'
  <2> SUFFICES ASSUME NEW i \in 1 .. n - 1, NEW j \in 1 .. n - 1,
                      proc_list'[i] = proc_list'[j]
               PROVE  i = j
    BY <1>3 DEF UniquePids
  <2>1. src(i) = src(j)
    BY <1>2 DEF IInv, UniquePids
  <2> QED BY <1>1, <2>1
<1>7. SafeRange'
  BY <1>1, <1>2, <1>4 DEF IInv, SafeRange
<1>8. FreshPid' /\ CandidateFree' /\ CandidateInRange'
  BY <1>1 DEF FreshPid, CandidateFree, CandidateInRange
<1> QED BY <1>5, <1>6, <1>7, <1>8 DEF IInv

\* do_fork's steps up to get_pid, and those of its two labels.
ForkSteps == \/ ForkRefused \/ ForkEnter \/ alloc_proc \/ setup_kstack \/ copy_mm
             \/ bad_fork_cleanup_kstack \/ bad_fork_cleanup_proc

\* Outside get_pid and the list insertion only the counters and ret move.
LEMMA OtherStepsIInv ==
  ASSUME IInv, ForkSteps \/ UNCHANGED procvars
  PROVE  IInv'
<1>1. /\ UNCHANGED <<proc_list, last_pid, next_safe, le>>
      /\ \/ stage' = stage
         \/ /\ stage \notin {"scan", "link"}
            /\ stage' \in {"ready", "alloc_proc", "setup_kstack", "copy_mm", "cleanup_kstack",
                           "cleanup_proc", "get_pid"}
  BY DEF ForkSteps, ForkRefused, ForkEnter, alloc_proc, setup_kstack, copy_mm,
         bad_fork_cleanup_kstack, bad_fork_cleanup_proc, lists, procvars
<1>2. Seen' = Seen
  BY <1>1 DEF Seen
<1> QED BY <1>1, <1>2 DEF IInv, PidTypeOK, UniquePids, FreshPid, SafeRange, CandidateFree,
                          CandidateInRange

LEMMA SpecIInv == ProcSpec => []IInv
<1>1. IInv /\ [ProcNext]_procvars => IInv'
  BY EnterIInv, TakenIInv, OtherIInv, EndIInv, LinkIInv, ReclaimIInv, OtherStepsIInv
     DEF ProcNext, ForkSteps, GetPid
<1> QED BY InitIInv, <1>1, PTL DEF ProcSpec

\* No two processes of the list share a pid, whatever forks and reclaims came before.
THEOREM UniquePidsCorrect == ProcSpec => []UniquePids
<1>1. IInv => UniquePids
  BY DEF IInv
<1> QED BY SpecIInv, <1>1, PTL

\* get_pid returns a pid in range that no process of the list has, although it
\* skips the scan while it stays below next_safe.
THEOREM FreshPidCorrect == ProcSpec => []FreshPid
<1>1. IInv => FreshPid
  BY DEF IInv
<1> QED BY SpecIInv, <1>1, PTL
---------------------------------------------------------------------------
(* The two lists and the counters *)

Injective(s) == \A i, j \in 1 .. Len(s) : s[i] = s[j] => i = j

Push(e, s) == <<e>> \o s

\* An element that is not there yet, at the head.
LEMMA PushFacts ==
  ASSUME NEW S, NEW s \in Seq(S), NEW e \in S, e \notin Range(s), Injective(s)
  PROVE  /\ Push(e, s) \in Seq(S) /\ Len(Push(e, s)) = Len(s) + 1
         /\ Range(Push(e, s)) = Range(s) \cup {e}
         /\ Injective(Push(e, s))
<1> DEFINE n == Len(s)
           t == <<e>> \o s
<1>1. n \in Nat /\ DOMAIN s = 1 .. n
  BY LenProperties
<1>2. <<e>> \in Seq(S) /\ Len(<<e>>) = 1 /\ <<e>>[1] = e
  OBVIOUS
<1>3. /\ t \in Seq(S) /\ Len(t) = n + 1
      /\ t[1] = e /\ \A i \in 2 .. n + 1 : t[i] = s[i - 1]
  <2>1. /\ t \in Seq(S) /\ Len(t) = 1 + n
        /\ \A i \in 1 .. 1 + n : t[i] = IF i <= 1 THEN <<e>>[i] ELSE s[i - 1]
    BY <1>2, ConcatProperties
  <2> HIDE DEF t
  <2>2. t[1] = e
    BY <1>1, <1>2, <2>1
  <2>3. \A i \in 2 .. n + 1 : t[i] = s[i - 1]
    BY <1>1, <2>1
  <2> QED BY <1>1, <2>1, <2>2, <2>3
<1>4. DOMAIN t = 1 .. n + 1
  BY <1>3, LenProperties
<1> HIDE DEF t
<1>5. \A i \in 2 .. n + 1 : i - 1 \in 1 .. n
  BY <1>1
<1>6. \A i \in 1 .. n + 1 : i = 1 \/ i \in 2 .. n + 1
  BY <1>1
<1>7. Range(t) = Range(s) \cup {e}
  <2>1. ASSUME NEW x \in Range(t) PROVE x \in Range(s) \cup {e}
    BY <2>1, <1>1, <1>3, <1>4, <1>5, <1>6 DEF Range
  <2>2. ASSUME NEW i \in 1 .. n PROVE s[i] \in Range(t)
    <3>1. i + 1 \in 2 .. n + 1 /\ i + 1 \in 1 .. n + 1 /\ i + 1 - 1 = i
      BY <1>1
    <3>2. t[i + 1] = s[i]
      BY <3>1, <1>3
    <3> QED BY <3>1, <3>2, <1>4 DEF Range
  <2>3. e \in Range(t)
    BY <1>1, <1>3, <1>4 DEF Range
  <2> QED BY <2>1, <2>2, <2>3, <1>1 DEF Range
<1>8. Injective(t)
  <2> SUFFICES ASSUME NEW i \in 1 .. n + 1, NEW j \in 1 .. n + 1, t[i] = t[j] PROVE i = j
    BY <1>3 DEF Injective
  <2>1. \A k \in 2 .. n + 1 : t[k] # e
    BY <1>1, <1>3, <1>5 DEF Range
  <2>2. CASE i = 1 \/ j = 1
    BY <1>3, <1>6, <2>1, <2>2
  <2>3. CASE i # 1 /\ j # 1
    <3>1. i \in 2 .. n + 1 /\ j \in 2 .. n + 1
      BY <1>6, <2>3
    <3>2. i - 1 = j - 1
      BY <3>1, <1>3, <1>5 DEF Injective
    <3> QED BY <3>1, <3>2
  <2> QED BY <2>2, <2>3
<1> QED BY <1>3, <1>7, <1>8 DEF t, Push

\* A list without one of its elements, when no element is there twice.
LEMMA WithoutFacts ==
  ASSUME NEW S, NEW s \in Seq(S), NEW k \in 1 .. Len(s), Injective(s)
  PROVE  /\ Without(s, k) \in Seq(S) /\ Len(Without(s, k)) = Len(s) - 1
         /\ Range(Without(s, k)) = Range(s) \ {s[k]}
         /\ Injective(Without(s, k))
<1> DEFINE n == Len(s)
           t == Without(s, k)
           src(i) == IF i < k THEN i ELSE i + 1
<1>1. /\ n \in Nat /\ n - 1 \in Nat /\ k \in 1 .. n /\ DOMAIN s = 1 .. n
      /\ \A i \in 1 .. n : s[i] \in S
  BY LenProperties, ElementOfSeq
<1>2. \A i \in 1 .. n - 1 : src(i) \in 1 .. n /\ src(i) # k
  BY <1>1
<1>3. t = [i \in 1 .. n - 1 |-> s[src(i)]]
  BY DEF Without
<1>4. t \in [1 .. n - 1 -> S]
  BY <1>1, <1>2, <1>3
<1>5. t \in Seq(S)
  BY <1>1, <1>4, SeqDef
<1>6. DOMAIN t = 1 .. n - 1 /\ Len(t) = n - 1
  <2> HIDE DEF t, src
  <2>1. DOMAIN t = 1 .. n - 1
    BY <1>4
  <2>2. DOMAIN t = 1 .. Len(t) /\ Len(t) \in Nat
    BY <1>5, LenProperties
  <2> HIDE DEF n
  <2>3. \A x \in Nat : x \in 1 .. Len(t) <=> x \in 1 .. n - 1
    BY <2>1, <2>2
  <2> QED BY <1>1, <2>1, <2>2, <2>3
<1>7. \A i, j \in 1 .. n - 1 : src(i) = src(j) => i = j
  BY <1>1
<1>8. \A i \in 1 .. n : i # k => \E j \in 1 .. n - 1 : src(j) = i
  <2> SUFFICES ASSUME NEW i \in 1 .. n, i # k PROVE \E j \in 1 .. n - 1 : src(j) = i
    OBVIOUS
  <2>1. CASE i < k
    <3>1. i \in 1 .. n - 1 /\ src(i) = i
      BY <1>1, <2>1
    <3> QED BY <3>1
  <2>2. CASE k < i
    <3>1. i - 1 \in 1 .. n - 1 /\ src(i - 1) = i
      BY <1>1, <2>2
    <3> QED BY <3>1
  <2> QED BY <1>1, <2>1, <2>2
<1> HIDE DEF src, t
<1>9. \A i \in 1 .. n - 1 : t[i] = s[src(i)]
  BY <1>3
<1>10. Injective(t)
  <2> SUFFICES ASSUME NEW i \in 1 .. n - 1, NEW j \in 1 .. n - 1, t[i] = t[j] PROVE i = j
    BY <1>6 DEF Injective
  <2>1. src(i) = src(j)
    BY <1>2, <1>9 DEF Injective
  <2> QED BY <2>1, <1>7
<1>11. Range(t) = Range(s) \ {s[k]}
  <2>1. ASSUME NEW x \in Range(t) PROVE x \in Range(s) \ {s[k]}
    <3>1. PICK i \in 1 .. n - 1 : x = s[src(i)]
      BY <1>6, <1>9 DEF Range
    <3>2. src(i) \in 1 .. n /\ src(i) # k
      BY <1>2
    <3> QED BY <3>1, <3>2, <1>1 DEF Range, Injective
  <2>2. ASSUME NEW x \in Range(s) \ {s[k]} PROVE x \in Range(t)
    <3>1. PICK i \in 1 .. n : x = s[i] /\ i # k
      BY <1>1 DEF Range
    <3>2. PICK j \in 1 .. n - 1 : src(j) = i
      BY <3>1, <1>8
    <3> QED BY <3>1, <3>2, <1>6, <1>9 DEF Range
  <2> QED BY <2>1, <2>2
<1> QED BY <1>5, <1>6, <1>10, <1>11 DEF t

\* What a fork under way has allocated, and not yet put on the list or given back.
ForkInHand ==
  /\ procs = Len(proc_list) + (IF stage \in {"ready", "alloc_proc"} THEN 0 ELSE 1)
  /\ stacks = Len(proc_list) + (IF stage \in {"copy_mm", "cleanup_kstack", "get_pid", "scan", "link"}
                                THEN 1 ELSE 0)

\* No bucket holds a pid twice, and the room do_fork saw is still there when it
\* links the process.
HashInv ==
  /\ IInv /\ ProcTypeOK
  /\ HashMatchesList
  /\ \A b \in Buckets : Injective(hash_list[b])
  /\ nr_process = Len(proc_list) + 1
  /\ ForkInHand
  /\ stage # "ready" => nr_process < MAX_PROCESS

LEMMA InitHashInv == ProcInit => HashInv
<1> SUFFICES ASSUME ProcInit PROVE HashInv
  OBVIOUS
<1>1. <<>> \in Seq(Pid) /\ Len(<<>>) = 0 /\ Range(<<>>) = {}
  BY EmptySeq DEF Range
<1>2. hash_list \in [Buckets -> Seq(Pid)] /\ \A b \in Buckets : hash_list[b] = <<>>
  BY <1>1 DEF ProcInit
<1>3. ProcTypeOK
  BY <1>1, <1>2, ProcAssumption DEF ProcInit, ProcTypeOK
<1>4. \A b \in Buckets : Injective(hash_list[b])
  BY <1>1, <1>2 DEF Injective
<1>5. HashMatchesList
  BY <1>1, <1>2, ProcAssumption DEF ProcInit, HashMatchesList, find_proc
<1> QED BY <1>1, <1>3, <1>4, <1>5, InitIInv, ProcAssumption DEF ProcInit, HashInv, ForkInHand

\* The pid is on neither list, so it goes to the head of one bucket and the list.
LEMMA LinkHashInv == ASSUME HashInv, ForkLink, IInv' PROVE HashInv'
<1> DEFINE b == Hash[last_pid]
           new == Push(last_pid, hash_list[b])
<1>1. /\ last_pid \in Pid /\ b \in Buckets /\ stage = "link" /\ stage' = "ready"
      /\ hash_list \in [Buckets -> Seq(Pid)] /\ proc_list \in Seq(Pid)
      /\ Len(proc_list) \in Nat /\ stacks' = stacks /\ procs' = procs /\ ret' = ret
      /\ nr_process' = nr_process + 1 /\ nr_process \in 1 .. MAX_PROCESS /\ MAX_PROCESS \in Nat
      /\ stacks \in Nat /\ procs \in Nat
  BY ProcAssumption, LenProperties DEF HashInv, IInv, CandidateInRange, ProcTypeOK, ForkLink
<1>2. last_pid \notin Range(proc_list)
  <2>1. DOMAIN proc_list = 1 .. Len(proc_list)
    BY <1>1, LenProperties
  <2> QED BY <1>1, <2>1 DEF HashInv, IInv, FreshPid, Range
<1>3. last_pid \notin Range(hash_list[b])
  BY <1>1, <1>2 DEF HashInv, HashMatchesList, find_proc
<1>4. hash_list[b] \in Seq(Pid) /\ Injective(hash_list[b]) /\ Injective(proc_list)
  BY <1>1 DEF HashInv, IInv, UniquePids, Injective
<1>5. new \in Seq(Pid) /\ Injective(new) /\ Range(new) = Range(hash_list[b]) \cup {last_pid}
  <2>1. b \in Buckets /\ last_pid \in Pid
    BY <1>1
  <2> HIDE DEF b, Pid
  <2> QED BY <2>1, <1>3, <1>4, PushFacts
<1>6. /\ proc_list' \in Seq(Pid) /\ Len(proc_list') = Len(proc_list) + 1
      /\ Range(proc_list') = Range(proc_list) \cup {last_pid}
  <2>1. proc_list' = Push(last_pid, proc_list)
    BY DEF ForkLink, Push
  <2>2. proc_list \in Seq(Pid) /\ last_pid \in Pid
    BY <1>1
  <2> HIDE DEF new, b, Pid
  <2>3. /\ Push(last_pid, proc_list) \in Seq(Pid)
        /\ Len(Push(last_pid, proc_list)) = Len(proc_list) + 1
        /\ Range(Push(last_pid, proc_list)) = Range(proc_list) \cup {last_pid}
    BY <1>2, <1>4, <2>2, PushFacts
  <2> QED BY <2>1, <2>3
<1> HIDE DEF new, b
<1>7. hash_list' = [hash_list EXCEPT ![b] = new]
  BY DEF ForkLink, Push, new, b
<1>8. hash_list' \in [Buckets -> Seq(Pid)] /\ hash_list'[b] = new
      /\ \A c \in Buckets : c # b => hash_list'[c] = hash_list[c]
  BY <1>1, <1>5, <1>7
<1>9. \A c \in Buckets : Injective(hash_list'[c])
  BY <1>5, <1>8 DEF HashInv
<1>10. HashMatchesList'
  <2> SUFFICES ASSUME NEW pid \in Pid
               PROVE  pid \in Range(hash_list'[Hash[pid]]) <=> pid \in Range(proc_list')
    BY DEF HashMatchesList, find_proc
  <2>1. pid \in Range(hash_list[Hash[pid]]) <=> pid \in Range(proc_list)
    BY DEF HashInv, HashMatchesList, find_proc
  <2>2. Hash[pid] \in Buckets
    BY ProcAssumption
  <2>3. CASE Hash[pid] = b
    BY <2>1, <2>3, <1>5, <1>6, <1>8
  <2>4. CASE Hash[pid] # b
    BY <2>1, <2>2, <2>4, <1>6, <1>8 DEF b
  <2> QED BY <2>3, <2>4
<1>11. /\ nr_process' = Len(proc_list') + 1
       /\ stacks' = Len(proc_list') /\ procs' = Len(proc_list')
       /\ nr_process' \in 1 .. MAX_PROCESS
  BY <1>1, <1>6 DEF HashInv, ForkInHand
<1>12. ProcTypeOK'
  BY <1>1, <1>6, <1>8, <1>11 DEF ProcTypeOK, ForkLink, HashInv, IInv, PidTypeOK
<1> QED BY <1>1, <1>9, <1>10, <1>11, <1>12 DEF HashInv, ForkInHand

\* A process leaves its bucket and the list.
LEMMA ReclaimHashInv ==
  ASSUME HashInv, NEW r \in 1 .. Len(proc_list), Reclaim(r), IInv'
  PROVE  HashInv'
<1> DEFINE p == proc_list[r]
           b == Hash[p]
           k == CHOOSE k \in DOMAIN hash_list[b] : hash_list[b][k] = p
           new == Without(hash_list[b], k)
<1>1. /\ p \in Pid /\ b \in Buckets /\ stage = "ready" /\ stage' = "ready"
      /\ hash_list \in [Buckets -> Seq(Pid)] /\ proc_list \in Seq(Pid)
      /\ Len(proc_list) \in Nat /\ stacks' = stacks - 1 /\ procs' = procs - 1
      /\ nr_process' = nr_process - 1 /\ nr_process \in 1 .. MAX_PROCESS /\ MAX_PROCESS \in Nat
      /\ stacks \in Nat /\ procs \in Nat
  BY ProcAssumption, LenProperties, ElementOfSeq DEF HashInv, ProcTypeOK, Reclaim
<1>2. hash_list[b] \in Seq(Pid) /\ Injective(hash_list[b]) /\ Injective(proc_list)
  BY <1>1 DEF HashInv, IInv, UniquePids, Injective
<1>3. p \in Range(proc_list)
  <2>1. DOMAIN proc_list = 1 .. Len(proc_list)
    BY <1>1, LenProperties
  <2> QED BY <2>1 DEF Range
<1>4. p \in Range(hash_list[b])
  BY <1>1, <1>3 DEF HashInv, HashMatchesList, find_proc
<1>5. k \in 1 .. Len(hash_list[b]) /\ hash_list[b][k] = p
  <2>1. DOMAIN hash_list[b] = 1 .. Len(hash_list[b])
    BY <1>2, LenProperties
  <2>2. \E i \in DOMAIN hash_list[b] : hash_list[b][i] = p
    BY <1>4 DEF Range
  <2> QED BY <2>1, <2>2
<1> HIDE DEF k
<1>6. new \in Seq(Pid) /\ Injective(new) /\ Range(new) = Range(hash_list[b]) \ {p}
  BY <1>2, <1>5, WithoutFacts
<1>7. /\ proc_list' \in Seq(Pid) /\ Len(proc_list') = Len(proc_list) - 1
      /\ Range(proc_list') = Range(proc_list) \ {p}
  <2>1. proc_list' = Without(proc_list, r)
    BY DEF Reclaim
  <2> QED BY <1>1, <1>2, <2>1, WithoutFacts
<1>8. hash_list' = [hash_list EXCEPT ![b] = new]
  BY <1>1 DEF Reclaim, k
<1> HIDE DEF new, b, p
<1>9. hash_list' \in [Buckets -> Seq(Pid)] /\ hash_list'[b] = new
      /\ \A c \in Buckets : c # b => hash_list'[c] = hash_list[c]
  BY <1>1, <1>6, <1>8
<1>10. \A c \in Buckets : Injective(hash_list'[c])
  BY <1>6, <1>9 DEF HashInv
<1>11. HashMatchesList'
  <2> SUFFICES ASSUME NEW pid \in Pid
               PROVE  pid \in Range(hash_list'[Hash[pid]]) <=> pid \in Range(proc_list')
    BY DEF HashMatchesList, find_proc
  <2>1. pid \in Range(hash_list[Hash[pid]]) <=> pid \in Range(proc_list)
    BY DEF HashInv, HashMatchesList, find_proc
  <2>2. Hash[pid] \in Buckets
    BY ProcAssumption
  <2>3. CASE Hash[pid] = b
    BY <2>1, <2>3, <1>6, <1>7, <1>9
  <2>4. CASE Hash[pid] # b
    BY <2>1, <2>2, <2>4, <1>7, <1>9 DEF b
  <2> QED BY <2>3, <2>4
<1>12. /\ nr_process' = Len(proc_list') + 1
       /\ stacks' = Len(proc_list') /\ procs' = Len(proc_list')
       /\ nr_process' \in 1 .. MAX_PROCESS /\ stacks' \in Nat
  BY <1>1, <1>7 DEF HashInv, ForkInHand
<1>13. ProcTypeOK'
  BY <1>1, <1>7, <1>9, <1>12 DEF ProcTypeOK, Reclaim, HashInv, IInv, PidTypeOK
<1> QED BY <1>1, <1>10, <1>11, <1>12, <1>13 DEF HashInv, ForkInHand

\* All other steps leave both lists alone; a fork in hand has what it allocated, and room.
LEMMA OtherHashInv ==
  ASSUME HashInv, IInv', ForkSteps \/ GetPid \/ UNCHANGED procvars
  PROVE  HashInv'
<1>1. UNCHANGED <<proc_list, hash_list, nr_process>> /\ ret' \in {ret, -E_NO_FREE_PROC, -E_NO_MEM}
  BY DEF ForkSteps, ForkRefused, ForkEnter, alloc_proc, setup_kstack, copy_mm,
         bad_fork_cleanup_kstack, bad_fork_cleanup_proc, lists,
         GetPid, GetPidEnter, ScanTaken, ScanOther, ScanEnd, StartScan, procvars
<1>2. /\ Len(proc_list) \in Nat /\ procs \in Nat /\ stacks \in Nat
      /\ nr_process \in 1 .. MAX_PROCESS /\ MAX_PROCESS \in Nat
  BY LenProperties, ProcAssumption DEF HashInv, ProcTypeOK
<1>3. ForkInHand' /\ (stage' # "ready" => nr_process < MAX_PROCESS)
  <2>1. CASE ForkSteps
    BY <1>1, <1>2, <2>1
       DEF HashInv, ForkInHand, ForkSteps, ForkRefused, ForkEnter, alloc_proc, setup_kstack, copy_mm,
           bad_fork_cleanup_kstack, bad_fork_cleanup_proc
  <2>2. CASE GetPid
    <3>1. /\ procs' = procs /\ stacks' = stacks
          /\ stage \in {"get_pid", "scan"} /\ stage' \in {"scan", "link"}
      BY <2>2 DEF GetPid, GetPidEnter, ScanTaken, ScanOther, ScanEnd, StartScan
    <3> QED BY <1>1, <3>1 DEF HashInv, ForkInHand
  <2>3. CASE UNCHANGED procvars
    BY <2>3 DEF HashInv, ForkInHand, procvars
  <2> QED BY <2>1, <2>2, <2>3
<1>4. ProcTypeOK'
  <2>1. procs' \in Nat /\ stacks' \in Nat
    BY <1>1, <1>2, <1>3 DEF ForkInHand
  <2> QED BY <1>1, <2>1 DEF HashInv, ProcTypeOK, IInv, PidTypeOK
<1>5. HashMatchesList' /\ \A b \in Buckets : Injective(hash_list'[b])
  BY <1>1 DEF HashInv, HashMatchesList, find_proc
<1> QED BY <1>1, <1>3, <1>4, <1>5 DEF HashInv

LEMMA SpecHashInv == ProcSpec => []HashInv
<1>1. HashInv /\ [ProcNext]_procvars /\ IInv' => HashInv'
  BY LinkHashInv, ReclaimHashInv, OtherHashInv DEF ProcNext, ForkSteps
<1> QED BY InitHashInv, SpecIInv, <1>1, PTL DEF ProcSpec

\* find_proc finds every process of the list and no other: fork and reclaim
\* change the bucket and the list together, under the pid the process keeps.
THEOREM HashMatchesListCorrect == ProcSpec => []HashMatchesList
<1>1. HashInv => HashMatchesList
  BY DEF HashInv
<1> QED BY SpecHashInv, <1>1, PTL

\* nr_process, the list, the process structures and the kernel stacks agree between
\* forks, whichever of the allocations of the forks before failed, and the limit on
\* processes tested before the allocations still holds when the process is linked.
THEOREM ForkAccountsCorrect == ProcSpec => []ForkAccounts
<1>1. HashInv => ForkAccounts
  BY DEF HashInv, ForkInHand, ForkAccounts
<1> QED BY SpecHashInv, <1>1, PTL

---------------------------------------------------------------------------
(* The tracer. What makes it inductive: a breakpoint saves of its word just  *)
(* the breakpoints inserted before it, so writing a saved word back loses    *)
(* none but those inserted after it.                                        *)

Sizes == Text \subseteq Int /\ WORD \in Nat \ {0} /\ bp_count \in Nat

TracerTypes ==
    /\ breakpoints \in Seq(Int) /\ Len(breakpoints) = bp_count
    /\ original_code \in Seq(SUBSET Int) /\ Len(original_code) <= bp_count
    /\ text \in SUBSET Int /\ rip \in Int
    /\ phase \in {"insert", "wait", "trapped", "step"}
    /\ phase # "insert" => Len(original_code) = bp_count

Before(i) == {breakpoints[j] : j \in 1 .. i - 1}
SavedIsEarlier ==
    \A i \in 1 .. Len(original_code) :
        original_code[i] = Before(i) \cap WordAt(breakpoints[i])

TextIsInserted == text \subseteq Before(Len(original_code) + 1)
InsertingIsExact == phase = "insert" => text = Before(Len(original_code) + 1)

Caught(i) == breakpoints[i] \in text \/ Shadowed(breakpoints[i])
Armed == phase \in {"wait", "trapped"} => \A i \in 1 .. bp_count : Caught(i)
TrapIsSet == phase = "trapped" => rip - 1 \in text
Stepping == phase = "step" =>
    /\ Ids(rip) # {} /\ rip \notin text
    /\ \A i \in 1 .. bp_count : breakpoints[i] = rip \/ Caught(i)
MissedIsShadowed == \A a \in missed : Shadowed(a)

TracerInv == TracerTypes /\ SavedIsEarlier /\ TextIsInserted /\ InsertingIsExact
          /\ Armed /\ TrapIsSet /\ Stepping /\ MissedIsShadowed

---------------------------------------------------------------------------

\* The first breakpoint at an address of a breakpoint: none before it is there.
LEMMA FirstId ==
  ASSUME Sizes, TracerTypes, NEW a, Ids(a) # {}
  PROVE  /\ get_bp_id(a) \in 1 .. bp_count
         /\ breakpoints[get_bp_id(a)] = a
         /\ a \notin Before(get_bp_id(a))
<1>1. Ids(a) \in SUBSET Nat /\ Ids(a) \subseteq 1 .. bp_count
  BY DEF Ids, TracerTypes, Sizes
<1>2. Min(Ids(a)) \in Ids(a) /\ \A k \in Ids(a) : Min(Ids(a)) <= k
  BY <1>1, MinOfNats
<1>3. get_bp_id(a) = Min(Ids(a))
  BY DEF get_bp_id
<1>4. a \notin Before(Min(Ids(a)))
  <2>1. SUFFICES ASSUME NEW j \in 1 .. Min(Ids(a)) - 1, breakpoints[j] = a PROVE FALSE
    BY DEF Before
  <2>2. j \in Ids(a)
    BY <1>1, <1>2, <2>1 DEF Ids, TracerTypes
  <2> QED BY <1>1, <1>2, <2>1, <2>2
<1> QED BY <1>1, <1>2, <1>3, <1>4 DEF Ids

\* Writing a saved word back loses only breakpoints that are shadowed.
LEMMA SavedKeeps ==
  ASSUME Sizes, TracerTypes, SavedIsEarlier, Len(original_code) = bp_count,
         NEW id \in 1 .. bp_count, NEW j \in 1 .. bp_count,
         breakpoints[j] # breakpoints[id], Caught(j)
  PROVE  \/ breakpoints[j] \in (text \ WordAt(breakpoints[id])) \cup original_code[id]
         \/ Shadowed(breakpoints[j])
<1>1. CASE Shadowed(breakpoints[j])
  BY <1>1
<1>2. CASE breakpoints[j] \notin WordAt(breakpoints[id])
  BY <1>2 DEF Caught
<1>3. CASE breakpoints[j] \in WordAt(breakpoints[id]) /\ j < id
  <2>1. breakpoints[j] \in Before(id)
    BY <1>3 DEF Before
  <2> QED BY <2>1, <1>3 DEF SavedIsEarlier
<1>4. CASE breakpoints[j] \in WordAt(breakpoints[id]) /\ id < j
  BY <1>4 DEF Shadowed, TracerTypes
<1>5. id # j
  OBVIOUS
<1> QED BY <1>1, <1>2, <1>3, <1>4, <1>5

\* A saved word holds nothing but breakpoints, and not its own.
LEMMA SavedIsInserted ==
  ASSUME Sizes, TracerTypes, SavedIsEarlier, TextIsInserted, Len(original_code) = bp_count,
         NEW id \in 1 .. bp_count, breakpoints[id] \notin Before(id)
  PROVE  LET new == (text \ WordAt(breakpoints[id])) \cup original_code[id]
         IN  /\ new \subseteq Before(bp_count + 1)
             /\ breakpoints[id] \notin new
             /\ breakpoints[id] \in Before(bp_count + 1)
             /\ new \subseteq Int
<1>1. original_code[id] = Before(id) \cap WordAt(breakpoints[id])
  BY DEF SavedIsEarlier
<1>2. breakpoints[id] \in Int /\ breakpoints[id] \in WordAt(breakpoints[id])
  BY DEF WordAt, TracerTypes, Sizes
<1>3. Before(id) \subseteq Before(bp_count + 1) /\ breakpoints[id] \in Before(bp_count + 1)
  BY DEF Before, Sizes
<1>4. text \subseteq Before(bp_count + 1) /\ text \subseteq Int
  BY DEF TextIsInserted, TracerTypes
<1>5. Before(bp_count + 1) \subseteq Int
  BY DEF Before, TracerTypes, Sizes
<1> QED BY <1>1, <1>2, <1>3, <1>4, <1>5

---------------------------------------------------------------------------

LEMMA TracerInitEstablishes == Sizes /\ TraceInit => TracerInv
<1> SUFFICES ASSUME Sizes, TraceInit PROVE TracerInv
  OBVIOUS
<1>1. breakpoints \in Seq(Int) /\ Len(breakpoints) = bp_count
  <2>1. breakpoints \in [1 .. bp_count -> Int] /\ bp_count \in Nat
    BY DEF TraceInit, Sizes
  <2>2. breakpoints \in Seq(Int)
    BY <2>1, IsASeq
  <2>3. DOMAIN breakpoints = 1 .. Len(breakpoints) /\ Len(breakpoints) \in Nat
    BY <2>2, LenProperties
  <2>4. 1 .. Len(breakpoints) = 1 .. bp_count
    BY <2>1, <2>3
  <2> QED BY <2>1, <2>2, <2>3, <2>4
<1>2. original_code = <<>> /\ original_code \in Seq(SUBSET Int) /\ Len(original_code) = 0
  BY DEF TraceInit
<1>3. TracerTypes
  BY <1>1, <1>2 DEF TracerTypes, TraceInit, Sizes
<1>4. Before(1) = {}
  BY DEF Before
<1> QED BY <1>2, <1>3, <1>4 DEF TracerInv, SavedIsEarlier, TextIsInserted, InsertingIsExact, Armed,
                               TrapIsSet, Stepping, MissedIsShadowed, TraceInit

\* While breakpoints are inserted the text holds exactly those inserted so far,
\* so the word saved now has just the earlier ones.
LEMMA InsertKeeps == ASSUME Sizes, TracerInv, Insert PROVE TracerInv'
<1> DEFINE i == Len(original_code) + 1
<1>1. /\ original_code' = Append(original_code, Peek(breakpoints[i]))
      /\ text' = (text \ WordAt(breakpoints[i])) \cup BpCode(i, Peek(breakpoints[i]))
      /\ UNCHANGED <<breakpoints, phase, rip, steps, missed>>
      /\ phase = "insert" /\ Len(original_code) < Len(breakpoints)
  BY DEF Insert, Poke
<1>2. i \in 1 .. bp_count /\ breakpoints[i] \in Int
  BY <1>1 DEF TracerInv, TracerTypes, Sizes
<1>3. Peek(breakpoints[i]) \in SUBSET Int /\ original_code \in Seq(SUBSET Int)
  BY DEF Peek, TracerInv, TracerTypes
<1>4. /\ original_code' \in Seq(SUBSET Int) /\ Len(original_code') = i
      /\ \A k \in 1 .. Len(original_code) : original_code'[k] = original_code[k]
      /\ original_code'[i] = Peek(breakpoints[i])
  BY <1>1, <1>3, AppendProperties
<1>5. text' = text \cup {breakpoints[i]}
  BY <1>1 DEF Peek, BpCode
<1>6. Before(i + 1) = Before(i) \cup {breakpoints[i]}
  BY <1>2 DEF Before
<1>7. text = Before(i)
  BY <1>1 DEF TracerInv, InsertingIsExact
<1>8. TracerTypes'
  <2>1. breakpoints' \in Seq(Int) /\ Len(breakpoints') = bp_count
    BY <1>1 DEF TracerInv, TracerTypes
  <2>2. text' \in SUBSET Int /\ rip' \in Int
    BY <1>1, <1>2, <1>5 DEF TracerInv, TracerTypes
  <2>3. Len(original_code') <= bp_count
    BY <1>2, <1>4
  <2> QED BY <1>1, <1>4, <2>1, <2>2, <2>3 DEF TracerTypes
<1>9. SavedIsEarlier'
  <2> SUFFICES ASSUME NEW k \in 1 .. i
               PROVE  original_code'[k] = Before(k) \cap WordAt(breakpoints[k])
    BY <1>1, <1>4 DEF SavedIsEarlier, Before
  <2>1. CASE k = i
    BY <2>1, <1>4, <1>7 DEF Peek
  <2>2. CASE k # i
    <3>1. k \in 1 .. Len(original_code)
      BY <2>2, <1>2
    <3> QED BY <3>1, <1>4 DEF TracerInv, SavedIsEarlier
  <2> QED BY <2>1, <2>2
<1>10. text' = Before(Len(original_code) + 1)'
  <2>1. text' = Before(i + 1)
    BY <1>5, <1>6, <1>7
  <2>2. Before(i + 1) = {breakpoints'[j] : j \in 1 .. (i + 1) - 1}
    BY <1>1 DEF Before
  <2> QED BY <2>1, <2>2, <1>4 DEF Before
<1>11. MissedIsShadowed'
  BY <1>1 DEF TracerInv, MissedIsShadowed, Shadowed, WordAt
<1>12. TextIsInserted' /\ InsertingIsExact'
  BY <1>10 DEF TextIsInserted, InsertingIsExact
<1>13. Armed' /\ TrapIsSet' /\ Stepping'
  BY <1>1 DEF Armed, TrapIsSet, Stepping
<1> QED BY <1>8, <1>9, <1>11, <1>12, <1>13 DEF TracerInv

LEMMA StartKeeps == ASSUME Sizes, TracerInv, Start PROVE TracerInv'
<1>1. /\ phase = "insert" /\ phase' = "wait" /\ Len(original_code) = bp_count
      /\ UNCHANGED <<breakpoints, original_code, text, rip, steps, missed>>
  BY DEF Start, TracerInv, TracerTypes
<1>2. \A i \in 1 .. bp_count : breakpoints[i] \in text
  BY <1>1 DEF TracerInv, InsertingIsExact, Before, Sizes
<1>3. TracerTypes' /\ SavedIsEarlier' /\ TextIsInserted' /\ MissedIsShadowed'
  BY <1>1 DEF TracerInv, TracerTypes, SavedIsEarlier, TextIsInserted, MissedIsShadowed, Before, Shadowed, WordAt
<1> QED BY <1>1, <1>2, <1>3 DEF TracerInv, InsertingIsExact, Armed, Caught, TrapIsSet, Stepping

\* A function entered without a trap has lost its breakpoint: it is shadowed.
LEMMA RunKeeps == ASSUME Sizes, TracerInv, Run PROVE TracerInv'
<1>1. /\ phase = "wait" /\ rip \notin text /\ rip' \in Text
      /\ UNCHANGED <<breakpoints, original_code, text, phase>>
      /\ missed' = IF Ids(rip) = {} THEN missed ELSE missed \cup {rip}
  BY DEF Run
<1>2. Ids(rip) # {} => Shadowed(rip)
  BY <1>1 DEF Ids, TracerInv, Armed, Caught, TracerTypes
<1>3. MissedIsShadowed'
  BY <1>1, <1>2 DEF TracerInv, MissedIsShadowed, Shadowed, WordAt
<1>4. TracerTypes'
  BY <1>1 DEF TracerInv, TracerTypes, Sizes
<1>5. SavedIsEarlier' /\ TextIsInserted'
  BY <1>1 DEF TracerInv, SavedIsEarlier, TextIsInserted, Before, WordAt
<1>6. Armed'
  BY <1>1 DEF TracerInv, Armed, Caught, Shadowed, WordAt
<1> QED BY <1>1, <1>3, <1>4, <1>5, <1>6 DEF TracerInv, InsertingIsExact, TrapIsSet, Stepping

LEMMA TrapKeeps == ASSUME Sizes, TracerInv, Trap PROVE TracerInv'
<1>1. /\ phase = "wait" /\ rip \in text /\ rip' = rip + 1 /\ phase' = "trapped"
      /\ UNCHANGED <<breakpoints, original_code, text, steps, missed>>
  BY DEF Trap
<1>2. rip \in Int /\ rip' - 1 = rip
  BY <1>1 DEF TracerInv, TracerTypes
<1>3. TracerTypes'
  BY <1>1, <1>2 DEF TracerInv, TracerTypes
<1>4. SavedIsEarlier' /\ TextIsInserted' /\ MissedIsShadowed'
  BY <1>1 DEF TracerInv, SavedIsEarlier, TextIsInserted, MissedIsShadowed, Before, Shadowed, WordAt
<1> QED BY <1>1, <1>2, <1>3, <1>4 DEF TracerInv, InsertingIsExact, Armed, Caught, Shadowed, WordAt, TrapIsSet, Stepping

\* The trap is always a known one, and what the saved word takes away is shadowed.
LEMMA RestoreKeeps == ASSUME Sizes, TracerInv, Restore PROVE TracerInv'
<1> DEFINE id == get_bp_id(rip - 1)
<1>1. phase = "trapped" /\ UNCHANGED <<breakpoints, original_code, steps, missed>>
  BY DEF Restore
<1>2. rip - 1 \in Before(bp_count + 1) /\ Len(original_code) = bp_count
  BY <1>1 DEF TracerInv, TrapIsSet, TextIsInserted, TracerTypes
<1>3. Ids(rip - 1) # {}
  BY <1>2 DEF Before, Ids, TracerInv, TracerTypes, Sizes
<1>4. id \in 1 .. bp_count /\ breakpoints[id] = rip - 1 /\ rip - 1 \notin Before(id)
  BY <1>3, FirstId DEF TracerInv
<1>5. /\ rip' = breakpoints[id] /\ phase' = "step"
      /\ text' = (text \ WordAt(breakpoints[id])) \cup original_code[id]
  BY <1>4 DEF Restore, Poke
<1>6. /\ text' \subseteq Before(bp_count + 1) /\ text' \subseteq Int
      /\ breakpoints[id] \notin text'
  BY <1>2, <1>4, <1>5, SavedIsInserted DEF TracerInv
<1>7. \A j \in 1 .. bp_count :
         breakpoints[j] = rip' \/ breakpoints[j] \in text' \/ Shadowed(breakpoints[j])
  <2> SUFFICES ASSUME NEW j \in 1 .. bp_count, breakpoints[j] # breakpoints[id]
               PROVE  breakpoints[j] \in text' \/ Shadowed(breakpoints[j])
    BY <1>5
  <2>1. Caught(j)
    BY <1>1 DEF TracerInv, Armed
  <2> QED BY <2>1, <1>2, <1>4, <1>5, SavedKeeps DEF TracerInv
<1>8. TracerTypes' /\ SavedIsEarlier' /\ TextIsInserted' /\ MissedIsShadowed'
  <2>1. breakpoints[id] \in Int
    BY <1>4 DEF TracerInv, TracerTypes
  <2> HIDE DEF id
  <2>2. TracerTypes'
    BY <1>1, <1>2, <1>5, <1>6, <2>1 DEF TracerInv, TracerTypes
  <2>3. SavedIsEarlier'
    BY <1>1 DEF TracerInv, SavedIsEarlier, Before, WordAt
  <2>4. MissedIsShadowed'
    BY <1>1 DEF TracerInv, MissedIsShadowed, Shadowed, WordAt
  <2>5. TextIsInserted'
    <3>1. Before(bp_count + 1)' = Before(bp_count + 1)
      BY <1>1 DEF Before
    <3>2. Len(original_code)' = bp_count
      BY <1>1, <1>2
    <3> QED BY <1>6, <3>1, <3>2 DEF TextIsInserted
  <2> QED BY <2>2, <2>3, <2>4, <2>5
<1>9. Ids(rip') # {}
  BY <1>4, <1>5 DEF Ids, TracerInv, TracerTypes
<1>10. Stepping'
  BY <1>1, <1>5, <1>6, <1>7, <1>9 DEF Stepping, Caught, Shadowed, WordAt, Ids
<1> QED BY <1>1, <1>5, <1>8, <1>10 DEF TracerInv, InsertingIsExact, Armed, TrapIsSet

LEMMA StepAndRearmKeeps == ASSUME Sizes, TracerInv, StepAndRearm PROVE TracerInv'
<1> DEFINE id == get_bp_id(rip)
<1>1. phase = "step" /\ UNCHANGED <<breakpoints, original_code, steps, missed>>
  BY DEF StepAndRearm
<1>2. Ids(rip) # {} /\ rip \notin text /\ Len(original_code) = bp_count
  BY <1>1 DEF TracerInv, Stepping, TracerTypes
<1>3. id \in 1 .. bp_count /\ breakpoints[id] = rip /\ rip \notin Before(id)
  BY <1>2, FirstId DEF TracerInv
<1>4. /\ rip' \in Text /\ phase' = "wait"
      /\ text' = ((text \ WordAt(breakpoints[id])) \cup original_code[id]) \cup {breakpoints[id]}
  BY <1>2, <1>3 DEF StepAndRearm, Poke, BpCode
<1>5. text' \subseteq Before(bp_count + 1) /\ text' \subseteq Int
  BY <1>2, <1>3, <1>4, SavedIsInserted DEF TracerInv, TracerTypes
<1>6. \A j \in 1 .. bp_count : breakpoints[j] \in text' \/ Shadowed(breakpoints[j])
  <2> SUFFICES ASSUME NEW j \in 1 .. bp_count
               PROVE  breakpoints[j] \in text' \/ Shadowed(breakpoints[j])
    OBVIOUS
  <2>1. CASE breakpoints[j] = breakpoints[id]
    BY <2>1, <1>4
  <2>2. CASE breakpoints[j] # breakpoints[id]
    <3>1. Caught(j)
      BY <1>1, <1>3, <2>2 DEF TracerInv, Stepping
    <3> QED BY <3>1, <2>2, <1>2, <1>3, <1>4, SavedKeeps DEF TracerInv
  <2> QED BY <2>1, <2>2
<1>7. TracerTypes'
  BY <1>1, <1>2, <1>4, <1>5 DEF TracerInv, TracerTypes, Sizes
<1>8. SavedIsEarlier' /\ MissedIsShadowed'
  BY <1>1 DEF TracerInv, SavedIsEarlier, MissedIsShadowed, Before, Shadowed, WordAt
<1>9. TextIsInserted'
  BY <1>1, <1>2, <1>5 DEF TextIsInserted, Before
<1>10. Armed'
  BY <1>1, <1>6 DEF Armed, Caught, Shadowed, WordAt
<1> QED BY <1>1, <1>4, <1>7, <1>8, <1>9, <1>10 DEF TracerInv, InsertingIsExact, TrapIsSet, Stepping

\* For every text, word size and number of functions: the tracer takes every trap
\* for what it is, and misses calls only of functions shadowed by an earlier one.
THEOREM TraceExactCorrect == Sizes => (TraceSpec => []TraceExact)
<1> SUFFICES ASSUME Sizes PROVE TraceSpec => []TraceExact
  OBVIOUS
<1>1. TraceInit => TracerInv
  BY TracerInitEstablishes
<1>2. TracerInv /\ [TraceNext]_tracevars => TracerInv'
  <2> SUFFICES ASSUME TracerInv, [TraceNext]_tracevars PROVE TracerInv'
    OBVIOUS
  <2>1. CASE UNCHANGED tracevars
    <3>1. TracerTypes' /\ TrapIsSet' /\ Stepping' /\ Armed'
      BY <2>1 DEF tracevars, TracerInv, TracerTypes, TrapIsSet, Stepping, Armed, Caught, Ids, Shadowed, WordAt
    <3>2. SavedIsEarlier' /\ TextIsInserted' /\ InsertingIsExact' /\ MissedIsShadowed'
      BY <2>1 DEF tracevars, TracerInv, SavedIsEarlier, TextIsInserted, InsertingIsExact,
                  MissedIsShadowed, Before, Shadowed, WordAt
    <3> QED BY <3>1, <3>2 DEF TracerInv
  <2>2. CASE TraceNext
    BY <2>2, InsertKeeps, StartKeeps, RunKeeps, TrapKeeps, RestoreKeeps, StepAndRearmKeeps DEF TraceNext
  <2> QED BY <2>1, <2>2
<1>3. TracerInv => TraceExact
  BY DEF TracerInv, TracerTypes, MissedIsShadowed, TraceExact
<1> QED BY <1>1, <1>2, <1>3, PTL DEF TraceSpec

---------------------------------------------------------------------------
(* The debug information. The search keeps a bracket around the region it    *)
(* looks for, and a turn either shrinks it or is the one exact match.        *)

\* What the turns of the search keep: the address it looks for climbs only over
\* addresses at which a stab begins, the stabs below l begin below it, those
\* above r above addr, and left and right bound the region found so far.
Bracket(stabs, type, left, right, addr, s) ==
    LET typed == OfType(stabs, type, left, right) IN
    /\ s \in Narrowing
    /\ left <= s.l /\ s.l <= s.r + 1 /\ s.r <= right /\ s.right = s.r
    /\ addr <= s.addr
    /\ \A a \in addr .. s.addr - 1 : \E k \in typed : stabs[k].value = a
    /\ \A k \in typed : k < s.l => stabs[k].value < s.addr
    /\ \A k \in typed : s.r < k => addr < stabs[k].value
    /\ s.r = right \/ s.r + 1 \in typed
    /\ s.left = left \/ (s.left \in typed /\ s.left <= s.r /\ stabs[s.left].value < s.addr)
    /\ s.any => typed # {}
    /\ ~s.any => s.left = left /\ s.r = right /\ \A k \in typed : s.l <= k

\* How many turns are left at most: an exact match with the stab at l moves neither
\* end, but there is no second one.
Matched(stabs, type, left, right, s) ==
    s.l \in OfType(stabs, type, left, right) /\ stabs[s.l].value < s.addr
TurnsLeft(stabs, type, left, right, s) ==
    2 * (s.r - s.l) + (IF Matched(stabs, type, left, right, s) THEN 2 ELSE 3)

\* A turn keeps the bracket, and uses up one of the turns left.
LEMMA TurnKeeps ==
  ASSUME NEW stabs, NEW type, NEW left \in Int, NEW right \in Int, NEW addr \in Int,
         Sorted(stabs, type, left, right),
         NEW s, Bracket(stabs, type, left, right, addr, s), s.l <= s.r
  PROVE  LET t == Turn(stabs, type, s)
         IN  /\ Bracket(stabs, type, left, right, addr, t)
             /\ TurnsLeft(stabs, type, left, right, t) < TurnsLeft(stabs, type, left, right, s)
<1> DEFINE typed == OfType(stabs, type, left, right)
           true_m == (s.l + s.r) \div 2
           here == OfType(stabs, type, s.l, true_m)
           m == Max(here)
           t == Turn(stabs, type, s)
<1>1. /\ s \in Narrowing
      /\ s.l \in Int /\ s.r \in Int /\ s.left \in Int /\ s.addr \in Int /\ s.any \in BOOLEAN
      /\ left <= s.l /\ s.r <= right /\ s.right = s.r
      /\ addr <= s.addr
      /\ s.r = right \/ s.r + 1 \in typed
      /\ s.left = left \/ (s.left \in typed /\ s.left <= s.r /\ stabs[s.left].value < s.addr)
      /\ s.any => typed # {}
      /\ ~s.any => s.left = left /\ s.r = right /\ \A k \in typed : s.l <= k
  BY DEF Bracket, Narrowing
<1>2. \A k \in typed : k < s.l => stabs[k].value < s.addr
  BY DEF Bracket
<1>3. \A k \in typed : s.r < k => addr < stabs[k].value
  BY DEF Bracket
<1>4. \A a \in addr .. s.addr - 1 : \E k \in typed : stabs[k].value = a
  BY DEF Bracket
<1>5. \A u : Matched(stabs, type, left, right, u) <=> u.l \in typed /\ stabs[u.l].value < u.addr
  BY DEF Matched
<1>6. true_m \in Int /\ s.l <= true_m /\ true_m <= s.r
  BY <1>1
<1>7. \A k \in typed : k \in Int /\ stabs[k].value \in Int
  BY DEF OfType, Sorted
<1>8. \A j, k \in typed : j <= k => stabs[j].value <= stabs[k].value
  BY DEF Sorted
<1>9. \A k : k \in here <=> k \in typed /\ s.l <= k /\ k <= true_m
  BY <1>1, <1>6 DEF OfType
<1>10. s = [l |-> s.l, r |-> s.r, left |-> s.left, right |-> s.right, any |-> s.any, addr |-> s.addr]
  BY <1>1 DEF Narrowing
<1> HIDE DEF true_m, typed, here
<1>11. CASE here = {}
  <2>1. t = [s EXCEPT !.l = true_m + 1]
    BY <1>1, <1>11 DEF Turn, true_m, here
  <2>2. /\ t \in Narrowing /\ t.l = true_m + 1 /\ t.r = s.r /\ t.left = s.left
        /\ t.right = s.right /\ t.any = s.any /\ t.addr = s.addr
    BY <2>1, <1>1, <1>6 DEF Narrowing
  <2> HIDE DEF t
  <2>3. \A k \in typed : k < t.l => k < s.l
    BY <2>2, <1>1, <1>6, <1>7, <1>9, <1>11
  <2>4. \A k \in typed : k < t.l => stabs[k].value < t.addr
    BY <2>2, <2>3, <1>2
  <2>5. ~t.any => \A k \in typed : t.l <= k
    BY <2>2, <2>3, <1>1, <1>6, <1>7
  <2>6. Bracket(stabs, type, left, right, addr, t)
    BY <2>2, <2>4, <2>5, <1>1, <1>3, <1>6, <1>4 DEF Bracket, typed
  <2>7. TurnsLeft(stabs, type, left, right, t) < TurnsLeft(stabs, type, left, right, s)
    BY <2>2, <1>1, <1>6 DEF TurnsLeft
  <2> QED BY <2>6, <2>7 DEF t
<1>12. CASE here # {}
  <2>1. here \in SUBSET (s.l .. true_m)
    BY DEF here, OfType
  <2>2. m \in here
    BY <2>1, <1>1, <1>6, <1>12, MaxOfInterval
  <2>3. \A k \in here : k <= m
    BY <2>1, <1>1, <1>6, <1>12, MaxOfInterval
  <2> HIDE DEF m
  <2>4. m \in typed /\ m \in Int /\ s.l <= m /\ m <= true_m /\ stabs[m].value \in Int
    BY <2>2, <1>7, <1>9
  <2>5. \A k \in typed : k <= true_m => k <= m
    BY <2>3, <2>4, <1>1, <1>6, <1>7, <1>9
  <2>6. CASE stabs[m].value < s.addr
    <3>1. t = [s EXCEPT !.l = true_m + 1, !.left = m, !.any = TRUE]
      BY <2>6, <1>1, <1>12 DEF Turn, true_m, here, m
    <3>2. /\ t \in Narrowing /\ t.l = true_m + 1 /\ t.r = s.r /\ t.left = m
          /\ t.right = s.right /\ t.any = TRUE /\ t.addr = s.addr
      <4>1. t = [l |-> true_m + 1, r |-> s.r, left |-> m, right |-> s.right, any |-> TRUE, addr |-> s.addr]
        BY <3>1, <1>10
      <4> QED BY <4>1, <1>1, <1>6, <2>4 DEF Narrowing
    <3> HIDE DEF t
    <3>3. stabs[m].value < t.addr
      BY <3>2, <2>6
    <3>4. \A k \in typed : k < t.l => stabs[k].value < t.addr
      <4> SUFFICES ASSUME NEW k \in typed, k < t.l PROVE stabs[k].value < t.addr
        OBVIOUS
      <4>1. k <= m
        BY <2>5, <3>2, <1>6, <1>7
      <4>2. stabs[k].value <= stabs[m].value
        BY <4>1, <2>4, <1>8
      <4>3. stabs[k].value \in Int /\ stabs[m].value \in Int
        BY <2>4, <1>7
      <4> HIDE DEF m
      <4> QED BY <4>2, <4>3, <3>2, <3>3, <1>1
    <3>5. Bracket(stabs, type, left, right, addr, t)
      BY <3>2, <3>3, <3>4, <2>4, <1>1, <1>3, <1>6, <1>4 DEF Bracket, typed
    <3>6. TurnsLeft(stabs, type, left, right, t) < TurnsLeft(stabs, type, left, right, s)
      BY <3>2, <1>1, <1>6 DEF TurnsLeft
    <3> QED BY <3>5, <3>6 DEF t
  <2>7. CASE stabs[m].value > s.addr
    <3>1. t = [s EXCEPT !.r = m - 1, !.right = m - 1, !.any = TRUE]
      BY <2>4, <2>7, <1>1, <1>12 DEF Turn, true_m, here, m
    <3>2. /\ t \in Narrowing /\ t.l = s.l /\ t.r = m - 1 /\ t.left = s.left
          /\ t.right = m - 1 /\ t.any = TRUE /\ t.addr = s.addr
      <4>1. t = [l |-> s.l, r |-> m - 1, left |-> s.left, right |-> m - 1, any |-> TRUE, addr |-> s.addr]
        BY <3>1, <1>10
      <4> QED BY <4>1, <1>1, <1>6, <2>4 DEF Narrowing
    <3> HIDE DEF t
    <3>3. addr < stabs[m].value
      BY <2>4, <2>7, <1>1
    <3>4. \A k \in typed : t.r < k => addr < stabs[k].value
      <4> SUFFICES ASSUME NEW k \in typed, t.r < k PROVE addr < stabs[k].value
        OBVIOUS
      <4>1. m <= k
        BY <3>2, <2>4, <1>7
      <4>2. stabs[m].value <= stabs[k].value
        BY <4>1, <2>4, <1>8
      <4>3. stabs[k].value \in Int /\ stabs[m].value \in Int
        BY <2>4, <1>7
      <4> HIDE DEF m
      <4> QED BY <4>2, <4>3, <3>3
    <3>5. t.r + 1 \in typed
      BY <3>2, <2>4
    <3>6. t.left = left \/ (t.left \in typed /\ t.left <= t.r /\ stabs[t.left].value < t.addr)
      <4> SUFFICES ASSUME s.left \in typed, stabs[s.left].value < s.addr PROVE s.left <= m - 1
        BY <3>2, <1>1
      <4>1. stabs[s.left].value \in Int /\ s.left \in Int
        BY <1>7
      <4>2. ~(m <= s.left)
        <5>1. m <= s.left => stabs[m].value <= stabs[s.left].value
          BY <2>4, <1>8
        <5> QED BY <5>1, <4>1, <2>4, <2>7, <1>1
      <4> QED BY <4>1, <4>2, <2>4
    <3>7. Bracket(stabs, type, left, right, addr, t)
      BY <3>2, <3>4, <3>5, <3>6, <2>4, <1>1, <1>2, <1>6, <1>4 DEF Bracket, typed
    <3>8. TurnsLeft(stabs, type, left, right, t) < TurnsLeft(stabs, type, left, right, s)
      BY <3>2, <2>4, <1>1, <1>6, <1>5 DEF TurnsLeft
    <3> QED BY <3>7, <3>8 DEF t
  <2>8. CASE stabs[m].value = s.addr
    <3>1. t = [s EXCEPT !.l = m, !.left = m, !.addr = s.addr + 1, !.any = TRUE]
      BY <2>4, <2>8, <1>1, <1>12 DEF Turn, true_m, here, m
    <3>2. /\ t \in Narrowing /\ t.l = m /\ t.r = s.r /\ t.left = m
          /\ t.right = s.right /\ t.any = TRUE /\ t.addr = s.addr + 1
      <4>1. t = [l |-> m, r |-> s.r, left |-> m, right |-> s.right, any |-> TRUE, addr |-> s.addr + 1]
        BY <3>1, <1>10
      <4> QED BY <4>1, <1>1, <1>6, <2>4 DEF Narrowing
    <3> HIDE DEF t
    <3>3. \A a \in addr .. t.addr - 1 : \E k \in typed : stabs[k].value = a
      <4> SUFFICES ASSUME NEW a \in addr .. s.addr PROVE \E k \in typed : stabs[k].value = a
        BY <3>2, <1>1
      <4>1. CASE a = s.addr
        BY <4>1, <2>4, <2>8
      <4>2. CASE a # s.addr
        BY <4>2, <1>1, <1>4
      <4> QED BY <4>1, <4>2
    <3>4. \A k \in typed : k < t.l => stabs[k].value < t.addr
      <4> SUFFICES ASSUME NEW k \in typed, k < t.l PROVE stabs[k].value < t.addr
        OBVIOUS
      <4>1. k \in Int /\ k < m
        BY <3>2, <1>7
      <4>2. k <= m
        BY <4>1, <2>4
      <4>3. stabs[k].value <= stabs[m].value
        BY <4>2, <2>4, <1>8
      <4>4. stabs[k].value \in Int
        BY <1>7
      <4> QED BY <4>3, <4>4, <3>2, <2>8, <1>1
    <3>5. t.left \in typed /\ t.left <= t.r /\ stabs[t.left].value < t.addr
      BY <3>2, <2>4, <2>8, <1>1, <1>6
    <3>6. Bracket(stabs, type, left, right, addr, t)
      BY <3>2, <3>3, <3>4, <3>5, <2>4, <1>1, <1>3, <1>6 DEF Bracket, typed
    <3>7. TurnsLeft(stabs, type, left, right, t) < TurnsLeft(stabs, type, left, right, s)
      <4>1. Matched(stabs, type, left, right, t)
        BY <3>2, <2>4, <2>8, <1>1, <1>5
      <4>2. m = s.l => ~Matched(stabs, type, left, right, s)
        BY <2>4, <2>8, <1>1, <1>5
      <4>3. TurnsLeft(stabs, type, left, right, t) = 2 * (s.r - m) + 2
        BY <4>1, <3>2 DEF TurnsLeft
      <4>4. m = s.l => TurnsLeft(stabs, type, left, right, s) = 2 * (s.r - s.l) + 3
        BY <4>2 DEF TurnsLeft
      <4>5. TurnsLeft(stabs, type, left, right, s) >= 2 * (s.r - s.l) + 2
        BY <1>1 DEF TurnsLeft
      <4>6. TurnsLeft(stabs, type, left, right, s) \in Int
        BY <1>1 DEF TurnsLeft
      <4> DEFINE tl == TurnsLeft(stabs, type, left, right, t)
                 sl == TurnsLeft(stabs, type, left, right, s)
      <4> HIDE DEF m, tl, sl
      <4>7. CASE m = s.l
        <5>1. sl = 2 * (s.r - s.l) + 3 /\ tl = 2 * (s.r - s.l) + 2
          BY <4>3, <4>4, <4>7 DEF tl, sl
        <5> QED BY <5>1, <1>1 DEF tl, sl
      <4>8. CASE m # s.l
        <5>1. s.l < m /\ m \in Int
          BY <4>8, <2>4, <1>1
        <5>2. tl = 2 * (s.r - m) + 2 /\ sl >= 2 * (s.r - s.l) + 2 /\ sl \in Int
          BY <4>3, <4>5, <4>6 DEF tl, sl
        <5>3. tl < sl
          BY <5>1, <5>2, <1>1
        <5> QED BY <5>3 DEF tl, sl
      <4> QED BY <4>7, <4>8
    <3> QED BY <3>6, <3>7 DEF t
  <2> QED BY <2>4, <2>6, <2>7, <2>8, <1>1
<1> QED BY <1>11, <1>12

\* The search ends within the turns counted for it, with the bracket closed.
LEMMA NarrowedCloses ==
  ASSUME NEW stabs, NEW type, NEW left \in Int, NEW right \in Int, NEW addr \in Int,
         Sorted(stabs, type, left, right),
         NEW s, Bracket(stabs, type, left, right, addr, s)
  PROVE  /\ Bracket(stabs, type, left, right, addr, Narrowed(stabs, type, s))
         /\ Narrowed(stabs, type, s).l > Narrowed(stabs, type, s).r
<1> DEFINE next == [t \in Narrowing |-> Turn(stabs, type, t)]
           at == Iterate(s, next)
           n == 2 * (s.r - s.l) + 3
           Good(t, k) == /\ Bracket(stabs, type, left, right, addr, t)
                         /\ t.l > t.r \/ TurnsLeft(stabs, type, left, right, t) <= n - k
           Bad == {k \in Nat : ~Good(at[k], k)}
<1>1. /\ at[0] = s
      /\ \A k \in Nat : at[k + 1] = next[at[k]]
  <2> HIDE DEF next
  <2> QED BY IterateStep
<1>2. \A t : Bracket(stabs, type, left, right, addr, t) =>
               t \in Narrowing /\ t.l \in Int /\ t.r \in Int /\ TurnsLeft(stabs, type, left, right, t) \in Int
  BY DEF Bracket, Narrowing, TurnsLeft
<1>3. n \in Nat
  BY <1>2 DEF Bracket
<1>4. Good(s, 0)
  BY <1>2 DEF TurnsLeft
<1>5. ASSUME NEW t, NEW k \in Nat, Good(t, k) PROVE Good(next[t], k + 1)
  <2>1. t \in Narrowing /\ t.l \in Int /\ t.r \in Int /\ TurnsLeft(stabs, type, left, right, t) \in Int
    BY <1>2, <1>5
  <2>2. next[t] = Turn(stabs, type, t)
    BY <2>1
  <2>3. CASE t.l > t.r
    <3>1. next[t] = t
      BY <2>2, <2>3 DEF Turn
    <3> QED BY <3>1, <2>3, <1>5
  <2>4. CASE ~(t.l > t.r)
    <3> HIDE DEF n
    <3>1. t.l <= t.r
      BY <2>1, <2>4
    <3>2. Bracket(stabs, type, left, right, addr, Turn(stabs, type, t))
      BY <1>5, <3>1, TurnKeeps
    <3>3. TurnsLeft(stabs, type, left, right, Turn(stabs, type, t)) < TurnsLeft(stabs, type, left, right, t)
      BY <1>5, <3>1, TurnKeeps
    <3>4. TurnsLeft(stabs, type, left, right, Turn(stabs, type, t)) \in Int
      BY <3>2, <1>2
    <3>5. TurnsLeft(stabs, type, left, right, Turn(stabs, type, t)) <= n - (k + 1)
      BY <3>3, <3>4, <2>1, <2>4, <1>3, <1>5
    <3> QED BY <2>2, <3>2, <3>5
  <2> QED BY <2>3, <2>4
<1>6. Bad = {}
  <2> SUFFICES ASSUME Bad # {} PROVE FALSE
    OBVIOUS
  <2>1. PICK k \in Bad : \A j \in Bad : k <= j
    <3>1. Bad \in SUBSET Nat
      OBVIOUS
    <3> HIDE DEF Bad
    <3> QED BY <3>1, LeastNat
  <2> HIDE DEF at, n, next
  <2>2. k \in Nat /\ ~Good(at[k], k)
    BY <2>1
  <2> HIDE DEF Good
  <2>3. k # 0
    BY <2>2, <1>1, <1>4
  <2>4. k - 1 \in Nat /\ ~(k <= k - 1) /\ (k - 1) + 1 = k
    BY <2>2, <2>3
  <2>5. Good(at[k - 1], k - 1)
    BY <2>1, <2>4
  <2>6. at[(k - 1) + 1] = next[at[k - 1]]
    BY <2>4, <1>1
  <2>7. Good(at[(k - 1) + 1], (k - 1) + 1)
    BY <2>4, <2>5, <2>6, <1>5
  <2> QED BY <2>2, <2>4, <2>7
<1>7. Good(at[n], n)
  <2> HIDE DEF at, n, Good
  <2> QED BY <1>3, <1>6
<1>8. Narrowed(stabs, type, s) = at[n]
  BY DEF Narrowed
<1>9. at[n].l > at[n].r
  <2> HIDE DEF at
  <2>1. at[n].l \in Int /\ at[n].r \in Int
    BY <1>2, <1>7
  <2>2. CASE TurnsLeft(stabs, type, left, right, at[n]) <= n - n
    BY <2>1, <2>2, <1>3 DEF TurnsLeft
  <2> QED BY <1>7, <2>2
<1> QED BY <1>7, <1>8, <1>9

\* What the search may answer, as SearchExact says it.
Answers(stabs, left, right, type, addr, found) ==
    LET typed == OfType(stabs, type, left, right)
        below == Below(stabs, left, right, type, addr)
    IN  /\ below # {} =>
            \/ found = Region(stabs, left, right, type, addr)
            \/ \E k \in typed : /\ Follows(stabs, left, right, type, addr, k)
                                /\ found = UpToNext(stabs, left, right, type, k)
        /\ typed = {} => found[1] > found[2]
        /\ below = {} /\ typed # {} =>
            found = <<Min({left, Min(typed) - 1}), Min(typed) - 1>>

\* When the bracket is closed, what is left is one of these answers.
LEMMA FoundIsRegion ==
  ASSUME NEW stabs, NEW type, NEW left \in Int, NEW right \in Int, NEW addr \in Int,
         left <= right + 1, Sorted(stabs, type, left, right),
         NEW s, Bracket(stabs, type, left, right, addr, s), s.l > s.r
  PROVE  Answers(stabs, left, right, type, addr, Found(stabs, type, s))
<1> DEFINE typed == OfType(stabs, type, left, right)
           below == Below(stabs, left, right, type, addr)
           above == Above(stabs, left, right, type, addr)
           found == Found(stabs, type, s)
           inner == {s.left} \cup OfType(stabs, type, s.left, s.right)
           upTo(b) == \/ s.r = right /\ \A k \in typed : ~(b < k)
                      \/ s.r + 1 \in typed /\ b < s.r + 1 /\ \A k \in typed : b < k => s.r + 1 <= k
<1>1. /\ s.l \in Int /\ s.r \in Int /\ s.left \in Int /\ s.any \in BOOLEAN /\ s.addr \in Int
      /\ s.l = s.r + 1 /\ left <= s.l /\ s.r <= right /\ s.right = s.r /\ addr <= s.addr
      /\ s.r = right \/ s.r + 1 \in typed
      /\ s.left = left \/ (s.left \in typed /\ s.left <= s.r /\ stabs[s.left].value < s.addr)
      /\ s.any => typed # {}
      /\ ~s.any => s.left = left /\ s.r = right /\ \A k \in typed : s.l <= k
  BY DEF Bracket, Narrowing
<1>2. \A k \in typed : k < s.l => stabs[k].value < s.addr
  BY DEF Bracket
<1>3. \A k \in typed : s.r < k => addr < stabs[k].value
  BY DEF Bracket
<1>4. \A a \in addr .. s.addr - 1 : \E k \in typed : stabs[k].value = a
  BY DEF Bracket
<1>5. \A k \in typed : k \in Int /\ left <= k /\ k <= right /\ stabs[k].value \in Int
  BY DEF OfType, Sorted
<1>6. \A k : k \in below <=> k \in typed /\ stabs[k].value <= addr
  BY DEF Below
<1>7. \A k : k \in above <=> k \in typed /\ ~(stabs[k].value <= addr)
  BY <1>6 DEF Above
<1>8. \A k : k \in OfType(stabs, type, s.left, s.right) <=>
               k \in typed /\ s.left <= k /\ k <= s.r
  BY <1>1, <1>5 DEF OfType
<1>9. \A j, k \in typed : j <= k => stabs[j].value <= stabs[k].value
  BY DEF Sorted
<1>10. typed \in SUBSET (left .. right)
  BY DEF OfType
<1> HIDE DEF typed, below, above
<1>11. \A k \in below : k <= s.r
  BY <1>1, <1>3, <1>5, <1>6
<1>12. CASE below # {}
  <2>1. PICK k \in below : TRUE
    BY <1>12
  <2>2. s.any /\ ~(s.right < s.left)
    BY <2>1, <1>1, <1>5, <1>6, <1>11
  <2>3. found = <<Max(inner), s.r>>
    BY <2>2, <1>1 DEF Found
  <2> DEFINE passed == {j \in typed : j <= s.r}
             b == Max(passed)
  <2>4. passed # {} /\ passed \in SUBSET (left .. right)
    BY <2>1, <1>6, <1>11, <1>10
  <2>5. b \in passed /\ \A j \in passed : j <= b
    <3> HIDE DEF passed
    <3> QED BY <2>4, MaxOfInterval
  <2> HIDE DEF b
  <2>6. /\ b \in typed /\ b \in Int /\ b <= s.r /\ stabs[b].value \in Int
        /\ \A j \in typed : j <= s.r => j <= b
    BY <2>5, <1>5
  <2>7. s.left <= b
    BY <2>6, <1>1, <1>5
  <2>8. b \in inner /\ inner \in SUBSET Int /\ \A j \in inner : j <= b
    BY <2>6, <2>7, <1>1, <1>5, <1>8
  <2> HIDE DEF inner
  <2>9. found = <<b, s.r>>
    BY <2>3, <2>8, MaxIs
  <2>10. \A j \in typed : b < j => s.r + 1 <= j
    BY <2>6, <1>1, <1>5
  <2>11. CASE stabs[b].value <= addr
    <3>1. b \in below /\ below \in SUBSET Int /\ \A j \in below : j <= b
      BY <2>6, <2>11, <1>5, <1>6, <1>11
    <3>2. Max(below) = b
      BY <3>1, MaxIs
    <3>3. \A j \in above : s.r + 1 <= j
      <4> SUFFICES ASSUME NEW j \in above PROVE b < j
        BY <2>10, <1>7
      <4>1. j \in typed /\ j \in Int /\ stabs[j].value \in Int /\ ~(stabs[j].value <= addr)
        BY <1>5, <1>7
      <4>2. j <= b => stabs[j].value <= stabs[b].value
        BY <4>1, <2>6, <1>9
      <4> QED BY <4>1, <4>2, <2>6, <2>11
    <3>4. s.r = IF above = {} THEN right ELSE Min(above) - 1
      <4>1. CASE s.r = right
        <5>1. above = {}
          BY <4>1, <3>3, <1>1, <1>5, <1>7
        <5> QED BY <4>1, <5>1
      <4>2. CASE s.r # right
        <5>1. s.r + 1 \in above
          BY <4>2, <1>1, <1>3, <1>5, <1>7
        <5>2. above \in SUBSET Int
          BY <1>5, <1>7
        <5>3. Min(above) = s.r + 1
          BY <5>1, <5>2, <3>3, MinIs
        <5> QED BY <5>1, <5>3, <1>1
      <4> QED BY <4>1, <4>2
    <3>5. found = Region(stabs, left, right, type, addr)
      BY <2>9, <3>2, <3>4 DEF Region, above, below
    <3>6. Below(stabs, left, right, type, addr) # {} /\ OfType(stabs, type, left, right) # {}
      BY <2>6, <1>12 DEF below, typed
    <3> HIDE DEF found
    <3>7. Answers(stabs, left, right, type, addr, found)
      BY <3>5, <3>6 DEF Answers
    <3> QED BY <3>7 DEF found
  <2>12. CASE ~(stabs[b].value <= addr)
    <3>1. stabs[b].value < s.addr
      BY <2>6, <1>1, <1>2
    <3>2. Follows(stabs, left, right, type, addr, b)
      <4>1. \A a \in addr .. stabs[b].value : a \in {stabs[j].value : j \in typed}
        <5> SUFFICES ASSUME NEW a \in addr .. stabs[b].value PROVE \E j \in typed : stabs[j].value = a
          OBVIOUS
        <5>1. a \in addr .. s.addr - 1
          BY <3>1, <2>6, <1>1
        <5> QED BY <5>1, <1>4
      <4>2. addr .. stabs[b].value \subseteq {stabs[j].value : j \in typed}
        BY <4>1
      <4>3. stabs[b].value > addr
        BY <2>6, <2>12
      <4> QED BY <4>2, <4>3 DEF Follows, typed
    <3> DEFINE later == {j \in typed : b < j}
    <3>3. s.r = IF later = {} THEN right ELSE Min(later) - 1
      <4>1. CASE s.r = right
        <5>1. later = {}
          BY <4>1, <2>10, <1>1, <1>5
        <5> QED BY <4>1, <5>1
      <4>2. CASE s.r # right
        <5>1. s.r + 1 \in later
          BY <4>2, <2>6, <1>1
        <5>2. later \in SUBSET Int /\ \A j \in later : s.r + 1 <= j
          BY <2>10, <1>5
        <5> HIDE DEF later
        <5>3. Min(later) = s.r + 1
          BY <5>1, <5>2, MinIs
        <5> QED BY <5>1, <5>3, <1>1
      <4> QED BY <4>1, <4>2
    <3>4. found = UpToNext(stabs, left, right, type, b)
      BY <2>9, <3>3 DEF UpToNext, typed
    <3> QED BY <3>2, <3>4, <2>6, <1>12 DEF Answers, below, typed
  <2> QED BY <2>11, <2>12
<1>13. CASE below = {}
  <2>1. \A k \in typed : addr < stabs[k].value
    BY <1>13, <1>5, <1>6
  <2>2. s.addr = addr
    <3> SUFFICES ASSUME s.addr # addr PROVE FALSE
      OBVIOUS
    <3>1. addr \in addr .. s.addr - 1
      BY <1>1
    <3> QED BY <3>1, <2>1, <1>4
  <2>3. \A k \in typed : s.r + 1 <= k
    BY <2>1, <2>2, <1>1, <1>2, <1>5
  <2>4. CASE typed = {}
    <3>1. ~s.any
      BY <2>4, <1>1
    <3>2. found = <<s.left, s.left - 1>>
      BY <3>1 DEF Found
    <3>3. found[1] > found[2]
      BY <3>2, <1>1
    <3> QED BY <3>3, <2>4, <1>13 DEF Answers, below, typed
  <2>5. CASE typed # {}
    <3>1. PICK k \in typed : TRUE
      BY <2>5
    <3>2. s.r + 1 \in typed
      BY <3>1, <2>3, <1>1, <1>5
    <3>3. typed \in SUBSET Int
      BY <1>5
    <3>4. Min(typed) = s.r + 1
      BY <3>2, <3>3, <2>3, MinIs
    <3>5. s.left = left
      BY <2>1, <2>2, <1>1, <1>5
    <3>6. s.any
      BY <3>1, <2>3, <1>1, <1>5
    <3>7. left <= s.r + 1
      BY <1>1
    <3>8. found = <<Min({left, s.r}), s.r>>
      <4>1. CASE s.r < left
        <5>1. found = <<s.r, s.r>>
          BY <4>1, <3>5, <3>6, <1>1 DEF Found
        <5>2. s.r \in {left, s.r} /\ {left, s.r} \in SUBSET Int /\ \A j \in {left, s.r} : s.r <= j
          BY <4>1, <1>1
        <5>3. Min({left, s.r}) = s.r
          BY <5>2, MinIs
        <5> QED BY <5>1, <5>3
      <4>2. CASE ~(s.r < left)
        <5>1. OfType(stabs, type, s.left, s.right) = {}
          BY <2>3, <1>1, <1>5, <1>8
        <5>2. found = <<Max({left}), s.r>>
          BY <4>2, <5>1, <3>5, <3>6, <1>1 DEF Found
        <5>3. Max({left}) = left
          <6>1. left \in {left} /\ {left} \in SUBSET Int /\ \A j \in {left} : j <= left
            OBVIOUS
          <6> QED BY <6>1, MaxIs
        <5>4. left \in {left, s.r} /\ {left, s.r} \in SUBSET Int /\ \A j \in {left, s.r} : left <= j
          BY <4>2, <1>1
        <5>5. Min({left, s.r}) = left
          BY <5>4, MinIs
        <5> QED BY <5>2, <5>3, <5>5
      <4> QED BY <4>1, <4>2
    <3>9. Min(typed) - 1 = s.r
      BY <3>4, <1>1
    <3>10. found = <<Min({left, Min(typed) - 1}), Min(typed) - 1>>
      BY <3>8, <3>9
    <3> QED BY <3>10, <2>5, <1>13 DEF Answers, below, typed
  <2> QED BY <2>4, <2>5
<1> QED BY <1>12, <1>13

\* What stab_binsearch answers, for every table whose stabs of the type are in the
\* order of their values, every range of it and every address.
THEOREM SearchExactCorrect ==
  ASSUME NEW stabs, NEW type, NEW left \in Int, NEW right \in Int, NEW addr \in Int,
         left <= right + 1, Sorted(stabs, type, left, right)
  PROVE  SearchExact(stabs, left, right, type, addr)
<1> DEFINE s == [l |-> left, r |-> right, left |-> left, right |-> right, any |-> FALSE,
                 addr |-> addr]
           t == Narrowed(stabs, type, s)
<1>1. \A k \in OfType(stabs, type, left, right) : k \in Int /\ left <= k /\ k <= right
  BY DEF OfType
<1>2. Bracket(stabs, type, left, right, addr, s)
  BY <1>1 DEF Bracket, Narrowing
<1>3. stab_binsearch(stabs, left, right, type, addr) = Found(stabs, type, t)
  BY DEF stab_binsearch
<1> HIDE DEF s
<1>4. Bracket(stabs, type, left, right, addr, t) /\ t.l > t.r
  BY <1>2, NarrowedCloses
<1> HIDE DEF t
<1>5. Answers(stabs, left, right, type, addr, Found(stabs, type, t))
  BY <1>4, FoundIsRegion
<1> QED BY <1>3, <1>5 DEF SearchExact, Answers

\* Where no stab follows addr without a gap, the answer is the header's region.
LEMMA SearchFindsRegion ==
  ASSUME NEW stabs, NEW type, NEW left \in Int, NEW right \in Int, NEW addr \in Int,
         left <= right + 1, Sorted(stabs, type, left, right),
         Below(stabs, left, right, type, addr) # {}, ~Close(stabs, left, right, type, addr)
  PROVE  stab_binsearch(stabs, left, right, type, addr) = Region(stabs, left, right, type, addr)
<1>1. SearchExact(stabs, left, right, type, addr)
  BY SearchExactCorrect
<1>2. ASSUME NEW k \in OfType(stabs, type, left, right), Follows(stabs, left, right, type, addr, k)
      PROVE  FALSE
  <2>1. stabs[k].value \in Int
    BY DEF Sorted
  <2>2. addr \in addr .. stabs[k].value /\ addr + 1 \in addr .. stabs[k].value
    BY <2>1, <1>2 DEF Follows
  <2> QED BY <2>2, <1>2 DEF Follows, Close
<1>3. \/ stab_binsearch(stabs, left, right, type, addr) = Region(stabs, left, right, type, addr)
      \/ \E k \in OfType(stabs, type, left, right) : Follows(stabs, left, right, type, addr, k)
  BY <1>1 DEF SearchExact
<1> QED BY <1>2, <1>3

\* A region of the table: a stab of the type that begins at or below addr, and
\* everything behind it up to the next one of the type.
IsRegion(stabs, left, right, type, addr, region) ==
    /\ region[1] \in Nat /\ region[2] \in Int
    /\ left <= region[1] /\ region[1] <= region[2] /\ region[2] <= right
    /\ stabs[region[1]].type = type /\ stabs[region[1]].value \in Int
    /\ stabs[region[1]].value <= addr
    /\ \A k \in left .. region[2] : region[1] < k => stabs[k].type # type
    /\ region[2] = right \/ stabs[region[2] + 1].type = type

LEMMA RegionFacts ==
  ASSUME NEW stabs, NEW type, NEW left \in Nat, NEW right \in Int, NEW addr \in Int,
         Sorted(stabs, type, left, right), Below(stabs, left, right, type, addr) # {}
  PROVE  IsRegion(stabs, left, right, type, addr, Region(stabs, left, right, type, addr))
<1> DEFINE typed == OfType(stabs, type, left, right)
           below == Below(stabs, left, right, type, addr)
           above == Above(stabs, left, right, type, addr)
           region == Region(stabs, left, right, type, addr)
           b == Max(below)
           e == IF above = {} THEN right ELSE Min(above) - 1
<1>1. \A k : k \in typed <=> k \in Int /\ left <= k /\ k <= right /\ stabs[k].type = type
  BY DEF OfType
<1>2. \A j, k \in typed : stabs[j].value \in Int /\ (j <= k => stabs[j].value <= stabs[k].value)
  BY DEF Sorted
<1>3. \A k : k \in below <=> k \in typed /\ stabs[k].value <= addr
  BY DEF Below
<1>4. \A k : k \in above <=> k \in typed /\ ~(stabs[k].value <= addr)
  BY <1>3 DEF Above
<1>5. region = <<b, e>>
  BY DEF Region
<1> HIDE DEF typed, below, above
<1>6. b \in below /\ b \in Int /\ \A k \in below : k <= b
  <2>1. below \in SUBSET (left .. right) /\ below # {}
    BY <1>1, <1>3 DEF below
  <2>2. left \in Int /\ right \in Int
    OBVIOUS
  <2> QED BY <2>1, <2>2, MaxOfInterval
<1> HIDE DEF b
<1>7. b \in Nat /\ left <= b /\ b <= right /\ stabs[b].type = type
      /\ stabs[b].value \in Int /\ stabs[b].value <= addr
  BY <1>1, <1>2, <1>3, <1>6
<1>8. \A k \in above : b < k /\ k \in Nat /\ k <= right
  <2> SUFFICES ASSUME NEW k \in above PROVE b < k /\ k \in Nat /\ k <= right
    OBVIOUS
  <2>1. k \in typed /\ k \in Nat /\ k <= right /\ stabs[k].value \in Int /\ addr < stabs[k].value
    BY <1>1, <1>2, <1>4
  <2>2. b \in typed
    BY <1>3, <1>6
  <2>3. k <= b => stabs[k].value <= stabs[b].value
    BY <2>1, <2>2, <1>2
  <2> QED BY <2>1, <2>3, <1>7
<1>9. /\ e \in Int /\ b <= e /\ e <= right
      /\ \A k \in above : e < k
      /\ e = right \/ e + 1 \in above
  <2>1. CASE above = {}
    BY <2>1, <1>7
  <2>2. CASE above # {}
    <3>1. above \in SUBSET Nat
      BY <1>8
    <3> DEFINE m == Min(above)
    <3>2. m \in above /\ \A k \in above : m <= k
      BY <2>2, <3>1, MinOfNats
    <3>3. e = m - 1
      BY <2>2
    <3> HIDE DEF m, e
    <3>4. m \in Nat /\ b < m /\ m <= right /\ \A k \in above : k \in Nat
      BY <3>2, <1>8
    <3>5. e + 1 = m
      BY <3>3, <3>4
    <3> QED BY <3>2, <3>3, <3>4, <3>5, <1>7
  <2> QED BY <2>1, <2>2
<1> HIDE DEF e
<1>10. ASSUME NEW k \in left .. e, b < k PROVE stabs[k].type # type
  <2>1. SUFFICES ASSUME k \in typed PROVE FALSE
    BY <1>1, <1>9
  <2>2. k \in above
    BY <2>1, <1>3, <1>4, <1>6, <1>7, <1>10
  <2> QED BY <2>2, <1>9
<1>11. e = right \/ stabs[e + 1].type = type
  BY <1>1, <1>4, <1>9
<1> QED BY <1>5, <1>7, <1>9, <1>10, <1>11 DEF IsRegion

\* The parameters of a function are counted.
LEMMA ArgumentsCounted ==
  ASSUME NEW stabs, NEW f \in Nat, NEW g \in Int, f < g, stabs[f].type = N_FUN,
         \E k \in f + 1 .. g : stabs[k].type = N_SLINE,
         \A k \in f + 1 .. g : stabs[k].type = N_PSYM =>
           \A j \in f + 1 .. k : stabs[j].type = N_PSYM
  PROVE  Arguments(stabs, f, g) = Cardinality(OfType(stabs, N_PSYM, f, g))
<1> DEFINE psyms == OfType(stabs, N_PSYM, f, g)
           rest == {k \in f + 1 .. g - 1 : stabs[k].type # N_PSYM}
<1>1. \A k : k \in psyms <=> k \in f + 1 .. g /\ stabs[k].type = N_PSYM
  BY DEF OfType, N_PSYM, N_FUN
<1>2. stabs[g].type # N_PSYM
  BY DEF N_PSYM, N_SLINE
<1> HIDE DEF psyms
<1>3. CASE rest = {}
  <2>1. psyms = f + 1 .. g - 1
    <3>1. ASSUME NEW k \in psyms PROVE k \in f + 1 .. g - 1
      BY <3>1, <1>1, <1>2
    <3>2. ASSUME NEW k \in f + 1 .. g - 1 PROVE k \in psyms
      BY <3>2, <1>1, <1>3
    <3> QED BY <3>1, <3>2
  <2>2. Cardinality(f + 1 .. g - 1) = g - 1 - f
    BY FS_Interval
  <2> QED BY <2>1, <2>2, <1>3 DEF Arguments, psyms
<1>4. CASE rest # {}
  <2> DEFINE m == Min(rest)
  <2>1. m \in rest /\ \A k \in rest : m <= k
    <3>1. rest \in SUBSET Nat
      OBVIOUS
    <3> HIDE DEF rest
    <3> QED BY <3>1, <1>4, MinOfNats
  <2> HIDE DEF m
  <2>2. m \in f + 1 .. g - 1 /\ stabs[m].type # N_PSYM
    BY <2>1
  <2>3. \A k \in f + 1 .. m - 1 : stabs[k].type = N_PSYM
    BY <2>1, <2>2
  <2>4. psyms = f + 1 .. m - 1
    <3>1. ASSUME NEW k \in psyms PROVE k \in f + 1 .. m - 1
      BY <3>1, <1>1, <2>2
    <3>2. ASSUME NEW k \in f + 1 .. m - 1 PROVE k \in psyms
      BY <3>2, <1>1, <2>2, <2>3
    <3> QED BY <3>1, <3>2
  <2>5. Cardinality(f + 1 .. m - 1) = m - 1 - f
    BY <2>2, FS_Interval
  <2>6. Arguments(stabs, f, g) = m - 1 - f
    BY <1>4 DEF Arguments, m
  <2> QED BY <2>4, <2>5, <2>6 DEF psyms
<1> QED BY <1>3, <1>4

\* debuginfo_eip attributes every address in a function to this function, its file
\* and its parameters, and to its line if no other stab follows the line's, for
\* every table a compiler lays out.
THEOREM InfoExactCorrect ==
  ASSUME NEW stabs, NEW addr \in Int, Layout(stabs)
  PROVE  InfoExact(stabs, addr)
<1> DEFINE n    == Cardinality(DOMAIN stabs)
           file == Region(stabs, 0, n - 1, N_SO, addr)
           fun  == Region(stabs, file[1], file[2], N_FUN, addr)
           off  == addr - stabs[fun[1]].value
           line == Region(stabs, fun[1], fun[2], N_SLINE, off)
           info == debuginfo_eip(stabs, addr)
           name == stabs[Max({file[1]} \cup OfType(stabs, N_SOL, file[1], line[1]))].strx
<1> SUFFICES ASSUME Below(stabs, 0, n - 1, N_SO, addr) # {},
                    Below(stabs, file[1], file[2], N_FUN, addr) # {},
                    ~Close(stabs, 0, n - 1, N_SO, addr),
                    ~Close(stabs, file[1], file[2], N_FUN, addr),
                    ~Close(stabs, fun[1], fun[2], N_SLINE, off)
             PROVE  /\ info.ret = 0
                    /\ info.fn = stabs[fun[1]].strx /\ info.fn_addr = stabs[fun[1]].value
                    /\ info.file = name
                    /\ info.narg = Cardinality(OfType(stabs, N_PSYM, fun[1], fun[2]))
                    /\ line[1] = line[2] => info.line = stabs[line[1]].desc
  BY DEF InfoExact
<1>1. n \in Nat \ {0} /\ Sorted(stabs, N_SO, 0, n - 1) /\ Sorted(stabs, N_FUN, 0, n - 1)
  BY DEF Layout
<1>2. stabs[0].type # N_SO /\ \A k \in 0 .. n - 1 : stabs[k].type = N_SO => stabs[k].value # 0
  BY DEF Layout
<1>3. \A f \in 0 .. n - 1 : stabs[f].type = N_FUN =>
        /\ \E k \in f + 1 .. n - 1 :
             /\ stabs[k].type = N_SLINE /\ stabs[k].value = 0
             /\ \A j \in f + 1 .. k : stabs[j].type # N_FUN /\ stabs[j].type # N_SO
        /\ \A g \in f .. n - 1 : (\A j \in f + 1 .. g : stabs[j].type # N_FUN) =>
             /\ Sorted(stabs, N_SLINE, f, g)
             /\ stabs[g].type = N_PSYM => \A j \in f + 1 .. g : stabs[j].type = N_PSYM
  BY DEF Layout
<1> HIDE DEF n
<1>4. /\ file[1] \in Nat /\ file[2] \in Int /\ file[1] <= file[2] /\ file[2] <= n - 1
      /\ stabs[file[1]].type = N_SO
      /\ \A k \in 0 .. file[2] : file[1] < k => stabs[k].type # N_SO
      /\ file[2] = n - 1 \/ stabs[file[2] + 1].type = N_SO
  <2>1. IsRegion(stabs, 0, n - 1, N_SO, addr, file)
    BY <1>1, RegionFacts
  <2> HIDE DEF file
  <2> QED BY <2>1 DEF IsRegion
<1>5. stab_binsearch(stabs, 0, n - 1, N_SO, addr) = file
  BY <1>1, SearchFindsRegion
<1> HIDE DEF file
<1>6. file[1] # 0 /\ stabs[file[1]].value # 0
  <2>1. file[1] \in 0 .. n - 1
    BY <1>1, <1>4
  <2> QED BY <2>1, <1>2, <1>4
<1>7. Sorted(stabs, N_FUN, file[1], file[2])
  BY <1>1, <1>4 DEF Sorted, OfType
<1>8. /\ fun[1] \in Nat /\ fun[2] \in Int /\ file[1] <= fun[1] /\ fun[1] <= fun[2]
      /\ fun[2] <= file[2] /\ stabs[fun[1]].type = N_FUN
      /\ stabs[fun[1]].value \in Int /\ stabs[fun[1]].value <= addr
      /\ \A k \in file[1] .. fun[2] : fun[1] < k => stabs[k].type # N_FUN
      /\ fun[2] = file[2] \/ stabs[fun[2] + 1].type = N_FUN
  <2>1. IsRegion(stabs, file[1], file[2], N_FUN, addr, fun)
    BY <1>4, <1>7, RegionFacts
  <2> HIDE DEF fun
  <2> QED BY <2>1 DEF IsRegion
<1>9. stab_binsearch(stabs, file[1], file[2], N_FUN, addr) = fun
  BY <1>4, <1>7, SearchFindsRegion
<1> HIDE DEF fun
<1>10. fun[1] \in 0 .. n - 1 /\ fun[2] \in fun[1] .. n - 1 /\ off \in Int /\ 0 <= off
  BY <1>1, <1>4, <1>8
<1>11. \A j \in fun[1] + 1 .. fun[2] : stabs[j].type # N_FUN /\ stabs[j].type # N_SO
  BY <1>4, <1>8
<1>12. PICK k \in fun[1] + 1 .. fun[2] : stabs[k].type = N_SLINE /\ stabs[k].value = 0
  <2>1. PICK k \in fun[1] + 1 .. n - 1 :
          /\ stabs[k].type = N_SLINE /\ stabs[k].value = 0
          /\ \A j \in fun[1] + 1 .. k : stabs[j].type # N_FUN /\ stabs[j].type # N_SO
    BY <1>3, <1>8, <1>10
  <2>2. k <= fun[2]
    <3> SUFFICES ASSUME fun[2] < k PROVE FALSE
      BY <1>10, <2>1
    <3>1. fun[2] + 1 \in fun[1] + 1 .. k
      BY <2>1, <1>8
    <3>2. stabs[fun[2] + 1].type # N_FUN /\ stabs[fun[2] + 1].type # N_SO
      BY <3>1, <2>1
    <3>3. fun[2] = file[2] /\ file[2] = n - 1
      BY <3>2, <1>4, <1>8
    <3> QED BY <3>3, <2>1, <1>1
  <2> QED BY <2>1, <2>2, <1>10
<1>13. fun[1] < fun[2] /\ k \in Nat
  BY <1>12, <1>10
<1>14. Sorted(stabs, N_SLINE, fun[1], fun[2])
  BY <1>3, <1>8, <1>10, <1>11
<1> HIDE DEF off
<1>15. Below(stabs, fun[1], fun[2], N_SLINE, off) # {}
  <2>1. k \in OfType(stabs, N_SLINE, fun[1], fun[2])
    BY <1>10, <1>12 DEF OfType
  <2>2. k \in Below(stabs, fun[1], fun[2], N_SLINE, off)
    BY <2>1, <1>10, <1>12 DEF Below
  <2> QED BY <2>2
<1>16. /\ line[1] \in Nat /\ line[2] \in Int /\ fun[1] <= line[1] /\ line[1] <= line[2]
       /\ line[2] <= fun[2]
  <2>1. IsRegion(stabs, fun[1], fun[2], N_SLINE, off, line)
    BY <1>8, <1>10, <1>14, <1>15, RegionFacts
  <2> HIDE DEF line
  <2> QED BY <2>1 DEF IsRegion
<1>17. stab_binsearch(stabs, fun[1], fun[2], N_SLINE, off) = line
  BY <1>10, <1>14, <1>15, SearchFindsRegion
<1> HIDE DEF line
<1>18. Arguments(stabs, fun[1], fun[2]) = Cardinality(OfType(stabs, N_PSYM, fun[1], fun[2]))
  <2>1. \A g \in fun[1] + 1 .. fun[2] : stabs[g].type = N_PSYM =>
          \A j \in fun[1] + 1 .. g : stabs[j].type = N_PSYM
    <3> SUFFICES ASSUME NEW g \in fun[1] + 1 .. fun[2], stabs[g].type = N_PSYM
                 PROVE  \A j \in fun[1] + 1 .. g : stabs[j].type = N_PSYM
      OBVIOUS
    <3>1. g \in fun[1] .. n - 1
      BY <1>1, <1>8, <1>10
    <3>2. \A j \in fun[1] + 1 .. g : j \in fun[1] + 1 .. fun[2]
      BY <1>8
    <3>3. \A j \in fun[1] + 1 .. g : stabs[j].type # N_FUN
      BY <3>2, <1>11
    <3> QED BY <3>1, <3>3, <1>3, <1>8, <1>10
  <2> QED BY <2>1, <1>8, <1>12, <1>13, ArgumentsCounted
<1> DEFINE names == FileStab(stabs, file[1], line[1])
<1>19. names = {file[1]} \cup OfType(stabs, N_SOL, file[1], line[1])
  <2>1. \A j \in file[1] .. line[1] : stabs[j].type = N_SO <=> j = file[1]
    BY <1>4, <1>8, <1>16
  <2>2. file[1] \in file[1] .. line[1]
    BY <1>4, <1>8, <1>16
  <2> QED BY <2>1, <2>2, <1>6 DEF FileStab, OfType, N_SO, N_SOL
<1>20. names # {}
  BY <1>19
<1>21. info = [NoInfo(addr) EXCEPT
                 !.fn = stabs[fun[1]].strx, !.fn_addr = stabs[fun[1]].value, !.ret = 0,
                 !.line = stabs[line[2]].desc, !.file = stabs[Max(names)].strx,
                 !.narg = Cardinality(OfType(stabs, N_PSYM, fun[1], fun[2]))]
  <2>1. info = FunctionInfo(stabs, addr, file, fun)
    BY <1>5, <1>6, <1>9 DEF debuginfo_eip, n
  <2>2. @ = LineInfo(stabs, file, fun, line,
              [NoInfo(addr) EXCEPT !.fn = stabs[fun[1]].strx, !.fn_addr = stabs[fun[1]].value])
    BY <1>8, <1>17 DEF FunctionInfo, off
  <2>3. ~(line[1] > line[2])
    BY <1>16
  <2> QED BY <2>1, <2>2, <2>3, <1>13, <1>18, <1>20 DEF LineInfo
<1>22. name = stabs[Max(names)].strx
  BY <1>19
<1> HIDE DEF names, info, name
<1> QED BY <1>21, <1>22 DEF NoInfo
=============================================================================
