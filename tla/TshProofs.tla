----------------------------- MODULE TshProofs ------------------------------
(***************************************************************************)
(* Proofs about the shell for every number of slots, every set of pids and *)
(* any keyboard: the type invariant; that the job list never holds a child *)
(* that was already reaped, which is what blocking SIGCHLD around fork and *)
(* addjob is for; that a job marked ST is stopped; that no child is lost;  *)
(* and, without the fg builtin, that one job at most is in the foreground  *)
(* and jobs change state along the diagram of the source's header.         *)
(***************************************************************************)
EXTENDS Tsh, NatLemmas, SequenceTheorems, FiniteSetTheorems

-----------------------------------------------------------------------------
(***************************************************************************)
(* The job list helpers.                                                   *)
(***************************************************************************)

Tables == [Slots -> JobType]

\* The search of the array finds a slot of the set, or nothing.
LEMMA FirstSlotType ==
  ASSUME NEW S \in SUBSET Slots
  PROVE  /\ S = {} => FirstSlot(S) = NoSlot
         /\ S # {} => FirstSlot(S) \in S
         /\ FirstSlot(S) \in Slots \cup {NoSlot}
<1>1. S \in SUBSET Nat
  BY JobsAssumption DEF Slots
<1>2. CASE S = {}
  BY <1>2 DEF FirstSlot
<1>3. CASE S # {}
  <2>1. Min(S) \in S
    BY <1>1, <1>3, MinOfNats
  <2> QED BY <2>1, <1>3 DEF FirstSlot
<1> QED BY <1>2, <1>3

LEMMA MaxjidType ==
  ASSUME NEW t \in Tables
  PROVE  maxjid(t) \in Nat
<1> DEFINE f == [i \in 1 .. MAXJOBS |-> t[i].jid]
<1>1. f \in [1 .. MAXJOBS -> Nat]
  BY DEF Tables, JobType, Slots
<1>2. {f[i] : i \in 1 .. MAXJOBS} = {t[i].jid : i \in Slots}
  BY DEF Slots
<1>3. Max({0} \cup {f[i] : i \in 1 .. MAXJOBS}) \in Nat
  <2> HIDE DEF f
  <2> QED BY <1>1, JobsAssumption, MaxOfArray
<1> QED BY <1>2, <1>3 DEF maxjid

\* The table u is t, but for one empty slot that now holds the job of p.
Added(t, u, p, s) ==
  \E k \in Slots : \A i \in Slots :
    \/ u[i] = t[i]
    \/ i = k /\ p # NoPid /\ t[i].pid = NoPid /\ u[i].pid = p /\ u[i].state = s

\* addjob changes at most one slot, an empty one; it finds one if there is one.
LEMMA AddjobLemma ==
  ASSUME NEW t \in Tables, NEW n \in Nat, NEW p \in Pids \cup {NoPid}, NEW s \in {FG, BG}
  PROVE  LET r == addjob(t, n, p, s)
         IN  /\ r.tbl \in Tables
             /\ r.next \in Nat
             /\ Added(t, r.tbl, p, s)
             /\ (p # NoPid /\ \E k \in Slots : t[k].pid = NoPid)
                  => \E k \in Slots : r.tbl[k].pid = p
<1> DEFINE i == FirstSlot(SlotsOf(t, NoPid))
<1>1. /\ i \in Slots \cup {NoSlot}
      /\ SlotsOf(t, NoPid) # {} => i \in SlotsOf(t, NoPid)
      /\ SlotsOf(t, NoPid) = {} => i = NoSlot
  <2>1. SlotsOf(t, NoPid) \in SUBSET Slots
    BY DEF SlotsOf
  <2> QED BY <2>1, FirstSlotType
<1>2. 1 \in Slots /\ NoSlot \notin Slots
  BY JobsAssumption DEF Slots, NoSlot
<1>a. i # NoSlot => t[i].pid = NoPid
  BY <1>1 DEF SlotsOf
<1>b. (\E k \in Slots : t[k].pid = NoPid) => i # NoSlot
  BY <1>1, <1>2 DEF SlotsOf
<1>3. CASE p = NoPid \/ i = NoSlot
  <2>1. addjob(t, n, p, s) = [tbl |-> t, next |-> n]
    BY <1>3 DEF addjob
  <2> HIDE DEF i
  <2> QED BY <2>1, <1>2, <1>3, <1>b DEF Added
<1>4. CASE ~(p = NoPid \/ i = NoSlot)
  <2> DEFINE job == [pid |-> p, jid |-> n, state |-> s]
             tbl == [t EXCEPT ![i] = job]
             next == IF n + 1 > MAXJOBS THEN 1 ELSE n + 1
  <2>1. addjob(t, n, p, s) = [tbl |-> tbl, next |-> next]
    BY <1>4 DEF addjob
  <2>2. i \in Slots
    BY <1>1, <1>4
  <2>3. job \in JobType
    BY DEF JobType, FG, BG
  <2>4. tbl \in Tables
    <3> HIDE DEF job, i
    <3> QED BY <2>3 DEF Tables
  <2>5. next \in Nat
    BY JobsAssumption
  <2>6. \A j \in Slots : tbl[j] = t[j] \/ (j = i /\ tbl[j].pid = p /\ tbl[j].state = s)
    <3>1. \A j \in Slots : tbl[j] = IF j = i THEN job ELSE t[j]
      <4> HIDE DEF job, i
      <4> QED BY DEF Tables
    <3> QED BY <3>1
  <2>7. tbl[i].pid = p
    <3> HIDE DEF i
    <3> QED BY <2>2, <2>3 DEF Tables
  <2> QED
    <3> HIDE DEF tbl, next, i
    <3> QED BY <1>4, <1>a, <2>1, <2>2, <2>4, <2>5, <2>6, <2>7 DEF Added
<1> QED BY <1>3, <1>4

\* deletejob of a pid listed at most once leaves it nowhere, and clears at most
\* that slot.
LEMMA DeletejobLemma ==
  ASSUME NEW t \in Tables, NEW n \in Nat, NEW p \in Pids,
         \A i, j \in Slots : t[i].pid = p /\ t[j].pid = p => i = j
  PROVE  LET r == deletejob(t, n, p)
         IN  /\ r.tbl \in Tables
             /\ r.next \in Nat
             /\ \A i \in Slots : /\ r.tbl[i].pid # p
                                 /\ r.tbl[i] = t[i] \/ (t[i].pid = p /\ r.tbl[i] = clearjob)
<1> DEFINE S == SlotsOf(t, p)
           k == getjobpid(t, p)
<1>1. p # NoPid /\ k = FirstSlot(S) /\ S \in SUBSET Slots
  BY JobsAssumption DEF getjobpid, SlotsOf
<1>2. (S = {} => k = NoSlot) /\ (S # {} => k \in S)
  <2> HIDE DEF S, k
  <2> QED BY <1>1, FirstSlotType
<1>3. NoSlot \notin Slots
  BY DEF NoSlot, Slots
<1>4. CASE S = {}
  <2>1. deletejob(t, n, p) = [tbl |-> t, next |-> n]
    BY <1>2, <1>4 DEF deletejob
  <2>2. \A i \in Slots : t[i].pid # p
    BY <1>4 DEF SlotsOf
  <2> QED BY <2>1, <2>2
<1>5. CASE S # {}
  <2> DEFINE cleared == [t EXCEPT ![k] = clearjob]
  <2>1. k \in Slots /\ t[k].pid = p /\ k # NoSlot
    BY <1>2, <1>3, <1>5 DEF SlotsOf
  <2>2. deletejob(t, n, p) = [tbl |-> cleared, next |-> maxjid(cleared) + 1]
    BY <2>1 DEF deletejob
  <2>3. clearjob \in JobType /\ clearjob.pid # p
    BY <1>1 DEF clearjob, JobType, UNDEF
  <2> HIDE DEF k, S
  <2>4. cleared \in Tables
    BY <2>3 DEF Tables
  <2>5. \A i \in Slots : cleared[i] = IF i = k THEN clearjob ELSE t[i]
    BY DEF Tables
  <2>6. \A i \in Slots : /\ cleared[i].pid # p
                         /\ cleared[i] = t[i] \/ (t[i].pid = p /\ cleared[i] = clearjob)
    BY <2>1, <2>3, <2>5
  <2>7. maxjid(cleared) + 1 \in Nat
    BY <2>4, MaxjidType
  <2> HIDE DEF cleared
  <2> QED BY <2>2, <2>4, <2>6, <2>7
<1> QED BY <1>4, <1>5

\* fgpid and getjobpid return a pid or none, a slot or none.
LEMMA FgpidType ==
  ASSUME NEW t \in Tables
  PROVE  fgpid(t) \in Pids \cup {NoPid}
<1> DEFINE S == {i \in Slots : t[i].state = FG}
<1>1. S \in SUBSET Slots
  OBVIOUS
<1>2. FirstSlot(S) \in Slots \cup {NoSlot}
  <2> HIDE DEF S
  <2> QED BY <1>1, FirstSlotType
<1>3. CASE FirstSlot(S) = NoSlot
  BY <1>3 DEF fgpid
<1>4. CASE FirstSlot(S) # NoSlot
  <2>1. FirstSlot(S) \in Slots
    BY <1>2, <1>4
  <2>2. t[FirstSlot(S)].pid \in Pids \cup {NoPid}
    <3> HIDE DEF S
    <3> QED BY <2>1 DEF Tables, JobType
  <2>3. fgpid(t) = t[FirstSlot(S)].pid
    BY <1>4 DEF fgpid
  <2> QED BY <2>2, <2>3
<1> QED BY <1>3, <1>4

LEMMA GetjobpidType ==
  ASSUME NEW t \in Tables, NEW p \in Pids \cup {NoPid}
  PROVE  getjobpid(t, p) \in Slots \cup {NoSlot}
<1>1. SlotsOf(t, p) \in SUBSET Slots
  BY DEF SlotsOf
<1> QED BY <1>1, FirstSlotType DEF getjobpid

LEMMA GetjobjidType ==
  ASSUME NEW t \in Tables, NEW j \in Nat
  PROVE  getjobjid(t, j) \in Slots \cup {NoSlot}
<1>1. {i \in Slots : t[i].jid = j} \in SUBSET Slots
  OBVIOUS
<1> QED BY <1>1, FirstSlotType DEF getjobjid

-----------------------------------------------------------------------------
(***************************************************************************)
(* Type correctness.                                                       *)
(***************************************************************************)
HandlerType == [pc : {"idle", "start", "act"}, pid : Pids \cup {NoPid}, why : ChildStates]

USE DEF UNDEF, FG, BG, ST, NoSlot

LEMMA StaticTypes ==
  /\ Idle \in HandlerType
  /\ clearjob \in JobType
  /\ initjobs \in Tables
  /\ NoPid \notin Pids
  /\ "CHLD" \in Signals /\ "INT" \in Signals /\ "TSTP" \in Signals
BY JobsAssumption
   DEF Idle, HandlerType, ChildStates, Zombies, clearjob, JobType, initjobs, Tables, Signals

\* The handler that returns leaves the rest of the stack as it was.
LEMMA ReturnType ==
  ASSUME TypeOK, NEW s \in Signals, active # <<>>, Return(s)
  PROVE  /\ active' \in Seq(Signals)
         /\ Len(active') = Len(active) - 1
         /\ \A i \in 1 .. Len(active) - 1 : active'[i] = active[i]
         /\ h' \in [Signals -> HandlerType]
         /\ pc' \in {pc, "test"}
<1>1. active \in Seq(Signals) /\ Len(active) \in Nat \ {0}
  BY EmptySeq DEF TypeOK
<1>2. \A i \in 1 .. Len(active) - 1 : active[i] \in Signals
  BY <1>1, ElementOfSeq
<1>3. /\ SubSeq(active, 1, Len(active) - 1) \in Seq(Signals)
      /\ Len(SubSeq(active, 1, Len(active) - 1)) = Len(active) - 1
      /\ \A i \in 1 .. Len(active) - 1 : SubSeq(active, 1, Len(active) - 1)[i] = active[i]
  <2> DEFINE n == Len(active) - 1
             q == SubSeq(active, 1, n)
  <2>1. n \in Nat
    BY <1>1
  <2>2. \A i \in 1 .. n : active[i] \in Signals
    BY <1>2
  <2> HIDE DEF n
  <2>3. /\ q \in Seq(Signals)
        /\ Len(q) = IF 1 <= n THEN n - 1 + 1 ELSE 0
        /\ \A i \in 1 .. n - 1 + 1 : q[i] = active[1 + i - 1]
    BY <2>1, <2>2, SubSeqProperties, Z3
  <2> HIDE DEF q
  <2>4. Len(q) = n /\ \A i \in 1 .. n : q[i] = active[i]
    BY <2>1, <2>3
  <2> QED BY <2>3, <2>4 DEF n, q
<1>4. h' \in [Signals -> HandlerType]
  <2>1. h' = [h EXCEPT ![s] = Idle] /\ h \in [Signals -> HandlerType]
    BY DEF Return, TypeOK, HandlerType
  <2> QED BY <2>1, StaticTypes
<1> QED BY <1>3, <1>4 DEF Return

LEMMA NoLocalsType ==
  ASSUME NoLocals
  PROVE  cmd' \in {"fg", "bg"} /\ fpid' \in Pids \cup {NoPid} /\ slot' \in Slots \cup {NoSlot}
BY DEF NoLocals

LEMMA ShellGoneType ==
  ASSUME TypeOK, ShellGone, pc' \in MainPcs
  PROVE  TypeOK'
<1>1. active' \in Seq(Signals) /\ nextjid' \in Nat
  BY EmptySeq DEF ShellGone
<1>2. h' \in [Signals -> HandlerType] /\ jobs' \in [Slots -> JobType]
  BY StaticTypes DEF ShellGone, Tables
<1> QED BY <1>1, <1>2, NoLocalsType DEF TypeOK, ShellGone, kernelVars, HandlerType

LEMMA MainStepType ==
  ASSUME TypeOK,
         \/ \E k \in {"fg", "bg"} : EvalBlock(k) \/ BgfgLookup(k)
         \/ MainStep
  PROVE  TypeOK'
<1> USE DEF shellVars, handlerVars, kernelVars
<1>1. ASSUME NEW k \in {"fg", "bg"}, EvalBlock(k) PROVE TypeOK'
  BY <1>1 DEF TypeOK, EvalBlock, MainPcs, Signals
<1>2. ASSUME NEW k \in {"fg", "bg"}, BgfgLookup(k) PROVE TypeOK'
  <2>1. maxjid(jobs) \in Nat
    BY MaxjidType DEF TypeOK, Tables
  <2>2. FoundJobs \subseteq Slots
    BY <2>1, GetjobpidType, GetjobjidType DEF FoundJobs, TypeOK, Tables
  <2>3. slot' \in Slots
    BY <1>2, <2>2 DEF BgfgLookup
  <2> QED BY <1>2, <2>3 DEF TypeOK, BgfgLookup, MainPcs
<1>3. ASSUME EvalFork PROVE TypeOK'
  BY <1>3 DEF TypeOK, EvalFork, MainPcs, ChildStates
<1>4. ASSUME EvalAddJob PROVE TypeOK'
  <2> DEFINE s == IF cmd = "bg" THEN BG ELSE FG
             r == addjob(jobs, nextjid, fpid, s)
  <2>1. r.tbl \in Tables /\ r.next \in Nat
    BY AddjobLemma DEF TypeOK, Tables
  <2>2. jobs' \in [Slots -> JobType] /\ nextjid' \in Nat
    BY <1>4, <2>1 DEF EvalAddJob, Tables
  <2> QED BY <1>4, <2>2, NoLocalsType DEF TypeOK, EvalAddJob, MainPcs
<1>5. ASSUME WaitfgTest \/ WaitfgSuspend PROVE TypeOK'
  BY <1>5 DEF TypeOK, WaitfgTest, WaitfgSuspend, MainPcs
<1>6. ASSUME BgfgCont PROVE TypeOK'
  <2> DEFINE p == jobs[slot].pid
  <2>1. CASE p # NoPid /\ child[p] \in {"running", "stopped"}
    <3>1. /\ child' = [child EXCEPT ![p] = "running"]
          /\ csig' = [csig EXCEPT ![p] = @ \ {"TSTP"}]
          /\ unreported' = unreported \ {p}
          /\ pending' = IF child[p] = "stopped" THEN pending \cup {"CHLD"} ELSE pending
      BY <1>6, <2>1 DEF BgfgCont
    <3>2. child' \in [Pids -> ChildStates]
      BY <3>1 DEF TypeOK, ChildStates
    <3>3. csig' \in [Pids -> SUBSET {"INT", "TSTP"}]
      BY <3>1 DEF TypeOK
    <3>4. unreported' \subseteq Pids /\ pending' \subseteq Signals
      BY <3>1, StaticTypes DEF TypeOK
    <3> QED BY <1>6, <3>2, <3>3, <3>4 DEF TypeOK, BgfgCont, MainPcs
  <2>2. CASE ~(p # NoPid /\ child[p] \in {"running", "stopped"})
    <3>1. UNCHANGED <<kernelVars, pending>>
      BY <1>6, <2>2 DEF BgfgCont
    <3> QED BY <1>6, <3>1 DEF TypeOK, BgfgCont, MainPcs
  <2> QED BY <2>1, <2>2
<1>7. ASSUME BgfgSetState PROVE TypeOK'
  <2> DEFINE st == IF cmd = "bg" THEN BG ELSE FG
  <2>1. jobs' \in [Slots -> JobType]
    <3>1. /\ jobs' = [jobs EXCEPT ![slot].state = st]
          /\ jobs \in [Slots -> JobType]
          /\ st \in {UNDEF, FG, BG, ST}
      BY <1>7 DEF TypeOK, BgfgSetState
    <3>2. CASE slot \in Slots
      <4>1. [jobs[slot] EXCEPT !.state = st] \in JobType
        <5> HIDE DEF st
        <5> QED BY <3>1, <3>2 DEF JobType
      <4> HIDE DEF st
      <4> QED BY <3>1, <3>2, <4>1
    <3>3. CASE slot \notin Slots
      <4> HIDE DEF st
      <4> QED BY <3>1, <3>3
    <3> QED BY <3>2, <3>3
  <2> QED BY <1>7, <2>1, NoLocalsType DEF TypeOK, BgfgSetState, MainPcs
<1> QED BY <1>1, <1>2, <1>3, <1>4, <1>5, <1>6, <1>7 DEF MainStep

LEMMA ChldStepType ==
  ASSUME TypeOK, ChldStep
  PROVE  TypeOK'
<1> USE DEF shellVars, handlerVars, kernelVars
<1> DEFINE f == h["CHLD"]
<1>1. f \in HandlerType /\ f.pid \in Pids \cup {NoPid} /\ f.why \in ChildStates
  BY StaticTypes DEF TypeOK, HandlerType
<1>2. jobs \in Tables /\ nextjid \in Nat
  BY DEF TypeOK, Tables
<1>3. [h EXCEPT !["CHLD"].pc = "start"] \in [Signals -> HandlerType]
  BY StaticTypes DEF TypeOK, HandlerType
<1>4. ASSUME ChldReap PROVE TypeOK'
  <2>1. PICK p \in Pids :
          /\ h' = [h EXCEPT !["CHLD"] = [pc |-> "act", pid |-> p, why |-> child[p]]]
          /\ child' = IF child[p] \in Zombies THEN [child EXCEPT ![p] = "free"] ELSE child
          /\ unreported' = unreported \ {p}
    BY <1>4 DEF ChldReap
  <2>2. [pc |-> "act", pid |-> p, why |-> child[p]] \in HandlerType
    BY DEF TypeOK, HandlerType
  <2>3. h' \in [Signals -> HandlerType]
    BY <2>1, <2>2 DEF TypeOK, HandlerType
  <2>4. child' \in [Pids -> ChildStates]
    BY <2>1 DEF TypeOK, ChildStates
  <2> QED BY <1>4, <2>1, <2>3, <2>4 DEF TypeOK, ChldReap, HandlerType
<1>5. ASSUME ChldNone PROVE TypeOK'
  <2>1. /\ active' \in Seq(Signals) /\ h' \in [Signals -> HandlerType]
        /\ pc' \in {pc, "test"}
    BY <1>5, ReturnType, StaticTypes DEF ChldNone, HandlerAt
  <2> QED BY <1>5, <2>1 DEF TypeOK, ChldNone, Return, MainPcs, HandlerType
<1>6. ASSUME ChldExited \/ ChldKilled PROVE TypeOK'
  <2> DEFINE r == deletejob(jobs, nextjid, f.pid)
             i == getjobpid(jobs, f.pid)
             cleared == [jobs EXCEPT ![i] = clearjob]
  <2>1. cleared \in Tables
    <3>1. jobs \in [Slots -> JobType] /\ clearjob \in JobType
      BY <1>2, StaticTypes DEF Tables
    <3> HIDE DEF i
    <3> QED BY <3>1 DEF Tables
  <2>2. r.tbl \in Tables /\ r.next \in Nat
    <3>1. CASE i = NoSlot
      BY <1>2, <3>1 DEF deletejob
    <3>2. CASE i # NoSlot
      <4>1. r = [tbl |-> cleared, next |-> maxjid(cleared) + 1]
        BY <3>2 DEF deletejob
      <4>2. maxjid(cleared) \in Nat
        <5> HIDE DEF cleared
        <5> QED BY <2>1, MaxjidType
      <4> HIDE DEF cleared
      <4> QED BY <2>1, <4>1, <4>2
    <3> QED BY <3>1, <3>2
  <2>3. jobs' = r.tbl /\ nextjid' = r.next /\ h' = [h EXCEPT !["CHLD"].pc = "start"]
    BY <1>6 DEF ChldExited, ChldKilled
  <2>4. jobs' \in [Slots -> JobType] /\ nextjid' \in Nat /\ h' \in [Signals -> HandlerType]
    <3> HIDE DEF r
    <3> QED BY <1>3, <2>2, <2>3 DEF Tables
  <2> QED BY <1>6, <2>4 DEF TypeOK, ChldExited, ChldKilled, HandlerType
<1>7. ASSUME ChldStopped PROVE TypeOK'
  <2> DEFINE i == getjobpid(jobs, f.pid)
  <2>1. jobs' = [jobs EXCEPT ![i].state = ST] /\ i # NoSlot
    BY <1>7 DEF ChldStopped
  <2>2. i \in Slots
    BY <1>1, <1>2, <2>1, GetjobpidType
  <2>3. jobs' \in [Slots -> JobType]
    <3>1. jobs \in [Slots -> JobType]
      BY DEF TypeOK
    <3> HIDE DEF i
    <3> QED BY <2>1, <2>2, <3>1 DEF JobType
  <2>4. h' = [h EXCEPT !["CHLD"].pc = "start"]
    BY <1>7 DEF ChldStopped
  <2>5. h' \in [Signals -> HandlerType]
    BY <1>3, <2>4
  <2>6. UNCHANGED <<nextjid, pc, cmd, fpid, slot, mask, pending, active, kernelVars>>
    BY <1>7 DEF ChldStopped
  <2> HIDE DEF i
  <2> QED BY <2>3, <2>5, <2>6 DEF TypeOK, HandlerType
<1>8. ASSUME ChldCrash PROVE TypeOK'
  BY <1>8, ShellGoneType DEF ChldCrash, MainPcs
<1> QED BY <1>4, <1>5, <1>6, <1>7, <1>8 DEF ChldStep

LEMMA KeyStepType ==
  ASSUME TypeOK, NEW s \in {"INT", "TSTP"}, KeyStep(s)
  PROVE  TypeOK'
<1> USE DEF shellVars, handlerVars, kernelVars
<1>1. s \in Signals
  BY DEF Signals
<1>2. ASSUME KeyLookup(s) PROVE TypeOK'
  <2>1. fgpid(jobs) \in Pids \cup {NoPid}
    BY FgpidType DEF TypeOK, Tables
  <2>2. PICK p : p = fgpid(jobs)
    OBVIOUS
  <2>3. /\ h' = [h EXCEPT ![s].pc = "act", ![s].pid = p]
        /\ UNCHANGED <<shellVars, pending, active, kernelVars>>
    BY <1>2, <2>2 DEF KeyLookup
  <2>4. h \in [Signals -> HandlerType]
    BY DEF TypeOK, HandlerType
  <2>5. h' \in [Signals -> HandlerType]
    BY <1>1, <2>1, <2>2, <2>3, <2>4 DEF HandlerType
  <2> QED BY <2>3, <2>5 DEF TypeOK, HandlerType
<1>3. ASSUME KeyForward(s) PROVE TypeOK'
  <2>1. /\ active' \in Seq(Signals) /\ h' \in [Signals -> HandlerType]
        /\ pc' \in {pc, "test"}
    BY <1>1, <1>3, ReturnType DEF KeyForward, HandlerAt
  <2>2. csig' \in [Pids -> SUBSET {"INT", "TSTP"}]
    BY <1>3 DEF KeyForward, TypeOK
  <2> QED BY <1>3, <2>1, <2>2 DEF TypeOK, KeyForward, Return, MainPcs, HandlerType
<1> QED BY <1>2, <1>3 DEF KeyStep

LEMMA EnvironmentType ==
  ASSUME TypeOK,
         \/ Exit
         \/ \E s \in Signals : Deliver(s) \/ Key(s)
         \/ \E p \in Pids : ChildStep(p)
  PROVE  TypeOK'
<1> USE DEF shellVars, handlerVars, kernelVars
<1>1. ASSUME Exit PROVE TypeOK'
  BY <1>1, ShellGoneType DEF Exit, MainPcs
<1>2. ASSUME NEW s \in Signals, Deliver(s) PROVE TypeOK'
  <2>1. Append(active, s) \in Seq(Signals)
    BY AppendProperties DEF TypeOK
  <2>2. h' \in [Signals -> HandlerType]
    <3>1. [Idle EXCEPT !.pc = "start"] \in HandlerType
      BY StaticTypes DEF HandlerType
    <3> QED BY <1>2, <3>1 DEF Deliver, TypeOK, HandlerType
  <2> QED BY <1>2, <2>1, <2>2 DEF TypeOK, Deliver, HandlerType
<1>3. ASSUME NEW s \in Signals, Key(s) PROVE TypeOK'
  BY <1>3 DEF TypeOK, Key
<1>4. ASSUME NEW p \in Pids, ChildStep(p) PROVE TypeOK'
  <2>1. PICK to \in ChildStates, left \in SUBSET {"INT", "TSTP"} : ChildTurns(p, to, left)
    <3>1. csig[p] \in SUBSET {"INT", "TSTP"} /\ csig[p] \ {"TSTP"} \in SUBSET {"INT", "TSTP"}
          /\ {} \in SUBSET {"INT", "TSTP"}
      BY DEF TypeOK
    <3> QED BY <1>4, <3>1 DEF ChildStep, ChildExec, ChildExit, ChildStopsItself, ChildKilledOtherwise,
                             ChildTakesInt, ChildTakesTstp, ChildStates, Zombies
  <2>2. csig' \in [Pids -> SUBSET {"INT", "TSTP"}]
    BY <2>1 DEF ChildTurns, TypeOK
  <2>3. /\ child' \in [Pids -> ChildStates]
        /\ pending' \subseteq Signals
        /\ unreported' \subseteq Pids
    BY <2>1, StaticTypes DEF ChildTurns, TypeOK
  <2> QED BY <2>1, <2>2, <2>3 DEF TypeOK, ChildTurns
<1> QED BY <1>1, <1>2, <1>3, <1>4

LEMMA TypeStep == TypeOK /\ [Next]_vars => TypeOK'
<1> SUFFICES ASSUME TypeOK, [Next]_vars PROVE TypeOK'
  OBVIOUS
<1>1. CASE UNCHANGED vars
  BY <1>1 DEF TypeOK, vars, shellVars, handlerVars, kernelVars
<1>2. CASE Next
  <2>1. Builtins \subseteq {"bg", "fg"} /\ Keys \subseteq Signals
    BY TshAssumption DEF Signals
  <2> QED BY <1>2, <2>1, MainStepType, ChldStepType, KeyStepType, EnvironmentType DEF Next
<1> QED BY <1>1, <1>2

LEMMA TypeInit == Init => TypeOK
<1> SUFFICES ASSUME Init PROVE TypeOK
  OBVIOUS
<1>1. active \in Seq(Signals)
  BY EmptySeq DEF Init
<1>2. h \in [Signals -> HandlerType] /\ jobs \in [Slots -> JobType]
  BY StaticTypes DEF Init, Tables
<1> QED BY <1>1, <1>2 DEF Init, TypeOK, MainPcs, ChildStates, HandlerType

\* Every variable of the shell, its handlers and its children keeps its type.
THEOREM TypeCorrect == Spec => []TypeOK
BY TypeInit, TypeStep, PTL DEF Spec

-----------------------------------------------------------------------------
(***************************************************************************)
(* The job list never holds a reaped child.                                *)
(***************************************************************************)

\* A step that keeps every slot's pid, frees no child and puts down no reaped
\* child keeps the list free of ghosts and duplicates.
LEMMA SamePids ==
  ASSUME NoGhostJob, OneSlotPerPid,
         \A i \in Slots : jobs'[i].pid = jobs[i].pid,
         Live \subseteq Live',
         InHand \subseteq InHand'
  PROVE  NoGhostJob' /\ OneSlotPerPid' /\ Listed' = Listed
<1>1. Listed' = Listed
  BY DEF Listed
<1> QED BY <1>1 DEF NoGhostJob, OneSlotPerPid

\* With no handler on the stack every handler is idle.
LEMMA MainAlone ==
  ASSUME HandlersOnStack, active = <<>>
  PROVE  \A s \in Signals : h[s].pc = "idle"
<1>1. Len(active) = 0
  BY EmptySeq
<1> QED BY <1>1 DEF HandlersOnStack

LEMMA MainStepList ==
  ASSUME ListInv, TypeOK',
         \/ \E k \in {"fg", "bg"} : EvalBlock(k) \/ BgfgLookup(k)
         \/ MainStep
  PROVE  ListInv'
<1> USE DEF ListInv, shellVars, handlerVars, kernelVars
<1>1. active = <<>> /\ UNCHANGED <<active, h>>
  BY DEF MainStep, MainAt, EvalBlock, BgfgLookup, EvalFork, EvalAddJob, WaitfgTest,
         WaitfgSuspend, BgfgCont, BgfgSetState
<1>2. h["CHLD"].pc = "idle" /\ InHand = {} /\ InHand' = {}
  BY <1>1, MainAlone, StaticTypes DEF InHand
<1>3. HandlersOnStack'
  BY <1>1 DEF HandlersOnStack
<1>4. ASSUME NEW k \in {"fg", "bg"}, EvalBlock(k) PROVE ListInv'
  <2>1. jobs' = jobs /\ child' = child /\ pc' = "fork" /\ mask' = mask \cup {"CHLD"}
    BY <1>4 DEF EvalBlock
  <2>2. NoGhostJob' /\ OneSlotPerPid'
    BY <1>2, <2>1, SamePids DEF Live
  <2>3. ForkGuarded' /\ NewChild'
    BY <1>1, <1>2, <2>1 DEF ForkGuarded, NewChild
  <2> QED BY <1>3, <2>2, <2>3
<1>5. ASSUME EvalFork PROVE ListInv'
  <2>1. jobs' = jobs /\ mask' = mask /\ pc = "fork" /\ pc' = "addjob"
    BY <1>5 DEF EvalFork, MainAt
  <2>2. CASE \E p \in Pids : /\ child[p] = "free" /\ fpid' = p
                             /\ child' = [child EXCEPT ![p] = "forked"]
    <3>1. PICK p \in Pids : /\ child[p] = "free" /\ fpid' = p
                            /\ child' = [child EXCEPT ![p] = "forked"]
      BY <2>2
    <3>2. child'[p] = "forked" /\ Live \subseteq Live'
      BY <3>1 DEF TypeOK, Live
    <3>3. NoGhostJob' /\ OneSlotPerPid' /\ Listed' = Listed
      BY <1>2, <2>1, <3>2, SamePids
    <3>4. p \notin Listed
      BY <1>2, <3>1 DEF NoGhostJob, Live
    <3>5. NewChild' /\ ForkGuarded'
      BY <1>1, <1>2, <2>1, <3>1, <3>2, <3>3, <3>4 DEF NewChild, ForkGuarded
    <3> QED BY <1>3, <3>3, <3>5
  <2>3. CASE fpid' = NoPid /\ child' = child
    <3>1. NoGhostJob' /\ OneSlotPerPid'
      BY <1>2, <2>1, <2>3, SamePids DEF Live
    <3>2. NewChild' /\ ForkGuarded'
      BY <1>1, <1>2, <2>1, <2>3 DEF NewChild, ForkGuarded
    <3> QED BY <1>3, <3>1, <3>2
  <2> QED BY <1>5, <2>2, <2>3 DEF EvalFork
<1>6. ASSUME EvalAddJob PROVE ListInv'
  <2> DEFINE s == IF cmd = "bg" THEN BG ELSE FG
             r == addjob(jobs, nextjid, fpid, s)
  <2>1. jobs' = r.tbl /\ pc = "addjob" /\ pc' \in {"prompt", "test"} /\ child' = child
    BY <1>6 DEF EvalAddJob, MainAt
  <2>2. PICK k \in Slots : \A i \in Slots : \/ r.tbl[i] = jobs[i]
                                            \/ i = k /\ r.tbl[i].pid = fpid
    <3>1. s \in {FG, BG} /\ jobs \in Tables /\ nextjid \in Nat /\ fpid \in Pids \cup {NoPid}
      BY DEF TypeOK, Tables
    <3> HIDE DEF s
    <3>2. Added(jobs, r.tbl, fpid, s)
      BY <3>1, AddjobLemma
    <3> HIDE DEF r
    <3> QED BY <3>2 DEF Added
  <2>3. \A i \in Slots : jobs'[i].pid = jobs[i].pid \/ (i = k /\ jobs'[i].pid = fpid)
    <3> HIDE DEF r
    <3> QED BY <2>1, <2>2
  <2>4. fpid = NoPid \/ (fpid \notin Listed /\ fpid \in Live)
    BY <2>1 DEF NewChild, Live, TypeOK
  <2>5. NoGhostJob'
    BY <1>2, <2>1, <2>3, <2>4 DEF NoGhostJob, Listed, Live
  <2>6. OneSlotPerPid'
    BY <2>3, <2>4 DEF OneSlotPerPid, Listed
  <2>7. NewChild' /\ ForkGuarded'
    BY <2>1 DEF NewChild, ForkGuarded
  <2> QED BY <1>3, <2>5, <2>6, <2>7
<1>7. ASSUME \/ WaitfgTest \/ WaitfgSuspend \/ BgfgCont \/ BgfgSetState
             \/ \E k \in {"fg", "bg"} : BgfgLookup(k)
      PROVE ListInv'
  <2>1. pc' \notin {"fork", "addjob"}
    BY <1>7 DEF WaitfgTest, WaitfgSuspend, BgfgCont, BgfgSetState, BgfgLookup
  <2>2. NewChild' /\ ForkGuarded'
    BY <2>1 DEF NewChild, ForkGuarded
  <2>3. \A i \in Slots : jobs'[i].pid = jobs[i].pid
    <3>1. jobs \in Tables
      BY DEF TypeOK, Tables
    <3>2. \/ jobs' = jobs
          \/ \E st \in {FG, BG} : jobs' = [jobs EXCEPT ![slot].state = st]
      BY <1>7 DEF WaitfgTest, WaitfgSuspend, BgfgCont, BgfgSetState, BgfgLookup
    <3> QED BY <3>1, <3>2 DEF Tables, JobType
  <2>4. Live \subseteq Live'
    BY <1>7 DEF WaitfgTest, WaitfgSuspend, BgfgCont, BgfgSetState, BgfgLookup, Live, TypeOK
  <2>5. NoGhostJob' /\ OneSlotPerPid'
    BY <1>2, <2>3, <2>4, SamePids
  <2> QED BY <1>3, <2>2, <2>5
<1> QED BY <1>4, <1>5, <1>6, <1>7 DEF MainStep

\* A shell that is gone has no job and no handler.
LEMMA ShellGoneList ==
  ASSUME TypeOK', ShellGone, pc' \in {"exited", "crashed"}
  PROVE  ListInv'
<1>1. \A i \in Slots : jobs'[i].pid = NoPid
  BY DEF ShellGone, initjobs, clearjob
<1>2. \A s \in Signals : h'[s].pc = "idle"
  BY DEF ShellGone, Idle
<1> QED BY <1>1, <1>2 DEF ListInv, NoGhostJob, OneSlotPerPid, Listed, HandlersOnStack,
                         ForkGuarded, NewChild

\* A handler that returns leaves the others on the stack.
LEMMA ReturnStack ==
  ASSUME TypeOK, HandlersOnStack, NEW s \in Signals, active # <<>>, Top = s, Return(s)
  PROVE  HandlersOnStack'
<1>1. /\ Len(active') = Len(active) - 1
      /\ \A i \in 1 .. Len(active) - 1 : active'[i] = active[i]
  BY ReturnType
<1>2. Len(active) \in Nat
  BY LenProperties DEF TypeOK
<1>3. h' = [h EXCEPT ![s] = Idle]
  BY DEF Return
<1> SUFFICES ASSUME NEW u \in Signals, h'[u].pc # "idle"
             PROVE  \E i \in 1 .. Len(active') : active'[i] = u
  BY DEF HandlersOnStack
<1>4. u # s /\ h[u].pc # "idle"
  BY <1>3 DEF TypeOK, Idle
<1>5. PICK i \in 1 .. Len(active) : active[i] = u
  BY <1>4 DEF HandlersOnStack
<1>6. i # Len(active)
  BY <1>4, <1>5 DEF Top
<1>7. i \in 1 .. Len(active) - 1
  BY <1>2, <1>5, <1>6
<1> QED BY <1>1, <1>5, <1>7

LEMMA ChldStepList ==
  ASSUME ListInv, TypeOK', ChldStep
  PROVE  ListInv'
<1> USE DEF ListInv, shellVars, handlerVars, kernelVars
<1> DEFINE f == h["CHLD"]
<1>1. f.pc # "idle" /\ active # <<>>
  BY DEF ChldStep, ChldReap, ChldNone, ChldExited, ChldKilled, ChldStopped, ChldCrash, HandlerAt
<1>2. pc \notin {"fork", "addjob"}
  BY <1>1 DEF ForkGuarded
<1>3. ASSUME pc' \in {pc, "test"} PROVE ForkGuarded' /\ NewChild'
  BY <1>2, <1>3 DEF ForkGuarded, NewChild
<1>4. ASSUME ChldReap PROVE ListInv'
  <2>1. f.pc = "start" /\ InHand = {} /\ UNCHANGED <<jobs, pc, active>>
    BY <1>4 DEF ChldReap, HandlerAt, InHand
  <2>2. PICK p \in Pids :
          /\ h' = [h EXCEPT !["CHLD"] = [pc |-> "act", pid |-> p, why |-> child[p]]]
          /\ child' = IF child[p] \in Zombies THEN [child EXCEPT ![p] = "free"] ELSE child
    BY <1>4 DEF ChldReap
  <2>3. h'["CHLD"] = [pc |-> "act", pid |-> p, why |-> child[p]]
    BY <2>2, StaticTypes DEF TypeOK
  <2>4. Live \subseteq Live' \cup InHand'
    <3>1. CASE child[p] \in Zombies
      <4>1. InHand' = {p}
        BY <2>3, <3>1 DEF InHand
      <4>2. Live \subseteq Live' \cup {p}
        BY <2>2, <3>1 DEF Live, TypeOK
      <4> QED BY <4>1, <4>2
    <3>2. CASE child[p] \notin Zombies
      BY <2>2, <3>2 DEF Live
    <3> QED BY <3>1, <3>2
  <2>5. NoGhostJob'
    BY <2>1, <2>4 DEF NoGhostJob, Listed
  <2>6. OneSlotPerPid'
    BY <2>1 DEF OneSlotPerPid
  <2>7. HandlersOnStack'
    BY <1>1, <2>1, <2>2 DEF HandlersOnStack, TypeOK
  <2> QED BY <1>3, <2>1, <2>5, <2>6, <2>7
<1>5. ASSUME ChldNone PROVE ListInv'
  <2>1. f.pc = "start" /\ Top = "CHLD" /\ Return("CHLD") /\ UNCHANGED <<jobs, child>>
    BY <1>5 DEF ChldNone, HandlerAt, Return
  <2>2. HandlersOnStack' /\ pc' \in {pc, "test"}
    BY <1>1, <2>1, ReturnStack, ReturnType, StaticTypes
  <2>3. InHand = {}
    BY <2>1 DEF InHand
  <2>4. NoGhostJob' /\ OneSlotPerPid'
    BY <2>1, <2>3, SamePids DEF Live
  <2> QED BY <1>3, <2>2, <2>4
<1>6. ASSUME ChldExited \/ ChldKilled PROVE ListInv'
  <2> DEFINE r == deletejob(jobs, nextjid, f.pid)
  <2>1. /\ f.pc = "act" /\ f.why \in Zombies /\ jobs' = r.tbl
        /\ h' = [h EXCEPT !["CHLD"].pc = "start"]
        /\ UNCHANGED <<pc, active, child>>
    BY <1>6 DEF ChldExited, ChldKilled, HandlerAt, Zombies
  <2>2. h'["CHLD"].pc = "start" /\ \A u \in Signals : h'[u].pc # "idle" => h[u].pc # "idle"
    BY <1>1, <2>1, StaticTypes DEF TypeOK
  <2>3. InHand = {f.pid}
    BY <2>1 DEF InHand
  <2>4. \A i \in Slots : jobs'[i].pid # NoPid
                           => jobs'[i].pid = jobs[i].pid /\ jobs'[i].pid # f.pid
    <3>1. CASE f.pid = NoPid
      <4>1. r.tbl = jobs
        BY <3>1 DEF deletejob, getjobpid
      <4> QED BY <2>1, <3>1, <4>1
    <3>2. CASE f.pid # NoPid
      <4>1. f.pid \in Pids
        BY <3>2, StaticTypes DEF TypeOK
      <4>2. \A i, j \in Slots : jobs[i].pid = f.pid /\ jobs[j].pid = f.pid => i = j
        BY <3>2 DEF OneSlotPerPid
      <4>3. \A i \in Slots : r.tbl[i].pid # f.pid /\ (r.tbl[i] = jobs[i] \/ r.tbl[i] = clearjob)
        <5>1. jobs \in Tables /\ nextjid \in Nat
          BY DEF TypeOK, Tables
        <5> HIDE DEF f
        <5> QED BY <4>1, <4>2, <5>1, DeletejobLemma
      <4>4. clearjob.pid = NoPid
        BY DEF clearjob
      <4> HIDE DEF r, f
      <4> QED BY <2>1, <4>3, <4>4
    <3> QED BY <3>1, <3>2
  <2>5. NoGhostJob'
    <3> HIDE DEF f
    <3> QED BY <2>1, <2>3, <2>4 DEF NoGhostJob, Listed, Live
  <2>6. OneSlotPerPid'
    <3> HIDE DEF f
    <3> QED BY <2>4 DEF OneSlotPerPid
  <2>7. HandlersOnStack'
    BY <2>1, <2>2 DEF HandlersOnStack
  <2> QED BY <1>3, <2>1, <2>5, <2>6, <2>7
<1>7. ASSUME ChldStopped PROVE ListInv'
  <2> DEFINE k == getjobpid(jobs, f.pid)
  <2>1. /\ f.pc = "act" /\ f.why = "stopped" /\ jobs' = [jobs EXCEPT ![k].state = ST]
        /\ h' = [h EXCEPT !["CHLD"].pc = "start"]
        /\ UNCHANGED <<pc, active, child>>
    BY <1>7 DEF ChldStopped, HandlerAt
  <2>2. \A u \in Signals : h'[u].pc # "idle" => h[u].pc # "idle"
    BY <1>1, <2>1, StaticTypes DEF TypeOK
  <2>3. InHand = {}
    BY <2>1 DEF InHand, Zombies
  <2>4. \A i \in Slots : jobs'[i].pid = jobs[i].pid
    <3> HIDE DEF k
    <3> QED BY <2>1 DEF TypeOK, JobType
  <2>5. NoGhostJob' /\ OneSlotPerPid'
    BY <2>1, <2>3, <2>4, SamePids DEF Live
  <2>6. HandlersOnStack'
    BY <2>1, <2>2 DEF HandlersOnStack
  <2> QED BY <1>3, <2>1, <2>5, <2>6
<1>8. ASSUME ChldCrash PROVE ListInv'
  BY <1>8, ShellGoneList DEF ChldCrash
<1> QED BY <1>4, <1>5, <1>6, <1>7, <1>8 DEF ChldStep

LEMMA KeyStepList ==
  ASSUME ListInv, TypeOK', NEW s \in {"INT", "TSTP"}, KeyStep(s)
  PROVE  ListInv'
<1> USE DEF ListInv, shellVars, handlerVars, kernelVars
<1>1. s \in Signals /\ s # "CHLD"
  BY DEF Signals
<1>2. /\ h[s].pc # "idle" /\ active # <<>> /\ Top = s
      /\ UNCHANGED <<jobs, fpid, mask, child>>
      /\ pc' \in {pc, "test"}
  BY <1>1, ReturnType DEF KeyStep, KeyLookup, KeyForward, HandlerAt, Return
<1>3. h'["CHLD"] = h["CHLD"] /\ InHand' = InHand
  <2>1. "CHLD" \in Signals /\ h \in [Signals -> HandlerType]
    BY StaticTypes DEF TypeOK, HandlerType
  <2>2. CASE KeyLookup(s)
    BY <1>1, <2>1, <2>2 DEF KeyLookup, InHand
  <2>3. CASE KeyForward(s)
    BY <1>1, <2>1, <2>3 DEF KeyForward, Return, InHand
  <2> QED BY <2>2, <2>3 DEF KeyStep
<1>4. NoGhostJob' /\ OneSlotPerPid' /\ Listed' = Listed
  BY <1>2, <1>3, SamePids DEF Live
<1>5. ForkGuarded' /\ NewChild'
  BY <1>2, <1>3, <1>4 DEF ForkGuarded, NewChild
<1>6. HandlersOnStack'
  <2>1. CASE KeyLookup(s)
    BY <1>1, <1>2, <2>1 DEF KeyLookup, HandlersOnStack, TypeOK
  <2>2. CASE KeyForward(s)
    BY <1>1, <1>2, <2>2, ReturnStack DEF KeyForward
  <2> QED BY <2>1, <2>2 DEF KeyStep
<1> QED BY <1>4, <1>5, <1>6

LEMMA EnvironmentList ==
  ASSUME ListInv, TypeOK',
         \/ Exit
         \/ \E s \in Signals : Deliver(s) \/ Key(s)
         \/ \E p \in Pids : ChildStep(p)
  PROVE  ListInv'
<1> USE DEF ListInv, shellVars, handlerVars, kernelVars
<1>1. ASSUME Exit PROVE ListInv'
  BY <1>1, ShellGoneList DEF Exit
<1>2. ASSUME NEW s \in Signals, Deliver(s) PROVE ListInv'
  <2>1. /\ s \notin mask /\ h[s].pc = "idle"
        /\ h' = [h EXCEPT ![s] = [Idle EXCEPT !.pc = "start"]]
        /\ active' = Append(active, s)
        /\ UNCHANGED <<jobs, pc, fpid, mask, child>>
    BY <1>2 DEF Deliver, Blocked
  <2>2. InHand \subseteq InHand'
    BY <2>1 DEF InHand, TypeOK
  <2>3. NoGhostJob' /\ OneSlotPerPid' /\ Listed' = Listed
    BY <2>1, <2>2, SamePids DEF Live
  <2>4. ForkGuarded' /\ NewChild'
    BY <2>1, <2>3 DEF ForkGuarded, NewChild, TypeOK
  <2>5. HandlersOnStack'
    <3>1. /\ Len(active') = Len(active) + 1
          /\ \A i \in 1 .. Len(active) : active'[i] = active[i]
          /\ active'[Len(active) + 1] = s
          /\ Len(active) \in Nat
      BY <2>1, AppendProperties, LenProperties DEF TypeOK
    <3>2. \A u \in Signals : h'[u].pc # "idle" => u = s \/ h[u].pc # "idle"
      BY <2>1 DEF TypeOK
    <3> QED BY <3>1, <3>2 DEF HandlersOnStack
  <2> QED BY <2>3, <2>4, <2>5
<1>3. ASSUME NEW s \in Signals, Key(s) PROVE ListInv'
  BY <1>3, SamePids DEF Key, Live, InHand, HandlersOnStack, ForkGuarded, NewChild
<1>4. ASSUME NEW p \in Pids, ChildStep(p) PROVE ListInv'
  <2>1. PICK to \in ChildStates \ {"free"}, left \in {{}, csig[p], csig[p] \ {"TSTP"}} : ChildTurns(p, to, left)
    BY <1>4 DEF ChildStep, ChildExec, ChildExit, ChildStopsItself, ChildKilledOtherwise, ChildTakesInt,
                ChildTakesTstp, ChildStates, Zombies
  <2>2. child' = [child EXCEPT ![p] = to] /\ UNCHANGED <<jobs, pc, fpid, mask, active, h>>
    BY <2>1 DEF ChildTurns
  <2>3. Live \subseteq Live' /\ InHand' = InHand
    BY <2>1, <2>2 DEF Live, InHand, TypeOK
  <2>4. NoGhostJob' /\ OneSlotPerPid' /\ Listed' = Listed
    BY <2>2, <2>3, SamePids
  <2>5. ForkGuarded' /\ HandlersOnStack'
    BY <2>2 DEF ForkGuarded, HandlersOnStack
  <2>6. NewChild'
    BY <2>1, <2>2, <2>4 DEF NewChild, TypeOK
  <2> QED BY <2>4, <2>5, <2>6
<1> QED BY <1>1, <1>2, <1>3, <1>4

LEMMA ListStep == ListInv /\ [Next]_vars => ListInv'
<1> SUFFICES ASSUME ListInv, [Next]_vars PROVE ListInv'
  OBVIOUS
<1>1. TypeOK'
  BY TypeStep DEF ListInv
<1>2. CASE UNCHANGED vars
  BY <1>1, <1>2 DEF ListInv, vars, shellVars, handlerVars, kernelVars, NoGhostJob, OneSlotPerPid,
                    Listed, Live, InHand, HandlersOnStack, ForkGuarded, NewChild
<1>3. CASE Next
  <2>1. Builtins \subseteq {"bg", "fg"} /\ Keys \subseteq Signals
    BY TshAssumption DEF Signals
  <2> QED BY <1>1, <1>3, <2>1, MainStepList, ChldStepList, KeyStepList, EnvironmentList DEF Next
<1> QED BY <1>2, <1>3

LEMMA ListInit == Init => ListInv
<1> SUFFICES ASSUME Init PROVE ListInv
  OBVIOUS
<1>1. TypeOK
  BY TypeInit
<1>2. \A i \in Slots : jobs[i].pid = NoPid
  BY DEF Init, initjobs, clearjob
<1>3. \A s \in Signals : h[s].pc = "idle"
  BY DEF Init, Idle
<1> QED BY <1>1, <1>2, <1>3 DEF Init, ListInv, NoGhostJob, OneSlotPerPid, Listed,
                               HandlersOnStack, ForkGuarded, NewChild

\* Every job in the list is a child the kernel still knows, or the one the
\* handler is about to delete.
THEOREM NoGhostJobCorrect == Spec => []NoGhostJob
<1>1. ListInv => NoGhostJob
  BY DEF ListInv
<1> QED BY <1>1, ListInit, ListStep, PTL DEF Spec

\* A pid is in at most one slot of the list.
THEOREM OneSlotPerPidCorrect == Spec => []OneSlotPerPid
<1>1. ListInv => OneSlotPerPid
  BY DEF ListInv
<1> QED BY <1>1, ListInit, ListStep, PTL DEF Spec

-----------------------------------------------------------------------------
(***************************************************************************)
(* Stopped jobs.  What the SIGCHLD handler has in hand stays as waitpid    *)
(* reported it: a reaped child's pid is not given out again, and a stopped *)
(* child is not continued (it may be killed), before main runs.            *)
(***************************************************************************)
Reported ==
  h["CHLD"].pc = "act" =>
    /\ h["CHLD"].pid \in Pids
    /\ h["CHLD"].why \in Zombies => child[h["CHLD"].pid] = "free"
    /\ h["CHLD"].why \notin Zombies =>
         h["CHLD"].why = "stopped" /\ child[h["CHLD"].pid] \in {"stopped", "killed"}

SlotKnown == pc \in {"cont", "setstate"} => slot \in Slots

\* a child that does not run: stopped, killed while it was stopped, or that one reaped
AtRest(p) == child[p] \in {"stopped", "killed"} \/ p \in InHand

\* Every job marked ST is at rest, but the one do_bgfg has just continued.
StoppedButOne ==
  \A i \in Slots : jobs[i].state = ST /\ jobs[i].pid # NoPid /\ ~(pc = "setstate" /\ i = slot)
                     => AtRest(jobs[i].pid)

StopInv == ListInv /\ Reported /\ SlotKnown /\ StoppedButOne

\* getjobpid finds the slot of a listed pid.
LEMMA GetjobpidFinds ==
  ASSUME NEW t \in Tables, NEW p \in Pids
  PROVE  /\ getjobpid(t, p) # NoSlot => getjobpid(t, p) \in Slots /\ t[getjobpid(t, p)].pid = p
         /\ (\E i \in Slots : t[i].pid = p) => getjobpid(t, p) # NoSlot
<1> DEFINE S == SlotsOf(t, p)
<1>1. p # NoPid /\ getjobpid(t, p) = FirstSlot(S) /\ S \in SUBSET Slots
  BY JobsAssumption DEF getjobpid, SlotsOf
<1>2. (S = {} => getjobpid(t, p) = NoSlot) /\ (S # {} => getjobpid(t, p) \in S)
  <2> HIDE DEF S
  <2> QED BY <1>1, FirstSlotType
<1>3. NoSlot \notin Slots
  BY DEF Slots
<1> QED BY <1>2, <1>3 DEF SlotsOf

\* What the steps of main that are not the fork do to a job.
LEMMA MainStepJobs ==
  ASSUME TypeOK, SlotKnown,
         \/ \E k \in {"fg", "bg"} : EvalBlock(k) \/ BgfgLookup(k)
         \/ MainStep
  PROVE  /\ UNCHANGED <<active, h>> /\ active = <<>>
         /\ SlotKnown'
         /\ ~EvalAddJob /\ ~BgfgSetState => jobs' = jobs
         /\ ~EvalFork /\ ~BgfgCont => child' = child
<1> USE DEF shellVars, handlerVars, kernelVars
<1>1. UNCHANGED <<active, h>> /\ active = <<>>
  BY DEF MainStep, MainAt, EvalBlock, BgfgLookup, EvalFork, EvalAddJob, WaitfgTest,
         WaitfgSuspend, BgfgCont, BgfgSetState
<1>2. SlotKnown'
  <2>1. ASSUME NEW k \in {"fg", "bg"}, BgfgLookup(k) PROVE slot' \in Slots
    <3>1. maxjid(jobs) \in Nat
      BY MaxjidType DEF TypeOK, Tables
    <3>2. FoundJobs \subseteq Slots
      BY <3>1, GetjobpidType, GetjobjidType DEF FoundJobs, TypeOK, Tables
    <3> QED BY <2>1, <3>2 DEF BgfgLookup
  <2>2. CASE \E k \in {"fg", "bg"} : BgfgLookup(k)
    BY <2>1, <2>2 DEF SlotKnown
  <2>3. CASE BgfgCont
    BY <2>3 DEF SlotKnown, BgfgCont, MainAt
  <2>4. CASE \/ \E k \in {"fg", "bg"} : EvalBlock(k)
             \/ EvalFork \/ EvalAddJob \/ WaitfgTest \/ WaitfgSuspend \/ BgfgSetState
    BY <2>4 DEF SlotKnown, EvalBlock, EvalFork, EvalAddJob, WaitfgTest, WaitfgSuspend, BgfgSetState
  <2> QED BY <2>2, <2>3, <2>4 DEF MainStep
<1>3. ~EvalAddJob /\ ~BgfgSetState => jobs' = jobs
  BY DEF MainStep, EvalBlock, BgfgLookup, EvalFork, WaitfgTest, WaitfgSuspend, BgfgCont
<1>4. ~EvalFork /\ ~BgfgCont => child' = child
  BY DEF MainStep, EvalBlock, BgfgLookup, EvalAddJob, WaitfgTest, WaitfgSuspend, BgfgSetState
<1> QED BY <1>1, <1>2, <1>3, <1>4

\* addjob, as main calls it.
LEMMA AddjobStep ==
  ASSUME TypeOK, EvalAddJob
  PROVE  /\ Added(jobs, jobs', fpid, IF cmd = "bg" THEN BG ELSE FG)
         /\ (fpid # NoPid /\ \E k \in Slots : jobs[k].pid = NoPid) => \E k \in Slots : jobs'[k].pid = fpid
<1> DEFINE s == IF cmd = "bg" THEN BG ELSE FG
<1>1. s \in {FG, BG} /\ jobs \in Tables /\ nextjid \in Nat /\ fpid \in Pids \cup {NoPid}
  BY DEF TypeOK, Tables
<1>2. jobs' = addjob(jobs, nextjid, fpid, s).tbl
  BY DEF EvalAddJob
<1> HIDE DEF s
<1>3. /\ Added(jobs, jobs', fpid, s)
      /\ (fpid # NoPid /\ \E k \in Slots : jobs[k].pid = NoPid) => \E k \in Slots : jobs'[k].pid = fpid
  BY <1>1, <1>2, AddjobLemma
<1> QED BY <1>3 DEF s

\* deletejob, as the handler calls it.
LEMMA DeletejobStep ==
  ASSUME ListInv, h["CHLD"].pid \in Pids, jobs' = deletejob(jobs, nextjid, h["CHLD"].pid).tbl
  PROVE  \A i \in Slots : /\ jobs'[i].pid # h["CHLD"].pid
                          /\ \/ jobs'[i] = jobs[i]
                             \/ jobs[i].pid = h["CHLD"].pid /\ jobs'[i] = clearjob
<1>1. jobs \in Tables /\ nextjid \in Nat
  BY DEF ListInv, TypeOK, Tables
<1>2. \A i, j \in Slots : jobs[i].pid = h["CHLD"].pid /\ jobs[j].pid = h["CHLD"].pid => i = j
  BY StaticTypes DEF ListInv, OneSlotPerPid
<1> QED BY <1>1, <1>2, DeletejobLemma

LEMMA MainStepStop ==
  ASSUME StopInv, ListInv',
         \/ \E k \in {"fg", "bg"} : EvalBlock(k) \/ BgfgLookup(k)
         \/ MainStep
  PROVE  StopInv'
<1> USE DEF StopInv
<1>1. TypeOK /\ UNCHANGED <<active, h>> /\ active = <<>> /\ SlotKnown'
  BY MainStepJobs DEF ListInv
<1>2. Reported'
  BY <1>1, MainAlone, StaticTypes DEF Reported, ListInv
<1>a. InHand = {} /\ InHand' = {}
  BY <1>1, MainAlone, StaticTypes DEF InHand, ListInv
<1>3. \A i \in Slots : jobs[i].pid # NoPid => jobs[i].pid \in Pids
  BY <1>1 DEF TypeOK, JobType
<1>4. CASE EvalAddJob
  <2>1. child' = child /\ pc' # "setstate" /\ pc = "addjob"
    BY <1>4 DEF EvalAddJob, MainAt, kernelVars
  <2>2. \A i \in Slots : jobs'[i] = jobs[i] \/ jobs'[i].state \in {FG, BG}
    BY <1>1, <1>4, AddjobStep DEF Added
  <2> QED BY <1>1, <1>a, <1>2, <2>1, <2>2 DEF StoppedButOne, AtRest
<1>5. CASE EvalFork
  <2>1. jobs' = jobs /\ pc = "fork" /\ pc' = "addjob"
    BY <1>5 DEF EvalFork, MainAt
  <2>2. \A p \in Pids : child[p] \in {"stopped", "killed"} => child'[p] = child[p]
    BY <1>1, <1>5 DEF EvalFork, TypeOK
  <2> QED BY <1>1, <1>a, <1>2, <1>3, <2>1, <2>2 DEF StoppedButOne, AtRest
<1>6. CASE BgfgCont
  <2>1. jobs' = jobs /\ pc = "cont" /\ pc' = "setstate" /\ slot' = slot /\ slot \in Slots
    BY <1>6 DEF BgfgCont, MainAt, SlotKnown
  <2>2. \A p \in Pids : p # jobs[slot].pid => child'[p] = child[p]
    BY <1>1, <1>6 DEF BgfgCont, TypeOK, kernelVars
  <2>3. \A i \in Slots : i # slot /\ jobs[i].pid # NoPid => jobs[i].pid # jobs[slot].pid
    BY <2>1 DEF ListInv, OneSlotPerPid
  <2> QED BY <1>1, <1>a, <1>2, <1>3, <2>1, <2>2, <2>3 DEF StoppedButOne, AtRest
<1>7. CASE BgfgSetState
  <2>1. /\ child' = child /\ pc = "setstate" /\ pc' # "setstate" /\ slot \in Slots
        /\ jobs' = [jobs EXCEPT ![slot].state = IF cmd = "bg" THEN BG ELSE FG]
    BY <1>7 DEF BgfgSetState, MainAt, SlotKnown, kernelVars
  <2>2. jobs'[slot].state # ST /\ \A i \in Slots : i # slot => jobs'[i] = jobs[i]
    BY <1>1, <2>1 DEF TypeOK, JobType
  <2> QED BY <1>1, <1>a, <1>2, <2>1, <2>2 DEF StoppedButOne, AtRest
<1>8. CASE ~EvalAddJob /\ ~EvalFork /\ ~BgfgCont /\ ~BgfgSetState
  <2>1. jobs' = jobs /\ child' = child
    BY <1>1, <1>8, MainStepJobs
  <2>2. pc # "setstate"
    BY <1>8 DEF MainStep, MainAt, EvalBlock, BgfgLookup, WaitfgTest, WaitfgSuspend
  <2> QED BY <1>1, <1>a, <1>2, <2>1, <2>2 DEF StoppedButOne, AtRest
<1> QED BY <1>4, <1>5, <1>6, <1>7, <1>8

\* A shell that is gone has nothing in hand.
LEMMA ShellGoneStop ==
  ASSUME ListInv', ShellGone, pc' \in {"exited", "crashed"}
  PROVE  StopInv'
<1>1. \A i \in Slots : jobs'[i].pid = NoPid
  BY DEF ShellGone, initjobs, clearjob
<1>2. h'["CHLD"].pc = "idle"
  BY StaticTypes DEF ShellGone, Idle
<1> QED BY <1>1, <1>2 DEF StopInv, Reported, SlotKnown, StoppedButOne

LEMMA ChldStepStop ==
  ASSUME StopInv, ListInv', ChldStep
  PROVE  StopInv'
<1> USE DEF StopInv
<1> DEFINE f == h["CHLD"]
<1>1. TypeOK /\ h \in [Signals -> HandlerType] /\ "CHLD" \in Signals
  BY StaticTypes DEF ListInv, TypeOK, HandlerType
<1>2. \A i \in Slots : jobs[i].pid # NoPid => jobs[i].pid \in Pids
  BY <1>1 DEF TypeOK, JobType
<1>3. ASSUME ChldReap PROVE StopInv'
  <2>1. PICK p \in Pids :
          /\ Reportable(p)
          /\ h' = [h EXCEPT !["CHLD"] = [pc |-> "act", pid |-> p, why |-> child[p]]]
          /\ child' = IF child[p] \in Zombies THEN [child EXCEPT ![p] = "free"] ELSE child
    BY <1>3 DEF ChldReap
  <2>2. UNCHANGED <<jobs, pc, slot>>
    BY <1>3 DEF ChldReap, shellVars
  <2>3. h'["CHLD"] = [pc |-> "act", pid |-> p, why |-> child[p]]
    BY <1>1, <2>1
  <2>4. Reported'
    BY <1>1, <2>1, <2>3 DEF Reported, Reportable, TypeOK
  <2>5. InHand = {}
    BY <1>3 DEF ChldReap, HandlerAt, InHand
  <2>6. \A q \in Pids : AtRest(q) => AtRest(q)'
    BY <1>1, <2>1, <2>3, <2>5 DEF AtRest, InHand, TypeOK, Zombies
  <2> QED BY <1>2, <2>2, <2>4, <2>6 DEF SlotKnown, StoppedButOne
<1>4. ASSUME ChldNone PROVE StopInv'
  <2>1. /\ UNCHANGED <<jobs, slot, child>> /\ h'["CHLD"].pc = "idle"
        /\ pc' = pc \/ (pc = "asleep" /\ pc' = "test")
    BY <1>1, <1>4 DEF ChldNone, Return, kernelVars, Idle
  <2>2. InHand = {}
    BY <1>4 DEF ChldNone, HandlerAt, InHand
  <2> QED BY <2>1, <2>2 DEF Reported, SlotKnown, StoppedButOne, AtRest
<1>5. ASSUME ChldExited \/ ChldKilled PROVE StopInv'
  <2>1. /\ f.pc = "act" /\ jobs' = deletejob(jobs, nextjid, f.pid).tbl
        /\ h' = [h EXCEPT !["CHLD"].pc = "start"] /\ UNCHANGED <<pc, slot, child>>
    BY <1>5 DEF ChldExited, ChldKilled, HandlerAt, kernelVars
  <2>2. h'["CHLD"].pc = "start"
    BY <1>1, <2>1
  <2>3. \A i \in Slots : jobs'[i].pid # f.pid /\ (jobs'[i] = jobs[i] \/ jobs'[i].pid = NoPid)
    <3>1. f.pid \in Pids /\ clearjob.pid = NoPid
      BY <2>1 DEF Reported, clearjob
    <3> QED BY <2>1, <3>1, DeletejobStep
  <2>4. InHand \subseteq {f.pid}
    BY DEF InHand
  <2> HIDE DEF f
  <2> QED BY <2>1, <2>2, <2>3, <2>4 DEF Reported, SlotKnown, StoppedButOne, AtRest
<1>6. ASSUME ChldStopped PROVE StopInv'
  <2> DEFINE k == getjobpid(jobs, f.pid)
  <2>1. /\ f.pc = "act" /\ f.why = "stopped" /\ k # NoSlot /\ jobs' = [jobs EXCEPT ![k].state = ST]
        /\ h' = [h EXCEPT !["CHLD"].pc = "start"] /\ UNCHANGED <<pc, slot, child>>
    BY <1>6 DEF ChldStopped, HandlerAt, kernelVars
  <2>2. h'["CHLD"].pc = "start"
    BY <1>1, <2>1
  <2>3. f.pid \in Pids /\ child[f.pid] \in {"stopped", "killed"} /\ InHand = {}
    BY <2>1 DEF Reported, Zombies, InHand
  <2>4. k \in Slots /\ jobs[k].pid = f.pid
    BY <1>1, <2>1, <2>3, GetjobpidFinds DEF TypeOK, Tables
  <2> HIDE DEF k, f
  <2>5. \A i \in Slots : /\ i # k => jobs'[i] = jobs[i]
                         /\ i = k => jobs'[i].pid = f.pid
    BY <1>1, <2>1, <2>4 DEF TypeOK, JobType
  <2> QED BY <2>1, <2>2, <2>3, <2>5 DEF Reported, SlotKnown, StoppedButOne, AtRest
<1>7. ASSUME ChldCrash PROVE StopInv'
  BY <1>7, ShellGoneStop DEF ChldCrash
<1> QED BY <1>3, <1>4, <1>5, <1>6, <1>7 DEF ChldStep

\* Key handlers, deliveries and children: the jobs stay, and only a child that runs changes.
LEMMA OthersStop ==
  ASSUME StopInv, ListInv',
         \/ \E s \in {"INT", "TSTP"} : KeyStep(s)
         \/ Exit
         \/ \E s \in Signals : Deliver(s) \/ Key(s)
         \/ \E p \in Pids : ChildStep(p)
  PROVE  StopInv'
<1> USE DEF StopInv, shellVars, handlerVars, kernelVars
<1>1. TypeOK /\ h \in [Signals -> HandlerType] /\ "CHLD" \in Signals
  BY StaticTypes DEF ListInv, TypeOK, HandlerType
<1>2. \A i \in Slots : jobs[i].pid # NoPid => jobs[i].pid \in Pids
  BY <1>1 DEF TypeOK, JobType
<1>3. ASSUME NEW s \in {"INT", "TSTP"}, KeyStep(s) PROVE StopInv'
  <2>1. UNCHANGED <<jobs, slot, child>> /\ (pc' = pc \/ (pc = "asleep" /\ pc' = "test"))
    BY <1>3 DEF KeyStep, KeyLookup, KeyForward, Return
  <2>2. h'["CHLD"] = h["CHLD"]
    BY <1>1, <1>3 DEF KeyStep, KeyLookup, KeyForward, Return
  <2> QED BY <2>1, <2>2 DEF Reported, SlotKnown, StoppedButOne, AtRest, InHand
<1>4. ASSUME Exit PROVE StopInv'
  BY <1>4, ShellGoneStop DEF Exit
<1>5. ASSUME NEW s \in Signals, Deliver(s) \/ Key(s) PROVE StopInv'
  <2>1. UNCHANGED <<jobs, slot, child, pc>>
    BY <1>5 DEF Deliver, Key
  <2>2. h'["CHLD"] = h["CHLD"] \/ h'["CHLD"].pc = "start"
    BY <1>1, <1>5 DEF Deliver, Key, Idle
  <2>3. InHand' = InHand
    BY <1>1, <1>5 DEF Deliver, Key, Idle, InHand, Blocked
  <2> QED BY <2>1, <2>2, <2>3 DEF Reported, SlotKnown, StoppedButOne, AtRest
<1>6. ASSUME NEW p \in Pids, ChildStep(p) PROVE StopInv'
  <2>1. PICK to \in ChildStates \ {"free"}, left \in {{}, csig[p], csig[p] \ {"TSTP"}} :
          /\ ChildTurns(p, to, left)
          /\ child[p] \in {"forked", "running"} \/ (child[p] = "stopped" /\ to = "killed")
    BY <1>6 DEF ChildStep, ChildExec, ChildExit, ChildStopsItself, ChildKilledOtherwise, ChildTakesInt,
                ChildTakesTstp, ChildStates, Zombies
  <2>2. child' = [child EXCEPT ![p] = to] /\ UNCHANGED <<jobs, pc, slot, h>>
    BY <2>1 DEF ChildTurns
  <2>3. \A q \in Pids : /\ child[q] = "free" => child'[q] = "free"
                        /\ child[q] \in {"stopped", "killed"} => child'[q] \in {"stopped", "killed"}
    BY <1>1, <2>1, <2>2 DEF TypeOK
  <2>4. InHand' = InHand
    BY <2>2 DEF InHand
  <2> QED BY <1>2, <2>2, <2>3, <2>4 DEF Reported, SlotKnown, StoppedButOne, AtRest
<1> QED BY <1>3, <1>4, <1>5, <1>6

LEMMA StopStep == StopInv /\ [Next]_vars => StopInv'
<1> SUFFICES ASSUME StopInv, [Next]_vars PROVE StopInv'
  OBVIOUS
<1>1. ListInv'
  BY ListStep DEF StopInv
<1>2. CASE UNCHANGED vars
  BY <1>1, <1>2 DEF StopInv, vars, shellVars, handlerVars, kernelVars, Reported, SlotKnown, StoppedButOne,
                    AtRest, InHand
<1>3. CASE Next
  <2>1. Builtins \subseteq {"bg", "fg"} /\ Keys \subseteq Signals
    BY TshAssumption DEF Signals
  <2> QED BY <1>1, <1>3, <2>1, MainStepStop, ChldStepStop, OthersStop DEF Next
<1> QED BY <1>2, <1>3

LEMMA StopInit == Init => StopInv
<1> SUFFICES ASSUME Init PROVE StopInv
  OBVIOUS
<1>1. \A i \in Slots : jobs[i].pid = NoPid
  BY DEF Init, initjobs, clearjob
<1>2. h["CHLD"].pc = "idle"
  BY StaticTypes DEF Init, Idle
<1> QED BY <1>1, <1>2, ListInit DEF Init, StopInv, Reported, SlotKnown, StoppedButOne

\* Outside the window of do_bgfg between the signal and the new state, a job marked ST is a
\* child that is stopped, or was killed while it was stopped.
THEOREM StoppedJobIsStoppedCorrect == Spec => []StoppedJobIsStopped
<1>1. StopInv => StoppedJobIsStopped
  BY DEF StopInv, StoppedButOne, StoppedJobIsStopped, AtRest
<1> QED BY <1>1, StopInit, StopStep, PTL DEF Spec

-----------------------------------------------------------------------------
(***************************************************************************)
(* Lost children.  With room for every child addjob finds a slot, so that  *)
(* the handler finds the job of every child that it reports.               *)
(***************************************************************************)
RoomForAll == MAXJOBS >= Cardinality(Pids)

AllListed ==
  RoomForAll =>
    /\ pc # "crashed"
    /\ Alive => Live \subseteq Listed \cup Forking
    /\ h["CHLD"].pc = "act" => h["CHLD"].pid \in Listed

RoomInv == StopInv /\ AllListed

\* If every slot is taken there are as many pids as slots, and all are listed.
LEMMA FullList ==
  ASSUME TypeOK, OneSlotPerPid, RoomForAll, NEW p \in Pids, p \notin Listed
  PROVE  \E k \in Slots : jobs[k].pid = NoPid
<1> SUFFICES ASSUME \A k \in Slots : jobs[k].pid # NoPid PROVE FALSE
  OBVIOUS
<1> DEFINE f == [k \in Slots |-> jobs[k].pid]
           Others == Pids \ {p}
<1>1. f \in Injection(Slots, Others)
  <2>1. f \in [Slots -> Others]
    BY DEF TypeOK, JobType, Listed
  <2>2. \A i, j \in Slots : f[i] = f[j] => i = j
    BY DEF OneSlotPerPid
  <2> HIDE DEF f
  <2> QED BY <2>1, <2>2 DEF Injection, IsInjective
<1>2. IsFiniteSet(Pids) /\ IsFiniteSet(Others) /\ Cardinality(Others) = Cardinality(Pids) - 1
  BY TshAssumption, FS_RemoveElement
<1>3. IsFiniteSet(Slots) /\ Cardinality(Slots) = MAXJOBS
  BY JobsAssumption, FS_Interval DEF Slots
<1> HIDE DEF f, Others
<1>4. Cardinality(Slots) <= Cardinality(Others)
  BY <1>1, <1>2, FS_Injection
<1>5. Cardinality(Pids) \in Nat
  BY <1>2, FS_CardinalityType
<1> QED BY <1>2, <1>3, <1>4, <1>5, JobsAssumption DEF RoomForAll

LEMMA MainStepRoom ==
  ASSUME RoomInv, StopInv', RoomForAll,
         \/ \E k \in {"fg", "bg"} : EvalBlock(k) \/ BgfgLookup(k)
         \/ MainStep
  PROVE  AllListed'
<1> USE DEF RoomInv, StopInv
<1>1. TypeOK /\ UNCHANGED <<active, h>> /\ active = <<>> /\ pc' \notin {"exited", "crashed"}
  <2>1. TypeOK /\ UNCHANGED <<active, h>> /\ active = <<>>
    BY MainStepJobs DEF ListInv
  <2> QED BY <2>1 DEF MainStep, EvalBlock, BgfgLookup, EvalFork, EvalAddJob, WaitfgTest,
                      WaitfgSuspend, BgfgCont, BgfgSetState
<1>2. h'["CHLD"].pc # "act"
  BY <1>1, MainAlone, StaticTypes DEF ListInv
<1>3. Alive /\ Live \subseteq Listed \cup Forking
  <2>1. Alive
    BY DEF Alive, MainStep, MainAt, EvalBlock, BgfgLookup, EvalFork, EvalAddJob, WaitfgTest,
           WaitfgSuspend, BgfgCont, BgfgSetState
  <2> QED BY <2>1 DEF AllListed
<1>4. SUFFICES Live' \subseteq Listed' \cup Forking'
  BY <1>1, <1>2 DEF AllListed
<1>5. CASE EvalAddJob
  <2>1. child' = child /\ pc = "addjob"
    BY <1>5 DEF EvalAddJob, MainAt, kernelVars
  <2>2. \A i \in Slots : jobs'[i].pid = jobs[i].pid \/ jobs[i].pid = NoPid
    BY <1>1, <1>5, AddjobStep DEF Added
  <2>3. Listed \subseteq Listed'
    BY <2>2 DEF Listed
  <2>4. ASSUME fpid # NoPid PROVE fpid \in Listed'
    <3>1. fpid \in Pids /\ fpid \notin Listed
      BY <1>1, <2>1, <2>4 DEF ListInv, NewChild, TypeOK
    <3>2. \E k \in Slots : jobs[k].pid = NoPid
      BY <1>1, <3>1, FullList DEF ListInv
    <3>3. \E k \in Slots : jobs'[k].pid = fpid
      BY <1>1, <1>5, <2>4, <3>2, AddjobStep
    <3> QED BY <2>4, <3>3 DEF Listed
  <2>5. Live' = Live
    BY <2>1 DEF Live
  <2> QED BY <1>3, <2>1, <2>3, <2>4, <2>5 DEF Forking
<1>6. CASE EvalFork
  <2>1. jobs' = jobs /\ pc = "fork" /\ pc' = "addjob"
    BY <1>6 DEF EvalFork, MainAt
  <2>2. Live' \subseteq Live \cup ({fpid'} \ {NoPid})
    <3>1. CASE \E p \in Pids : fpid' = p /\ child' = [child EXCEPT ![p] = "forked"]
      BY <1>1, <3>1, StaticTypes DEF Live, TypeOK
    <3>2. CASE child' = child
      BY <3>2 DEF Live
    <3> QED BY <1>6, <3>1, <3>2 DEF EvalFork
  <2>3. Forking = {} /\ Forking' = {fpid'} \ {NoPid} /\ Listed' = Listed
    BY <2>1 DEF Forking, Listed
  <2> QED BY <1>3, <2>2, <2>3
<1>7. CASE ~EvalAddJob /\ ~EvalFork
  <2>1. Live' \subseteq Live
    <3>1. CASE BgfgCont
      BY <1>1, <3>1 DEF BgfgCont, Live, TypeOK, kernelVars
    <3>2. CASE ~BgfgCont
      BY <1>1, <1>7, <3>2, MainStepJobs DEF Live
    <3> QED BY <3>1, <3>2
  <2>2. \A i \in Slots : jobs'[i].pid = jobs[i].pid
    <3>1. CASE BgfgSetState
      BY <1>1, <3>1 DEF BgfgSetState, TypeOK, JobType
    <3>2. CASE ~BgfgSetState
      BY <1>1, <1>7, <3>2, MainStepJobs
    <3> QED BY <3>1, <3>2
  <2>3. pc # "addjob"
    BY <1>7 DEF MainStep, MainAt, EvalBlock, BgfgLookup, EvalFork, EvalAddJob, WaitfgTest,
                WaitfgSuspend, BgfgCont, BgfgSetState
  <2> QED BY <1>3, <2>1, <2>2, <2>3 DEF Forking, Listed
<1> QED BY <1>5, <1>6, <1>7

LEMMA ChldStepRoom ==
  ASSUME RoomInv, StopInv', RoomForAll, ChldStep
  PROVE  AllListed'
<1> USE DEF RoomInv, StopInv
<1> DEFINE f == h["CHLD"]
<1>1. TypeOK /\ h \in [Signals -> HandlerType] /\ "CHLD" \in Signals
  BY StaticTypes DEF ListInv, TypeOK, HandlerType
<1>2. f.pc # "idle" /\ Alive
  BY DEF ChldStep, ChldReap, ChldNone, ChldExited, ChldKilled, ChldStopped, ChldCrash, HandlerAt
<1>3. pc # "addjob" /\ Forking = {} /\ Live \subseteq Listed
  BY <1>2 DEF ListInv, ForkGuarded, Forking, AllListed
<1>4. f.pc = "act" => f.pid \in Pids /\ f.pid \in Listed
  BY DEF AllListed, Reported
<1>5. ASSUME ChldReap PROVE AllListed'
  <2>1. PICK p \in Pids :
          /\ Reportable(p)
          /\ h' = [h EXCEPT !["CHLD"] = [pc |-> "act", pid |-> p, why |-> child[p]]]
          /\ child' = IF child[p] \in Zombies THEN [child EXCEPT ![p] = "free"] ELSE child
    BY <1>5 DEF ChldReap
  <2>2. UNCHANGED <<jobs, pc>>
    BY <1>5 DEF ChldReap, shellVars
  <2>3. h'["CHLD"].pid = p /\ p \in Listed
    BY <1>1, <1>3, <2>1 DEF Reportable, Zombies, Live
  <2>4. Live' \subseteq Live
    BY <1>1, <2>1 DEF Live, TypeOK
  <2> QED BY <1>2, <1>3, <2>2, <2>3, <2>4 DEF AllListed, Alive, Listed
<1>6. ASSUME ChldNone PROVE AllListed'
  <2>1. UNCHANGED <<jobs, child>> /\ h'["CHLD"].pc = "idle" /\ pc' \in {pc, "test"}
    BY <1>1, <1>6 DEF ChldNone, Return, kernelVars, Idle
  <2> QED BY <1>2, <1>3, <2>1 DEF AllListed, Alive, Listed, Live
<1>7. ASSUME ChldExited \/ ChldKilled PROVE AllListed'
  <2>1. /\ f.pc = "act" /\ f.why \in Zombies /\ jobs' = deletejob(jobs, nextjid, f.pid).tbl
        /\ h' = [h EXCEPT !["CHLD"].pc = "start"] /\ UNCHANGED <<pc, child>>
    BY <1>7 DEF ChldExited, ChldKilled, HandlerAt, kernelVars, Zombies
  <2>2. h'["CHLD"].pc = "start"
    BY <1>1, <2>1
  <2>3. f.pid \notin Live
    BY <2>1 DEF Reported, Live
  <2>4. \A i \in Slots : jobs'[i].pid = jobs[i].pid \/ jobs[i].pid = f.pid
    BY <1>4, <2>1, DeletejobStep
  <2>5. Live' = Live
    BY <2>1 DEF Live
  <2>6. Live \subseteq Listed'
    <3> HIDE DEF f
    <3> QED BY <1>3, <2>3, <2>4 DEF Listed
  <2> QED BY <1>2, <2>1, <2>2, <2>5, <2>6 DEF AllListed, Alive
<1>8. ASSUME ChldStopped PROVE AllListed'
  <2> DEFINE k == getjobpid(jobs, f.pid)
  <2>1. /\ jobs' = [jobs EXCEPT ![k].state = ST]
        /\ h' = [h EXCEPT !["CHLD"].pc = "start"] /\ UNCHANGED <<pc, child>>
    BY <1>8 DEF ChldStopped, kernelVars
  <2>2. h'["CHLD"].pc = "start"
    BY <1>1, <2>1
  <2> HIDE DEF k
  <2>3. \A i \in Slots : jobs'[i].pid = jobs[i].pid
    BY <1>1, <2>1 DEF TypeOK, JobType
  <2> QED BY <1>2, <1>3, <2>1, <2>2, <2>3 DEF AllListed, Alive, Listed, Live
<1>9. ~ChldCrash
  <2> SUFFICES ASSUME ChldCrash PROVE FALSE
    OBVIOUS
  <2>1. f.pc = "act" /\ getjobpid(jobs, f.pid) = NoSlot
    BY DEF ChldCrash, HandlerAt
  <2>2. f.pid \in Pids /\ \E i \in Slots : jobs[i].pid = f.pid
    BY <1>4, <2>1 DEF Listed
  <2> QED BY <1>1, <2>1, <2>2, GetjobpidFinds DEF TypeOK, Tables
<1> QED BY <1>5, <1>6, <1>7, <1>8, <1>9 DEF ChldStep

LEMMA OthersRoom ==
  ASSUME RoomInv, StopInv', RoomForAll,
         \/ \E s \in {"INT", "TSTP"} : KeyStep(s)
         \/ Exit
         \/ \E s \in Signals : Deliver(s) \/ Key(s)
         \/ \E p \in Pids : ChildStep(p)
  PROVE  AllListed'
<1> USE DEF RoomInv, StopInv, shellVars, handlerVars, kernelVars
<1>1. TypeOK /\ h \in [Signals -> HandlerType] /\ "CHLD" \in Signals
  BY StaticTypes DEF ListInv, TypeOK, HandlerType
<1>2. ASSUME NEW s \in {"INT", "TSTP"}, KeyStep(s) PROVE AllListed'
  <2>1. /\ UNCHANGED <<jobs, fpid, child>> /\ (pc' = pc \/ (pc = "asleep" /\ pc' = "test"))
    BY <1>2 DEF KeyStep, KeyLookup, KeyForward, Return
  <2>2. h'["CHLD"] = h["CHLD"]
    BY <1>1, <1>2 DEF KeyStep, KeyLookup, KeyForward, Return
  <2> QED BY <2>1, <2>2 DEF AllListed, Alive, Listed, Live, Forking
<1>3. ASSUME Exit PROVE AllListed'
  BY <1>1, <1>3 DEF Exit, ShellGone, AllListed, Alive, Idle
<1>4. ASSUME NEW s \in Signals, Deliver(s) \/ Key(s) PROVE AllListed'
  <2>1. UNCHANGED <<jobs, fpid, child, pc>>
    BY <1>4 DEF Deliver, Key
  <2>2. h'["CHLD"] = h["CHLD"] \/ h'["CHLD"].pc = "start"
    BY <1>1, <1>4 DEF Deliver, Key, Idle
  <2> QED BY <2>1, <2>2 DEF AllListed, Alive, Listed, Live, Forking
<1>5. ASSUME NEW p \in Pids, ChildStep(p) PROVE AllListed'
  <2>1. PICK to \in ChildStates, left \in {{}, csig[p], csig[p] \ {"TSTP"}} : ChildTurns(p, to, left) /\ child[p] # "free"
    BY <1>5 DEF ChildStep, ChildExec, ChildExit, ChildStopsItself, ChildKilledOtherwise, ChildTakesInt,
                ChildTakesTstp, ChildStates, Zombies
  <2>2. child' = [child EXCEPT ![p] = to] /\ UNCHANGED <<jobs, pc, fpid, h>>
    BY <2>1 DEF ChildTurns
  <2>3. Live' \subseteq Live
    BY <1>1, <2>1, <2>2 DEF Live, TypeOK
  <2> QED BY <2>2, <2>3 DEF AllListed, Alive, Listed, Forking
<1> QED BY <1>2, <1>3, <1>4, <1>5

LEMMA RoomStep == RoomInv /\ [Next]_vars => RoomInv'
<1> SUFFICES ASSUME RoomInv, [Next]_vars PROVE RoomInv'
  OBVIOUS
<1>1. StopInv'
  BY StopStep DEF RoomInv
<1>2. SUFFICES ASSUME RoomForAll PROVE AllListed'
  BY <1>1 DEF RoomInv, AllListed, RoomForAll
<1>3. CASE UNCHANGED vars
  BY <1>3 DEF RoomInv, AllListed, vars, shellVars, handlerVars, kernelVars, Alive, Listed, Live, Forking
<1>4. CASE Next
  <2>1. Builtins \subseteq {"bg", "fg"} /\ Keys \subseteq Signals
    BY TshAssumption DEF Signals
  <2> QED BY <1>1, <1>2, <1>4, <2>1, MainStepRoom, ChldStepRoom, OthersRoom DEF Next
<1> QED BY <1>3, <1>4

LEMMA RoomInit == Init => RoomInv
<1> SUFFICES ASSUME Init PROVE RoomInv
  OBVIOUS
<1>1. h["CHLD"].pc = "idle" /\ Live = {} /\ pc = "prompt"
  BY StaticTypes DEF Init, Idle, Live
<1> QED BY <1>1, StopInit DEF RoomInv, AllListed

\* With a slot for every child the handler never dereferences a missing job, and no child lives
\* on without its job, but the one that is being forked.
THEOREM NoLostChildCorrect == Spec => []NoLostChild
<1>1. RoomInv => NoLostChild
  BY DEF RoomInv, AllListed, RoomForAll, NoLostChild
<1> QED BY <1>1, RoomInit, RoomStep, PTL DEF Spec

=============================================================================
