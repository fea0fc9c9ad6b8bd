-------------------------------- MODULE Tsh ---------------------------------
(***************************************************************************)
(* The job-control shell tsh.c: one flow of control (main, eval, do_bgfg,  *)
(* waitfg) that signal handlers interrupt between any two steps, and the   *)
(* child processes it forks.  A block of code that runs with every signal  *)
(* blocked is one step.  Children are one process per process group.       *)
(***************************************************************************)
EXTENDS Jobs, Sequences, FiniteSets

CONSTANTS
  Keys,       \* the keyboard signals the user may send: a subset of {"INT", "TSTP"}
  Builtins,   \* the job-control builtins the user may type: a subset of {"bg", "fg"}
  JidBound    \* no command is started once nextjid exceeds this

ASSUME TshAssumption == /\ Keys \subseteq {"INT", "TSTP"}
                        /\ Builtins \subseteq {"bg", "fg"}
                        /\ JidBound \in Nat
                        /\ IsFiniteSet(Pids)

Signals == {"INT", "TSTP", "CHLD"}

VARIABLES
  jobs,        \* the job list
  nextjid,     \* next job ID to allocate
  pc,          \* where main is
  cmd,         \* the command main executes: "fg" or "bg" (do_bgfg, and eval's bg flag)
  fpid,        \* eval's local pid
  slot,        \* do_bgfg's job pointer
  mask,        \* signals main has blocked with sigprocmask
  pending,     \* signals pending for the shell
  active,      \* the handlers on the stack, innermost last
  h,           \* for each signal its handler's program counter and locals
  child,       \* the kernel's view of each process
  unreported,  \* stopped children waitpid has not reported yet
  csig         \* keyboard signals forwarded to a child and not yet taken

shellVars == <<jobs, nextjid, pc, cmd, fpid, slot, mask>>
handlerVars == <<active, h>>
kernelVars == <<child, unreported, csig>>
vars == <<shellVars, pending, handlerVars, kernelVars>>

MainPcs == {"prompt", "fork", "addjob", "test", "suspend", "asleep",
            "cont", "setstate", "exited", "crashed"}

Zombies == {"exited", "killed"}
ChildStates == {"free", "forked", "running", "stopped"} \cup Zombies

Idle == [pc |-> "idle", pid |-> NoPid, why |-> "free"]

TypeOK ==
  /\ jobs \in [Slots -> JobType]
  /\ nextjid \in Nat
  /\ pc \in MainPcs
  /\ cmd \in {"fg", "bg"}
  /\ fpid \in Pids \cup {NoPid}
  /\ slot \in Slots \cup {NoSlot}
  /\ mask \subseteq Signals
  /\ pending \subseteq Signals
  /\ active \in Seq(Signals)
  /\ h \in [Signals -> [pc  : {"idle", "start", "act"},
                        pid : Pids \cup {NoPid},
                        why : ChildStates]]
  /\ child \in [Pids -> ChildStates]
  /\ unreported \subseteq Pids
  /\ csig \in [Pids -> SUBSET {"INT", "TSTP"}]

Init ==
  /\ jobs = initjobs
  /\ nextjid = 1
  /\ pc = "prompt"
  /\ cmd = "fg"
  /\ fpid = NoPid
  /\ slot = NoSlot
  /\ mask = {}
  /\ pending = {}
  /\ active = <<>>
  /\ h = [s \in Signals |-> Idle]
  /\ child = [p \in Pids |-> "free"]
  /\ unreported = {}
  /\ csig = [p \in Pids |-> {}]

Alive == pc \notin {"exited", "crashed"}

\* eval and do_bgfg leave no local behind
NoLocals == cmd' = "fg" /\ fpid' = NoPid /\ slot' = NoSlot

\* the process is gone with its memory, mask and handlers; its children are not
ShellGone ==
  /\ jobs' = initjobs /\ nextjid' = 1 /\ mask' = {} /\ pending' = {} /\ active' = <<>>
  /\ h' = [s \in Signals |-> Idle]
  /\ NoLocals
  /\ UNCHANGED kernelVars

\* who runs: main when no handler is on the stack, else the innermost handler
MainAt(label) == active = <<>> /\ pc = label
Top == active[Len(active)]
HandlerAt(s, label) == Alive /\ active # <<>> /\ Top = s /\ h[s].pc = label

(***************************************************************************)
(* main and eval.  Running a command blocks SIGCHLD before the fork and    *)
(* restores the mask once the job is in the list.                          *)
(***************************************************************************)
\* wrong: SIGCHLD stays unblocked across fork and addjob
EvalBlockOpen(k) ==
  /\ MainAt("prompt")
  /\ nextjid <= JidBound
  /\ cmd' = k
  /\ pc' = "fork"
  /\ UNCHANGED <<jobs, nextjid, fpid, slot, mask, pending, handlerVars, kernelVars>>

EvalBlock(k) ==
  /\ MainAt("prompt")
  /\ nextjid <= JidBound
  /\ cmd' = k
  /\ mask' = mask \cup {"CHLD"}
  /\ pc' = "fork"
  /\ UNCHANGED <<jobs, nextjid, fpid, slot, pending, handlerVars, kernelVars>>

EvalFork ==
  /\ MainAt("fork")
  /\ pc' = "addjob"
  /\ \/ \E p \in Pids :
          /\ child[p] = "free"
          /\ fpid' = p
          /\ child' = [child EXCEPT ![p] = "forked"]
     \/ /\ fpid' = NoPid                        \* fork failed; the code goes on
        /\ UNCHANGED child
  /\ UNCHANGED <<jobs, nextjid, cmd, slot, mask, pending, handlerVars, unreported, csig>>

EvalAddJob ==
  /\ MainAt("addjob")
  /\ LET r == addjob(jobs, nextjid, fpid, IF cmd = "bg" THEN BG ELSE FG)
     IN  jobs' = r.tbl /\ nextjid' = r.next
  /\ mask' = mask \ {"CHLD"}
  /\ pc' = IF cmd = "bg" THEN "prompt" ELSE "test"
  /\ NoLocals
  /\ UNCHANGED <<pending, handlerVars, kernelVars>>

(***************************************************************************)
(* waitfg: test fgpid with SIGCHLD unblocked, then sigsuspend with an      *)
(* empty mask; sigsuspend returns after a handler has run.                 *)
(***************************************************************************)
WaitfgTest ==
  /\ MainAt("test")
  /\ pc' = IF fgpid(jobs) # NoPid THEN "suspend" ELSE "prompt"
  /\ UNCHANGED <<jobs, nextjid, cmd, fpid, slot, mask, pending, handlerVars, kernelVars>>

WaitfgSuspend ==
  /\ MainAt("suspend")
  /\ pc' = "asleep"
  /\ UNCHANGED <<jobs, nextjid, cmd, fpid, slot, mask, pending, handlerVars, kernelVars>>

(***************************************************************************)
(* do_bgfg: look the job up by pid or by jid, send its group SIGCONT, then *)
(* write the state through the pointer, with no signal blocked throughout. *)
(***************************************************************************)
FoundJobs == ({getjobpid(jobs, p) : p \in Pids}
              \cup {getjobjid(jobs, j) : j \in 1 .. maxjid(jobs)}) \ {NoSlot}

BgfgLookup(k) ==
  /\ MainAt("prompt")
  /\ \E s \in FoundJobs : slot' = s
  /\ cmd' = k
  /\ pc' = "cont"
  /\ UNCHANGED <<jobs, nextjid, fpid, mask, pending, handlerVars, kernelVars>>

\* SIGCONT resumes a stopped child, discards its pending SIGTSTP and makes the
\* kernel post SIGCHLD; a job deleted meanwhile has pid 0 and nothing happens.
BgfgCont ==
  /\ MainAt("cont")
  /\ LET p == jobs[slot].pid
     IN  IF p # NoPid /\ child[p] \in {"running", "stopped"}
         THEN /\ child' = [child EXCEPT ![p] = "running"]
              /\ csig' = [csig EXCEPT ![p] = @ \ {"TSTP"}]
              /\ unreported' = unreported \ {p}
              /\ pending' = IF child[p] = "stopped" THEN pending \cup {"CHLD"} ELSE pending
         ELSE UNCHANGED <<kernelVars, pending>>
  /\ pc' = "setstate"
  /\ UNCHANGED <<jobs, nextjid, cmd, fpid, slot, mask, handlerVars>>

\* wrong: bg continues the job and leaves its state alone
BgfgSetStateFgOnly ==
  /\ MainAt("setstate")
  /\ jobs' = IF cmd = "bg" THEN jobs ELSE [jobs EXCEPT ![slot].state = FG]
  /\ pc' = IF cmd = "bg" THEN "prompt" ELSE "test"
  /\ NoLocals
  /\ UNCHANGED <<nextjid, mask, pending, handlerVars, kernelVars>>

BgfgSetState ==
  /\ MainAt("setstate")
  /\ jobs' = [jobs EXCEPT ![slot].state = IF cmd = "bg" THEN BG ELSE FG]
  /\ pc' = IF cmd = "bg" THEN "prompt" ELSE "test"
  /\ NoLocals
  /\ UNCHANGED <<nextjid, mask, pending, handlerVars, kernelVars>>

\* quit, end of input, or SIGQUIT at any moment
Exit ==
  /\ Alive
  /\ pc' = "exited"
  /\ ShellGone

(***************************************************************************)
(* Signals.  The kernel enters a handler whose signal is pending and       *)
(* neither blocked by main nor being handled; handlers of different        *)
(* signals nest.                                                           *)
(***************************************************************************)
Blocked == mask \cup {s \in Signals : h[s].pc # "idle"}

Deliver(s) ==
  /\ Alive
  /\ s \in pending \ Blocked
  /\ pending' = pending \ {s}
  /\ active' = Append(active, s)
  /\ h' = [h EXCEPT ![s] = [Idle EXCEPT !.pc = "start"]]
  /\ UNCHANGED <<shellVars, kernelVars>>

\* wrong: waitfg tests once, with if for while
ReturnToPrompt(s) ==
  /\ active' = SubSeq(active, 1, Len(active) - 1)
  /\ h' = [h EXCEPT ![s] = Idle]
  /\ pc' = IF Len(active) = 1 /\ pc = "asleep" THEN "prompt" ELSE pc
  /\ UNCHANGED <<jobs, nextjid, cmd, fpid, slot, mask>>

\* the handler of s returns; the last one to return ends a sigsuspend
Return(s) ==
  /\ active' = SubSeq(active, 1, Len(active) - 1)
  /\ h' = [h EXCEPT ![s] = Idle]
  /\ pc' = IF Len(active) = 1 /\ pc = "asleep" THEN "test" ELSE pc
  /\ UNCHANGED <<jobs, nextjid, cmd, fpid, slot, mask>>

Reportable(p) == child[p] \in Zombies \/ (child[p] = "stopped" /\ p \in unreported)

\* one waitpid(-1, WNOHANG | WUNTRACED) that finds a child
ChldReap ==
  /\ HandlerAt("CHLD", "start")
  /\ \E p \in Pids :
       /\ Reportable(p)
       /\ h' = [h EXCEPT !["CHLD"] = [pc |-> "act", pid |-> p, why |-> child[p]]]
       /\ child' = IF child[p] \in Zombies THEN [child EXCEPT ![p] = "free"] ELSE child
       /\ unreported' = unreported \ {p}
  /\ UNCHANGED <<shellVars, pending, active, csig>>

ChldNone ==
  /\ HandlerAt("CHLD", "start")
  /\ \A p \in Pids : ~Reportable(p)
  /\ Return("CHLD")
  /\ UNCHANGED <<pending, kernelVars>>

\* wrong: one waitpid per signal, with if for while
ChldExitedOnce ==
  /\ HandlerAt("CHLD", "act")
  /\ h["CHLD"].why = "exited"
  /\ LET r == deletejob(jobs, nextjid, h["CHLD"].pid)
     IN  jobs' = r.tbl /\ nextjid' = r.next
  /\ h' = [h EXCEPT !["CHLD"] = Idle]
  /\ active' = SubSeq(active, 1, Len(active) - 1)
  /\ pc' = IF Len(active) = 1 /\ pc = "asleep" THEN "test" ELSE pc
  /\ UNCHANGED <<cmd, fpid, slot, mask, pending, kernelVars>>

\* an exited child is deleted if it is listed; the two other branches
\* dereference the job and kill the shell when it is not
ChldExited ==
  /\ HandlerAt("CHLD", "act")
  /\ h["CHLD"].why = "exited"
  /\ LET r == deletejob(jobs, nextjid, h["CHLD"].pid)
     IN  jobs' = r.tbl /\ nextjid' = r.next
  /\ h' = [h EXCEPT !["CHLD"].pc = "start"]
  /\ UNCHANGED <<pc, cmd, fpid, slot, mask, pending, active, kernelVars>>

ChldKilled ==
  /\ HandlerAt("CHLD", "act")
  /\ h["CHLD"].why = "killed"
  /\ getjobpid(jobs, h["CHLD"].pid) # NoSlot
  /\ LET r == deletejob(jobs, nextjid, h["CHLD"].pid)
     IN  jobs' = r.tbl /\ nextjid' = r.next
  /\ h' = [h EXCEPT !["CHLD"].pc = "start"]
  /\ UNCHANGED <<pc, cmd, fpid, slot, mask, pending, active, kernelVars>>

ChldStopped ==
  /\ HandlerAt("CHLD", "act")
  /\ h["CHLD"].why = "stopped"
  /\ LET i == getjobpid(jobs, h["CHLD"].pid)
     IN  /\ i # NoSlot
         /\ jobs' = [jobs EXCEPT ![i].state = ST]
  /\ h' = [h EXCEPT !["CHLD"].pc = "start"]
  /\ UNCHANGED <<nextjid, pc, cmd, fpid, slot, mask, pending, active, kernelVars>>

ChldCrash ==
  /\ HandlerAt("CHLD", "act")
  /\ h["CHLD"].why \in {"killed", "stopped"}
  /\ getjobpid(jobs, h["CHLD"].pid) = NoSlot
  /\ pc' = "crashed"
  /\ ShellGone

(***************************************************************************)
(* sigint_handler and sigtstp_handler: read fgpid, then kill its group.  A *)
(* child that has not reached execve has no group of its own yet, or still *)
(* the handlers of the shell: the signal is lost on it.                    *)
(***************************************************************************)
KeyLookup(s) ==
  /\ HandlerAt(s, "start")
  /\ h' = [h EXCEPT ![s].pc = "act", ![s].pid = fgpid(jobs)]
  /\ UNCHANGED <<shellVars, pending, active, kernelVars>>

\* wrong: the handler returns without sending the signal on
KeyForwardDropped(s) ==
  /\ HandlerAt(s, "act")
  /\ Return(s)
  /\ UNCHANGED <<pending, kernelVars>>

KeyForward(s) ==
  /\ HandlerAt(s, "act")
  /\ LET p == h[s].pid
     IN  csig' = IF p # NoPid /\ child[p] \in {"running", "stopped"}
                 THEN [csig EXCEPT ![p] = @ \cup {s}]
                 ELSE csig
  /\ Return(s)
  /\ UNCHANGED <<pending, child, unreported>>

(***************************************************************************)
(* The environment: the keyboard and the children.                         *)
(***************************************************************************)
Key(s) ==
  /\ Alive
  /\ s \notin pending
  /\ pending' = pending \cup {s}
  /\ UNCHANGED <<shellVars, handlerVars, kernelVars>>

\* a child changes state with the signals left pending for it and, unless it starts
\* its program, SIGCHLD is posted
ChildTurns(p, to, left) ==
  /\ Alive
  /\ child' = [child EXCEPT ![p] = to]
  /\ csig' = [csig EXCEPT ![p] = left]
  /\ pending' = IF to = "running" THEN pending ELSE pending \cup {"CHLD"}
  /\ unreported' = IF to = "stopped" THEN unreported \cup {p} ELSE unreported
  /\ UNCHANGED <<shellVars, handlerVars>>

ChildExec(p) == child[p] = "forked" /\ ChildTurns(p, "running", csig[p])

\* from "forked": setpgid or execve failed
ChildExit(p) == child[p] \in {"forked", "running"} /\ ChildTurns(p, "exited", {})

ChildStopsItself(p) == child[p] = "running" /\ ChildTurns(p, "stopped", csig[p])

\* a signal the shell has no part in: the child raises it (myint.c), or another
\* process sends it
ChildKilledOtherwise(p) ==
  child[p] \in {"running", "stopped"} /\ ChildTurns(p, "killed", {})

ChildTakesInt(p) ==
  child[p] = "running" /\ "INT" \in csig[p] /\ ChildTurns(p, "killed", {})

ChildTakesTstp(p) ==
  child[p] = "running" /\ "TSTP" \in csig[p] /\ ChildTurns(p, "stopped", csig[p] \ {"TSTP"})

-----------------------------------------------------------------------------
MainStep == \/ EvalFork \/ EvalAddJob
            \/ WaitfgTest \/ WaitfgSuspend
            \/ BgfgCont \/ BgfgSetState

ChldStep == \/ ChldReap \/ ChldNone
            \/ ChldExited \/ ChldKilled \/ ChldStopped \/ ChldCrash

KeyStep(s) == KeyLookup(s) \/ KeyForward(s)

ChildStep(p) == \/ ChildExec(p) \/ ChildExit(p) \/ ChildStopsItself(p)
                \/ ChildKilledOtherwise(p) \/ ChildTakesInt(p) \/ ChildTakesTstp(p)

Next == \/ \E k \in {"fg", "bg"} : EvalBlock(k)
        \/ \E k \in Builtins : BgfgLookup(k)
        \/ MainStep
        \/ Exit
        \/ \E s \in Signals : Deliver(s)
        \/ ChldStep
        \/ \E s \in {"INT", "TSTP"} : KeyStep(s)
        \/ \E s \in Keys : Key(s)
        \/ \E p \in Pids : ChildStep(p)

Spec == Init /\ [][Next]_vars

(***************************************************************************)
(* Fairness: the scheduler runs the shell, the kernel delivers an          *)
(* unblocked pending signal (strong: a signal blocked now and then is      *)
(* delivered when it is unblocked; a handler interrupted now and then still*)
(* advances), and a running child takes a signal sent to it.  The user     *)
(* need not type, and a child need neither start nor end.                  *)
(***************************************************************************)
FairSpec ==
  /\ Spec
  /\ SF_vars(MainStep)
  /\ SF_vars(ChldStep)
  /\ \A s \in {"INT", "TSTP"} : SF_vars(KeyStep(s))
  /\ \A s \in Signals : SF_vars(Deliver(s))
  /\ \A p \in Pids : WF_vars(ChildTakesInt(p) \/ ChildTakesTstp(p))

-----------------------------------------------------------------------------
(***************************************************************************)
(* Properties.                                                             *)
(***************************************************************************)
Listed == {jobs[i].pid : i \in Slots} \ {NoPid}
Live == {p \in Pids : child[p] # "free"}
\* reaped by the SIGCHLD handler, its job not deleted yet
InHand == IF h["CHLD"].pc = "act" /\ h["CHLD"].why \in Zombies
          THEN {h["CHLD"].pid} ELSE {}
\* forked by eval, not added to the list yet
Forking == IF pc = "addjob" THEN {fpid} \ {NoPid} ELSE {}

\* Every listed job is a child the kernel still knows, or the one the handler is
\* about to delete: no job is added after its child was reaped (eval's comment
\* on blocking SIGCHLD around fork and addjob).
NoGhostJob == Listed \subseteq Live \cup InHand

\* While the list has room for all children the shell does not crash on an
\* unlisted one, and every child alive is listed or just being forked.
NoLostChild ==
  MAXJOBS >= Cardinality(Pids) =>
    pc # "crashed" /\ (Alive => Live \subseteq Listed \cup Forking)

\* A pid is in at most one slot, so deletejob and getjobpid, which stop at the
\* first match, reach the job they mean.
OneSlotPerPid == \A i, j \in Slots : jobs[i].pid = jobs[j].pid /\ i # j => jobs[i].pid = NoPid

(***************************************************************************)
(* The inductive invariant behind NoGhostJob: an interrupted or running    *)
(* handler is on the stack; while a fork is under way SIGCHLD is blocked   *)
(* and its handler is not on the stack; the child about to be added is new *)
(* to the list.                                                            *)
(***************************************************************************)
HandlersOnStack ==
  \A s \in Signals : h[s].pc # "idle" => \E i \in 1 .. Len(active) : active[i] = s

ForkGuarded == pc \in {"fork", "addjob"} => "CHLD" \in mask /\ h["CHLD"].pc = "idle"

NewChild == pc = "addjob" /\ fpid # NoPid => fpid \notin Listed /\ child[fpid] # "free"

ListInv == /\ TypeOK
           /\ NoGhostJob
           /\ OneSlotPerPid
           /\ HandlersOnStack
           /\ ForkGuarded
           /\ NewChild

\* Outside the kill-then-assign window of do_bgfg, no child runs on unnoticed
\* behind the state ST: a job listed as stopped is stopped, or was killed in that
\* state and is about to be deleted.
StoppedJobIsStopped ==
  pc \notin {"setstate", "exited", "crashed"} =>
    \A i \in Slots : jobs[i].state = ST /\ jobs[i].pid # NoPid =>
      \/ child[jobs[i].pid] \in {"stopped", "killed"}
      \/ jobs[i].pid \in InHand

\* The header of tsh.c: at most 1 job can be in the FG state.  With fg, a job
\* deleted between the lookup and the write leaves an empty slot marked FG; a
\* job in a later slot then goes to the foreground unseen by fgpid.
AtMostOneForeground ==
  \A i, j \in {k \in Slots : jobs[k].state = FG /\ jobs[k].pid # NoPid} : i = j

\* Every child that ends is reaped while the shell lives.
ZombiesReaped == \A p \in Pids : child[p] \in Zombies ~> child[p] = "free" \/ ~Alive

\* waitfg returns once no job is in the foreground.
Waiting == pc \in {"test", "suspend", "asleep"}
WaitfgReturns == Waiting /\ fgpid(jobs) = NoPid ~> ~Waiting

\* A ctrl-c typed while main waits for a running foreground child ends or stops
\* that child.
CtrlCTakesEffect ==
  \A p \in Pids :
    (/\ Waiting /\ "INT" \in pending /\ fgpid(jobs) = p /\ child[p] = "running")
      ~> (child[p] # "running" \/ ~Alive)
=============================================================================
