-------------------------------- MODULE Jobs --------------------------------
(***************************************************************************)
(* The job list of the shell (tsh.c): an array of MAXJOBS slots, each with *)
(* a pid, a jid and a state, searched from the first slot.  The helpers    *)
(* are operators on the array; the shell module owns the array itself.     *)
(***************************************************************************)
EXTENDS Integers, FiniteSetsExt

CONSTANTS
  MAXJOBS,   \* number of slots
  Pids,      \* process ids the kernel can hand out
  NoPid      \* the pid of an empty slot (0 in the code)

ASSUME JobsAssumption == /\ MAXJOBS \in Nat \ {0}
                         /\ NoPid \notin Pids

Slots == 1 .. MAXJOBS
NoSlot == 0                                     \* a NULL struct job_t *

UNDEF == "UNDEF"
FG == "FG"
BG == "BG"
ST == "ST"

JobType == [pid : Pids \cup {NoPid}, jid : Nat, state : {UNDEF, FG, BG, ST}]

clearjob == [pid |-> NoPid, jid |-> 0, state |-> UNDEF]

initjobs == [i \in Slots |-> clearjob]

\* the first slot of a set, NULL when the search falls off the array
FirstSlot(S) == IF S = {} THEN NoSlot ELSE Min(S)

SlotsOf(t, p) == {i \in Slots : t[i].pid = p}

maxjid(t) == Max({0} \cup {t[i].jid : i \in Slots})

getjobpid(t, p) == IF p = NoPid THEN NoSlot ELSE FirstSlot(SlotsOf(t, p))

getjobjid(t, j) == IF j < 1 THEN NoSlot ELSE FirstSlot({i \in Slots : t[i].jid = j})

\* the pid of the FIRST slot in state FG, whatever that pid is
fgpid(t) ==
  LET s == FirstSlot({i \in Slots : t[i].state = FG})
  IN  IF s = NoSlot THEN NoPid ELSE t[s].pid

(***************************************************************************)
(* addjob and deletejob return the new array and the new nextjid.  A full  *)
(* array, or a pid below 1, leaves both alone.                             *)
(***************************************************************************)
\* wrong: the loop over the slots stops one short
addjobShort(t, next, p, s) ==
  LET i == FirstSlot(SlotsOf(t, NoPid) \ {MAXJOBS})
  IN  IF p = NoPid \/ i = NoSlot
      THEN [tbl |-> t, next |-> next]
      ELSE [tbl  |-> [t EXCEPT ![i] = [pid |-> p, jid |-> next, state |-> s]],
            next |-> IF next + 1 > MAXJOBS THEN 1 ELSE next + 1]

\* wrong: the loop does not return after the first free slot
addjobAll(t, next, p, s) ==
  IF p = NoPid
  THEN [tbl |-> t, next |-> next]
  ELSE [tbl  |-> [i \in Slots |-> IF t[i].pid = NoPid
                                 THEN [pid |-> p, jid |-> next, state |-> s] ELSE t[i]],
        next |-> IF next + 1 > MAXJOBS THEN 1 ELSE next + 1]

addjob(t, next, p, s) ==
  LET i == FirstSlot(SlotsOf(t, NoPid))
  IN  IF p = NoPid \/ i = NoSlot
      THEN [tbl |-> t, next |-> next]
      ELSE [tbl  |-> [t EXCEPT ![i] = [pid |-> p, jid |-> next, state |-> s]],
            next |-> IF next + 1 > MAXJOBS THEN 1 ELSE next + 1]

\* wrong: nextjid is one below the largest jid, not one above
deletejobBelow(t, next, p) ==
  LET i == getjobpid(t, p)
      cleared == [t EXCEPT ![i] = clearjob]
  IN  IF i = NoSlot
      THEN [tbl |-> t, next |-> next]
      ELSE [tbl |-> cleared, next |-> maxjid(cleared) - 1]

deletejob(t, next, p) ==
  LET i == getjobpid(t, p)
      cleared == [t EXCEPT ![i] = clearjob]
  IN  IF i = NoSlot
      THEN [tbl |-> t, next |-> next]
      ELSE [tbl |-> cleared, next |-> maxjid(cleared) + 1]
=============================================================================
