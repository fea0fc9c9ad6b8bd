------------------------------- MODULE Tracer -------------------------------
(***************************************************************************)
(* debugger.cpp: a breakpoint at the first byte of every function of the    *)
(* traced program. A breakpoint is one byte, but ptrace reads and writes    *)
(* whole words: the word at an address covers the WORD bytes from it on.    *)
(* Of a byte the model keeps only whether it is the breakpoint's.           *)
(***************************************************************************)
EXTENDS Integers, Sequences, FiniteSets, FiniteSetsExt

CONSTANTS Text,      \* the addresses of the program's text
          WORD,      \* bytes of a word of ptrace: 8
          bp_count,  \* named functions of the traced program
          MaxCalls   \* bound: instructions the tracee runs on its own

VARIABLES breakpoints,    \* per function, in the order of the symbol table: addr
          original_code,  \* per breakpoint, what its word had of breakpoints
          text,           \* the addresses that hold a breakpoint's byte
          phase,          \* of the tracer, with the tracee running in "wait"
          rip,
          steps,
          missed          \* functions entered without a trap

tracevars == <<breakpoints, original_code, text, phase, rip, steps, missed>>

WordAt(addr) == addr .. addr + WORD - 1
Peek(addr) == text \cap WordAt(addr)
Poke(addr, code) == text' = (text \ WordAt(addr)) \cup code

\* (code & BKPT_MASK) | BKPT
BpCode(i, code) == code \cup {breakpoints[i]}

Ids(addr) == {i \in 1 .. Len(breakpoints) : breakpoints[i] = addr}

\* wrong: the last breakpoint at the address, which saved the first one's byte
get_bp_idLast(addr) == IF Ids(addr) = {} THEN -1 ELSE Max(Ids(addr))

\* get_bp_id: the first breakpoint at the address.
get_bp_id(addr) == IF Ids(addr) = {} THEN -1 ELSE Min(Ids(addr))

\* parse_elf_file, external input: functions at any addresses in any order.
TraceInit ==
    /\ breakpoints \in [1 .. bp_count -> Text]
    /\ original_code = <<>>
    /\ text = {}
    /\ phase = "insert"
    /\ rip \in Text
    /\ steps = 0
    /\ missed = {}

\* A turn of insert_brakepoints: peek, then poke.
Insert ==
    /\ phase = "insert" /\ Len(original_code) < Len(breakpoints)
    /\ LET i == Len(original_code) + 1 IN
         /\ original_code' = Append(original_code, Peek(breakpoints[i]))
         /\ Poke(breakpoints[i], BpCode(i, Peek(breakpoints[i])))
    /\ UNCHANGED <<breakpoints, phase, rip, steps, missed>>

\* PTRACE_CONT.
Start ==
    /\ phase = "insert" /\ Len(original_code) = Len(breakpoints)
    /\ phase' = "wait"
    /\ UNCHANGED <<breakpoints, original_code, text, rip, steps, missed>>

\* The tracee, external: an instruction that goes anywhere, or a trap.
Run ==
    /\ phase = "wait" /\ rip \notin text /\ steps < MaxCalls
    /\ rip' \in Text
    /\ steps' = steps + 1
    /\ missed' = IF Ids(rip) = {} THEN missed ELSE missed \cup {rip}
    /\ UNCHANGED <<breakpoints, original_code, text, phase>>

Trap ==
    /\ phase = "wait" /\ rip \in text
    /\ rip' = rip + 1
    /\ phase' = "trapped"
    /\ UNCHANGED <<breakpoints, original_code, text, steps, missed>>

\* PTRACE_GETREGS to the poke of the original code; an unknown trap ends the trace.
Restore ==
    /\ phase = "trapped"
    /\ LET id == get_bp_id(rip - 1) IN
         IF id = -1 THEN phase' = "unexpected" /\ UNCHANGED <<rip, text>>
         ELSE /\ rip' = breakpoints[id]
              /\ Poke(breakpoints[id], original_code[id])
              /\ phase' = "step"
    /\ UNCHANGED <<breakpoints, original_code, steps, missed>>

\* PTRACE_SINGLESTEP over the original instruction, then the breakpoint again;
\* a byte that still traps goes back to waiting.
StepAndRearm ==
    /\ phase = "step"
    /\ LET id == get_bp_id(rip) IN
         IF rip \in text THEN phase' = "stuck" /\ UNCHANGED <<rip, text>>
         ELSE /\ rip' \in Text
              /\ Poke(breakpoints[id], BpCode(id, original_code[id]))
              /\ phase' = "wait"
    /\ UNCHANGED <<breakpoints, original_code, steps, missed>>

TraceNext == Insert \/ Start \/ Run \/ Trap \/ Restore \/ StepAndRearm

TraceSpec == TraceInit /\ [][TraceNext]_tracevars

---------------------------------------------------------------------------

\* A function inserted before it has its first byte in the same word.
Shadowed(a) == \E i, j \in 1 .. Len(breakpoints) :
    /\ i < j /\ breakpoints[j] = a
    /\ a \in WordAt(breakpoints[i]) \ {breakpoints[i]}

\* A function's calls go unseen only if its first byte lies in the word of a
\* function inserted before it; the tracer never takes a trap for unexpected
\* and never steps onto its own breakpoint.
TraceExact ==
    /\ phase \notin {"unexpected", "stuck"}
    /\ \A a \in missed : Shadowed(a)
=============================================================================
