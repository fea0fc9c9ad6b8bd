------------------------------ MODULE MCTools ------------------------------
(***************************************************************************)
(* The small sequential programs, side by side in one run: process creation *)
(* in lab4, the cache simulator, the datalab test harness, its puzzles on    *)
(* all words, the search of the debug information on generated tables, and   *)
(* the tracer. A behaviour is of one program (prog).                         *)
(***************************************************************************)
EXTENDS Proc, Csim, Btest, Kdebug, Tracer

VARIABLES prog, input

---------------------------------------------------------------------------
(* Options and wrong answers of the harness *)

NumberText(arg, hex, dot, e, junk, int, bits) ==
    [key |-> "arg", arg |-> arg,
     text |-> [hex |-> hex, dot |-> dot, e |-> e, junk |-> junk, int |-> int, bits |-> bits]]
MCOptions ==
    {[key |-> "f", name |-> n] : n \in {"isLessOrEqual", "conditional", "rotate"}} \cup
    {[key |-> "r", num |-> 5], [key |-> "r", num |-> -1], [key |-> "T", num |-> 0],
     NumberText(1, FALSE, FALSE, FALSE, FALSE, -3, 0),        \* -3
     NumberText(1, TRUE, FALSE, TRUE, FALSE, 2^W, 0),        \* a hex number that is too long
     NumberText(2, FALSE, TRUE, FALSE, FALSE, 1, 60),      \* 1.5
     NumberText(3, FALSE, TRUE, FALSE, TRUE, 1, 60)}       \* 1.5 and a letter
MCFaults ==
    {[name |-> "isTmax", at |-> 1 :> TMax], [name |-> "bitXor", at |-> 1 :> 0],
     [name |-> "isLessOrEqual", at |-> 1 :> 0 @@ 2 :> SignBit],
     [name |-> "conditional", at |-> 2 :> SignBit @@ 3 :> 100]}

---------------------------------------------------------------------------
(* The puzzles *)

OneArg == {p.name : p \in {q \in Range(test_set) : q.args = 1}}
Corners == {0, 1, 90, 127, 128, 255}
Right(n, a) == solution_funct(n, a) = test_funct(n, a)

\* Every puzzle computes what tests.c asks of it, on all words, all pairs of
\* words, and the corners of the third argument; but for floatPower2's gap.
PuzzlesRight == prog = "words" =>
    /\ Right("tmin", <<>>)
    /\ \A n \in OneArg : Right(n, <<input>>) \/ (n = "floatPower2" /\ PowerGap(input))
    /\ \A y \in Word : Right("bitXor", <<input, y>>) /\ Right("isLessOrEqual", <<input, y>>)
    /\ \A y, z \in Corners : Right("conditional", <<input, y, z>>)

---------------------------------------------------------------------------
(* Tables of stabs *)

Stab(type, value, desc) == [type |-> type, value |-> value, desc |-> desc]
Table(s) == [k \in 0 .. Len(s) - 1 |-> [strx |-> k] @@ s[k + 1]]
Header == Stab("N_UNDF", 0, 0)

\* Four stabs in the order of their values, of two types.
SortedTables ==
    {Table(<<Header>> \o [k \in 1 .. 4 |-> Stab(t[k], v[k], 0)]) :
       t \in [1 .. 4 -> {N_FUN, N_SLINE}],
       v \in {w \in [1 .. 4 -> 0 .. 3] : \A k \in 1 .. 3 : w[k] <= w[k + 1]}}

\* A function: parameters, its lines' offsets, a line of an included file, and
\* perhaps one more stab behind them.
FunShapes == [lines : {<<0>>, <<0, 1>>, <<0, 2>>, <<0, 2, 4>>}, psyms : 0 .. 2,
              included : 0 .. 2, tail : BOOLEAN]
Funs == {f \in FunShapes : f.included <= Len(f.lines)}
Size(f) == IF Len(f.lines) = 1 THEN 1 ELSE 5
LineStabs(f, k) ==
    (IF f.included = k THEN <<Stab(N_SOL, 0, 0)>> ELSE <<>>) \o <<Stab(N_SLINE, f.lines[k], k)>>
FunStabs(f, addr) ==
    <<Stab(N_FUN, addr, 0)>> \o [k \in 1 .. f.psyms |-> Stab(N_PSYM, 8, 0)]
      \o FlattenSeq([k \in 1 .. Len(f.lines) |-> LineStabs(f, k)])
      \o (IF f.tail THEN <<Stab("N_LBRAC", 0, 0)>> ELSE <<>>)

\* A file of two functions and a file of one.
FileTables ==
    {LET g1 == 1 + Size(f)
         h1 == g1 + Size(g)
     IN  Table(<<Header, Stab(N_SO, 1, 0)>> \o FunStabs(f, 1) \o FunStabs(g, g1)
               \o <<Stab(N_SO, h1, 0)>> \o FunStabs(h, h1)) :
       f \in Funs,
       g \in {f \in Funs : f.included = 0},
       h \in {f \in Funs : f.included = 0 /\ f.psyms = 1 /\ ~f.tail}}

\* The tables are as the proofs about them assume.
ASSUME TablesAssumption ==
    /\ \A t \in SortedTables : Sorted(t, N_FUN, 0, 4)
    /\ \A t \in FileTables : Layout(t)

\* What the search answers, for every range and address; and the information found
\* for an address: its function, its line and its file.
StabsExact ==
    /\ prog = "search" => \A l \in 0 .. 4, a \in 0 .. 4 : \A r \in l .. 4 :
                            SearchExact(input, l, r, N_FUN, a)
    /\ prog = "stabs" => \A a \in 0 .. 13 : InfoExact(input, a)

---------------------------------------------------------------------------

(* Processes: two buckets of the pid hash *)

MCBuckets == {0, 1}
MCHash == [p \in 1 .. MAX_PID - 1 |-> p % 2]

(* The cache: five blocks, of which four share a set *)

MCAddresses == {0, 4, 9, 13, 2}

---------------------------------------------------------------------------

IdleTracer ==
    /\ breakpoints = <<>> /\ original_code = <<>> /\ text = {} /\ phase = "insert"
    /\ rip = 0 /\ steps = 0 /\ missed = {}

MCInit ==
    /\ ProcInit /\ CacheInit
    /\ \/ prog = "proc" /\ input = 0 /\ Init /\ fault = NoFault /\ IdleTracer
       \/ prog = "csim" /\ input = 0 /\ Init /\ fault = NoFault /\ IdleTracer
       \/ prog = "btest" /\ input = 0 /\ Init /\ IdleTracer
       \/ prog = "trace" /\ input = 0 /\ TraceInit /\ Init /\ fault = NoFault
       \/ /\ \/ prog = "words" /\ input \in Word
             \/ prog = "search" /\ input \in SortedTables
             \/ prog = "stabs" /\ input \in FileTables
          /\ Init /\ fault = NoFault /\ IdleTracer

AllNext ==
    \/ prog = "proc" /\ ProcNext /\ UNCHANGED <<prog, input, cachevars, vars, tracevars>>
    \/ prog = "csim" /\ CacheNext /\ UNCHANGED <<prog, input, procvars, vars, tracevars>>
    \/ prog = "btest" /\ Next /\ UNCHANGED <<prog, input, procvars, cachevars, tracevars>>
    \/ prog = "trace" /\ TraceNext /\ UNCHANGED <<prog, input, procvars, cachevars, vars>>

allvars == <<prog, input, procvars, cachevars, vars, tracevars>>

\* The fairness of ProcFairSpec; the other programs are asked for no progress.
GetPidRuns == prog = "proc" /\ GetPid /\ UNCHANGED <<prog, input, cachevars, vars, tracevars>>

MCSpec == MCInit /\ [][AllNext]_allvars /\ WF_allvars(GetPidRuns)
=============================================================================
