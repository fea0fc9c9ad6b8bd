------------------------------- MODULE Btest -------------------------------
(***************************************************************************)
(* btest.c: the options, the test values of each argument, the nested loops *)
(* over them, and the alarm that ends a test. The solutions are those of    *)
(* Bits, but for one answer that may be wrong (fault).                      *)
(***************************************************************************)
EXTENDS BitTests

CONSTANTS TEST_RANGE,  \* test values per argument, before the factor of gen_vals
          Draws,       \* values random_val may return: rand() is external
          Options,     \* options of the command line
          MaxOptions,
          Faults,      \* wrong answers a solution may give: which puzzle, at which arguments
          MaxTimeouts  \* bound: tests that time out

VARIABLES pc,          \* "options", "next" (run_tests), "run" (test_function),
                       \* "done", "exit", "undefined"
          given,       \* options read so far
          conf,        \* test_fname, global_rating, timeout_limit, has_arg, argval
          i,           \* index into test_set
          arg_test_vals, at,   \* values of each argument; a1, a2, a3
          alarm,       \* SIGALRM is to come
          timeouts,    \* those that came
          points, max_points,
          fault

vars == <<pc, given, conf, i, arg_test_vals, at, alarm, timeouts, points, max_points, fault>>

MAX_TEST_VALS == 13 * TEST_RANGE
TIMEOUT_LIMIT == 10
AnyTest == ""              \* test_fname is NULL

---------------------------------------------------------------------------
(* gen_vals *)

Signs(v) == <<v, SignBit | v>>
FloatVals(k) ==
    LET smallest_norm == 2^FRAC_BITS
        one           == BIAS * 2^FRAC_BITS
        largest_norm  == (2^EXP_BITS - 2) * 2^FRAC_BITS
    IN  Signs(k) \o Signs(smallest_norm + k) \o Signs(smallest_norm - k)
          \o Signs(one + k) \o Signs(one - k) \o Signs(largest_norm - k)
SpecialVals == Signs(ExpMask) \o Signs(ExpMask + 2^(FRAC_BITS - 1))   \* inf, nan

TMin == -2^(W - 1)
TMax == 2^(W - 1) - 1
AroundZero(k, min, max) == SelectSeq(<<k, -k>>, LAMBDA v : min <= v /\ v <= max)
IntVals(k, min, max, r) == <<min + k, max - k>> \o AroundZero(k, min, max) \o <<r>>

\* The values of one argument whose range is min .. max; 1 .. 1 stands for floats.
\* r[k] is what rand gives at turn k.
gen_vals(min, max, test_range, r) ==
    IF min = 1 /\ max = 1
    THEN LET n == IF test_range > 2^FRAC_BITS THEN 2^FRAC_BITS ELSE test_range
         IN  FlattenSeq([k \in 1 .. n |-> FloatVals(k - 1)]) \o SpecialVals
    ELSE LET ints == IF max - MAX_TEST_VALS <= min
                     THEN [k \in 1 .. max - min + 1 |-> min + k - 1]
                     ELSE FlattenSeq([k \in 1 .. test_range |-> IntVals(k - 1, min, max, r[k])])
         IN  [k \in 1 .. Len(ints) |-> Wrap(ints[k])]

arg_ranges(t) == IF IsFloatTest(t.name) THEN <<1, 1>> ELSE <<TMin, TMax>>

\* pow(TEST_RANGE, 1/k), and 1 at least.
Root(k) == CHOOSE n \in 1 .. TEST_RANGE : n^k <= TEST_RANGE /\ TEST_RANGE < (n + 1)^k
arg_test_range(args) == CASE args = 1 -> TEST_RANGE [] args = 2 -> Root(2) [] OTHER -> Root(3)

ArgVals(t, j, r) ==
    IF conf.has_arg[j] THEN <<conf.argval[j]>>
    ELSE gen_vals(arg_ranges(t)[1], arg_ranges(t)[2], arg_test_range(t.args), r)

---------------------------------------------------------------------------
(* test_0_arg .. test_3_arg *)

NoFault == [name |-> AnyTest]
Answer(n, a) ==
    IF fault.name = n /\ (\A j \in DOMAIN fault.at : a[j] = fault.at[j])
    THEN Wrap(solution_funct(n, a) + 1)
    ELSE solution_funct(n, a)
Wrong(n, a) == Answer(n, a) # test_funct(n, a)

ArgsAt(x) == [j \in 1 .. Len(x) |-> arg_test_vals[j][x[j]]]

\* wrong: a loop runs up to its count, inclusive
InnerPast(x) == {j \in 1 .. Len(x) : x[j] <= Len(arg_test_vals[j])}

\* The loops over a1, a2 and a3 that are not at their end: the innermost moves on.
Inner(x) == {j \in 1 .. Len(x) : x[j] < Len(arg_test_vals[j])}

Over(x) == Inner(x) = {}

\* wrong: the outer loop moves on and the inner one is not started again
AdvanceNoReset(x) == LET j == Max(Inner(x)) IN [x EXCEPT ![j] = @ + 1]

Advance(x) == LET j == Max(Inner(x)) IN
    [k \in 1 .. Len(x) |-> IF k < j THEN x[k] ELSE IF k = j THEN x[k] + 1 ELSE 1]

---------------------------------------------------------------------------
(* main, run_tests and test_function *)

Init ==
    /\ pc = "options" /\ given = 0
    /\ conf = [fname |-> AnyTest, rating |-> 0, timeout |-> TIMEOUT_LIMIT,
               has_arg |-> <<FALSE, FALSE, FALSE>>, argval |-> <<0, 0, 0>>]
    /\ i = 1 /\ arg_test_vals = <<>> /\ at = <<>>
    /\ alarm = FALSE
    /\ timeouts = 0 /\ points = 0 /\ max_points = 0
    /\ fault \in Faults \cup {NoFault}

testvars == <<i, arg_test_vals, at, alarm, timeouts, points, max_points, fault>>

\* -f.
SetName(o) ==
    /\ pc = "options" /\ given < MaxOptions
    /\ o.key = "f"
    /\ conf' = [conf EXCEPT !.fname = o.name]
    /\ given' = given + 1
    /\ UNCHANGED <<pc, testvars>>

\* -r and -T; a negative rating ends in usage.
SetNumber(o) ==
    /\ pc = "options" /\ given < MaxOptions
    /\ \/ o.key = "T" /\ conf' = [conf EXCEPT !.timeout = o.num] /\ pc' = pc
       \/ /\ o.key = "r"
          /\ conf' = [conf EXCEPT !.rating = o.num]
          /\ pc' = IF o.num < 0 THEN "exit" ELSE pc
    /\ given' = given + 1
    /\ UNCHANGED testvars

\* -1, -2 and -3; what is no word ends the program.
SetArgument(o) ==
    /\ pc = "options" /\ given < MaxOptions
    /\ o.key = "arg"
    /\ LET num == get_num_val_btest(o.text, conf.argval[o.arg]) IN
         IF num.ok
         THEN /\ conf' = [conf EXCEPT !.has_arg[o.arg] = TRUE, !.argval[o.arg] = num.val]
              /\ pc' = pc
         ELSE pc' = "exit" /\ UNCHANGED conf
    /\ given' = given + 1
    /\ UNCHANGED testvars

StartTests ==
    /\ pc = "options"
    /\ pc' = "next"
    /\ UNCHANGED <<given, conf, testvars>>

test == test_set[i]
Selected == i <= Len(test_set) /\ conf.fname \in {AnyTest, test.name}

\* run_tests passes over the tests not asked for.
SkipTest ==
    /\ pc = "next" /\ i <= Len(test_set) /\ ~Selected
    /\ i' = i + 1
    /\ UNCHANGED <<pc, given, conf, arg_test_vals, at, alarm, timeouts, points, max_points, fault>>

\* test_function up to its loops: the values, sigsetjmp, alarm.
BeginTest ==
    /\ pc = "next" /\ Selected
    /\ \E r \in [1 .. test.args -> [1 .. arg_test_range(test.args) -> Draws]] :
         arg_test_vals' = [j \in 1 .. test.args |-> ArgVals(test, j, r[j])]
    /\ at' = [j \in 1 .. test.args |-> 1]
    /\ alarm' = (alarm \/ conf.timeout > 0)
    /\ pc' = "run"
    /\ UNCHANGED <<given, conf, i, timeouts, points, max_points, fault>>

\* test_function returns errors to run_tests, which scores the test.
Score(errors) ==
    LET rating == IF conf.rating > 0 THEN conf.rating ELSE test.rating IN
    /\ points' = points + (IF errors = 0 THEN rating ELSE 0)
    /\ max_points' = max_points + rating
    /\ i' = i + 1
    /\ arg_test_vals' = <<>> /\ at' = <<>>
    /\ pc' = "next"
    /\ UNCHANGED <<given, conf, fault>>

\* A call of test_n_arg: the first error ends the test.
TestCase ==
    /\ pc = "run"
    /\ IF Wrong(test.name, ArgsAt(at)) THEN Score(1)
       ELSE IF Over(at) THEN Score(0)
       ELSE /\ at' = Advance(at)
            /\ UNCHANGED <<pc, given, conf, i, arg_test_vals, points, max_points, fault>>
    /\ UNCHANGED <<alarm, timeouts>>

\* timeout_handler. A return of test_function does not cancel the alarm: outside
\* it, siglongjmp goes to a frame that is gone, and C says nothing of what follows.
Timeout ==
    /\ alarm /\ timeouts < MaxTimeouts
    /\ alarm' = FALSE /\ timeouts' = timeouts + 1
    /\ \/ pc = "run" /\ Score(1)
       \/ /\ pc = "next"
          /\ pc' = "undefined"
          /\ UNCHANGED <<given, conf, i, arg_test_vals, at, points, max_points, fault>>

\* The end marker of test_set.
EndTests ==
    /\ pc = "next" /\ i > Len(test_set)
    /\ pc' = "done"
    /\ UNCHANGED <<given, conf, testvars>>

Next ==
    \/ \E o \in Options : SetName(o) \/ SetNumber(o) \/ SetArgument(o)
    \/ StartTests \/ SkipTest \/ BeginTest \/ TestCase \/ Timeout \/ EndTests

Spec == Init /\ [][Next]_vars

---------------------------------------------------------------------------

\* The test values fit their arrays, and the loops stay within the values.
TypeOK ==
    /\ \A j \in 1 .. Len(arg_test_vals) :
         arg_test_vals[j] \in Seq(Word) /\ Len(arg_test_vals[j]) \in 1 .. MAX_TEST_VALS
    /\ \A j \in 1 .. Len(at) : at[j] \in 1 .. Len(arg_test_vals[j])
    /\ i \in 1 .. Len(test_set) + 1
    /\ points \in 0 .. max_points

\* A test is passed exactly if no choice of its arguments' values shows a wrong
\* answer and the alarm did not end it: the loops leave out no combination,
\* and an early stop is never taken for a pass.
Combinations ==
    LET longest == Max({Len(arg_test_vals[j]) : j \in 1 .. test.args} \cup {1})
    IN  {x \in [1 .. test.args -> 1 .. longest] :
           \A j \in 1 .. test.args : x[j] <= Len(arg_test_vals[j])}
TestExact ==
    [][max_points' > max_points =>
         (points' > points <=>
            timeouts' = timeouts /\ \A x \in Combinations : ~Wrong(test.name, ArgsAt(x)))]_vars
=============================================================================
