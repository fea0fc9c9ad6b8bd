------------------------------- MODULE Kdebug -------------------------------
(***************************************************************************)
(* kdebug.c: the search of the debug information for an address. A table of *)
(* stabs is a function from 0 .. n - 1; a stab has a type, a value, a line  *)
(* number (desc) and a name (strx, always inside the string table).         *)
(***************************************************************************)
EXTENDS Loops, Integers, Sequences, FiniteSets, FiniteSetsExt

N_FUN == "N_FUN"
N_SO == "N_SO"
N_SOL == "N_SOL"
N_SLINE == "N_SLINE"
N_PSYM == "N_PSYM"

OfType(stabs, type, l, r) == {k \in l .. r : stabs[k].type = type}

\* wrong: after an exact match the search for the right end starts behind it
TurnPast(stabs, type, s) ==
    LET true_m == (s.l + s.r) \div 2
        typed  == OfType(stabs, type, s.l, true_m)
        m      == Max(typed)
    IN  CASE s.l > s.r \/ typed = {} -> [s EXCEPT !.l = IF @ > s.r THEN @ ELSE true_m + 1]
          [] s.l <= s.r /\ typed # {} /\ stabs[m].value > s.addr ->
               [s EXCEPT !.r = m - 1, !.right = m - 1, !.any = TRUE]
          [] OTHER -> [s EXCEPT !.l = true_m + 1, !.left = m, !.right = true_m, !.any = TRUE]

\* A turn of the loop of stab_binsearch: m is the last stab of the type in
\* l .. true_m. The turns after the last one change nothing.
Turn(stabs, type, s) ==
    LET true_m == (s.l + s.r) \div 2
        typed  == OfType(stabs, type, s.l, true_m)
        m      == Max(typed)
    IN  IF s.l > s.r THEN s
        ELSE IF typed = {} THEN [s EXCEPT !.l = true_m + 1]
        ELSE IF stabs[m].value < s.addr
        THEN [s EXCEPT !.l = true_m + 1, !.left = m, !.any = TRUE]
        ELSE IF stabs[m].value > s.addr
        THEN [s EXCEPT !.r = m - 1, !.right = m - 1, !.any = TRUE]
        ELSE [s EXCEPT !.l = m, !.left = m, !.addr = @ + 1, !.any = TRUE] \* exact: go on for the right end

\* The loop, which never takes more turns than that.
Narrowing == [l : Int, r : Int, left : Int, right : Int, any : BOOLEAN, addr : Int]
Narrowed(stabs, type, s) ==
    Iterate(s, [t \in Narrowing |-> Turn(stabs, type, t)])[2 * (s.r - s.l) + 3]

\* What the loop leaves: no stab of the type, or the rightmost region.
Found(stabs, type, s) ==
    IF ~s.any THEN <<s.left, s.left - 1>>
    ELSE IF s.right < s.left THEN <<s.right, s.right>>
    ELSE <<Max({s.left} \cup OfType(stabs, type, s.left, s.right)), s.right>>

stab_binsearch(stabs, left, right, type, addr) ==
    Found(stabs, type, Narrowed(stabs, type,
            [l |-> left, r |-> right, left |-> left, right |-> right, any |-> FALSE, addr |-> addr]))

---------------------------------------------------------------------------

Unknown == "<unknown>"

\* The stab that names the file of a line: searched backwards from it.
FileStab(stabs, lfile, lline) ==
    {k \in lfile .. lline : \/ stabs[k].type = N_SOL
                            \/ stabs[k].type = N_SO /\ stabs[k].value # 0}

\* The parameters that follow the function's stab.
Arguments(stabs, lfun, rfun) ==
    LET rest == {k \in lfun + 1 .. rfun - 1 : stabs[k].type # N_PSYM}
    IN  IF rest = {} THEN rfun - 1 - lfun ELSE Min(rest) - 1 - lfun

NoInfo(addr) == [ret |-> -1, file |-> Unknown, line |-> 0, fn |-> Unknown,
                 fn_addr |-> addr, narg |-> 0]

\* The line, its file and the arguments, once the line was searched for.
LineInfo(stabs, file, fun, line, info) ==
    LET names == FileStab(stabs, file[1], line[1])
    IN  IF line[1] > line[2] THEN info
        ELSE [info EXCEPT
                !.ret  = 0,
                !.line = stabs[line[2]].desc,
                !.file = IF names = {} THEN Unknown ELSE stabs[Max(names)].strx,
                !.narg = IF fun[1] < fun[2] THEN Arguments(stabs, fun[1], fun[2]) ELSE 0]

\* The lines of the function, or of the whole file if there is none.
FunctionInfo(stabs, addr, file, fun) ==
    IF fun[1] <= fun[2]
    THEN LET f == stabs[fun[1]]
         IN  LineInfo(stabs, file, fun,
                      stab_binsearch(stabs, fun[1], fun[2], N_SLINE, addr - f.value),
                      [NoInfo(addr) EXCEPT !.fn = f.strx, !.fn_addr = f.value])
    ELSE LineInfo(stabs, file, fun, stab_binsearch(stabs, file[1], file[2], N_SLINE, addr),
                  NoInfo(addr))

\* debuginfo_eip; a failure leaves what was found so far.
debuginfo_eip(stabs, addr) ==
    LET file == stab_binsearch(stabs, 0, Cardinality(DOMAIN stabs) - 1, N_SO, addr)
    IN  IF file[1] = 0 THEN NoInfo(addr)
        ELSE FunctionInfo(stabs, addr, file, stab_binsearch(stabs, file[1], file[2], N_FUN, addr))

---------------------------------------------------------------------------
(* What they promise *)

\* The values of the stabs of the type are in the order of the stabs.
Sorted(stabs, type, left, right) ==
    \A i, j \in OfType(stabs, type, left, right) :
        stabs[i].value \in Int /\ (i <= j => stabs[i].value <= stabs[j].value)

\* The stabs of the type that begin at or below addr, and those above.
Below(stabs, left, right, type, addr) ==
    {k \in OfType(stabs, type, left, right) : stabs[k].value <= addr}
Above(stabs, left, right, type, addr) ==
    OfType(stabs, type, left, right) \ Below(stabs, left, right, type, addr)

\* Stabs at addr and at addr + 1: after the exact match the search goes on for
\* addr + 1 and takes the second for another exact match.
Close(stabs, left, right, type, addr) ==
    {addr, addr + 1} \subseteq {stabs[k].value : k \in OfType(stabs, type, left, right)}

\* The header of stab_binsearch: the last matching stab not above addr, up to
\* just before the next one.
Region(stabs, left, right, type, addr) ==
    LET above == Above(stabs, left, right, type, addr)
    IN  <<Max(Below(stabs, left, right, type, addr)),
          IF above = {} THEN right ELSE Min(above) - 1>>

\* Stab k is behind addr, and at every address from addr to its own a stab begins.
Follows(stabs, left, right, type, addr, k) ==
    /\ stabs[k].value > addr
    /\ addr .. stabs[k].value \subseteq {stabs[j].value : j \in OfType(stabs, type, left, right)}

\* Stab k up to just before the next one of the type.
UpToNext(stabs, left, right, type, k) ==
    LET later == {j \in OfType(stabs, type, left, right) : k < j}
    IN  <<k, IF later = {} THEN right ELSE Min(later) - 1>>

\* The result of the search, for every address. The header's region, or, against
\* the header, that of a stab that follows addr without a gap. Nothing (left above
\* right) if no stab is of the type. But if all of them begin above addr, then, again
\* against the header (49-52), not nothing: the stabs before the first one.
SearchExact(stabs, left, right, type, addr) ==
    LET typed == OfType(stabs, type, left, right)
        below == Below(stabs, left, right, type, addr)
        found == stab_binsearch(stabs, left, right, type, addr)
    IN  /\ below # {} =>
            \/ found = Region(stabs, left, right, type, addr)
            \/ \E k \in typed : /\ Follows(stabs, left, right, type, addr, k)
                                /\ found = UpToNext(stabs, left, right, type, k)
        /\ typed = {} => found[1] > found[2]
        /\ below = {} /\ typed # {} =>
            found = <<Min({left, Min(typed) - 1}), Min(typed) - 1>>

\* The table as a compiler lays it out: behind the header, files and functions in
\* the order of their addresses, and in a function first its parameters and the
\* line it begins with, and all lines in the order of their offsets.
Layout(stabs) ==
    LET n == Cardinality(DOMAIN stabs)
        is(k, type) == stabs[k].type = type
    IN  /\ n \in Nat \ {0}
        /\ ~is(0, N_SO) /\ \A k \in 0 .. n - 1 : is(k, N_SO) => stabs[k].value # 0
        /\ Sorted(stabs, N_SO, 0, n - 1) /\ Sorted(stabs, N_FUN, 0, n - 1)
        /\ \A f \in 0 .. n - 1 : is(f, N_FUN) =>
             /\ \E k \in f + 1 .. n - 1 : /\ is(k, N_SLINE) /\ stabs[k].value = 0
                                          /\ \A j \in f + 1 .. k : ~is(j, N_FUN) /\ ~is(j, N_SO)
             /\ \A g \in f .. n - 1 : (\A j \in f + 1 .. g : ~is(j, N_FUN)) =>
                  /\ Sorted(stabs, N_SLINE, f, g)
                  /\ is(g, N_PSYM) => \A j \in f + 1 .. g : is(j, N_PSYM)

\* An address in a function is attributed to this function, its file and its
\* parameters; to its line if no other stab follows the line's before the next.
InfoExact(stabs, addr) ==
    LET all  == Cardinality(DOMAIN stabs) - 1
        file == Region(stabs, 0, all, N_SO, addr)
        fun  == Region(stabs, file[1], file[2], N_FUN, addr)
        off  == addr - stabs[fun[1]].value
        line == Region(stabs, fun[1], fun[2], N_SLINE, off)
        info == debuginfo_eip(stabs, addr)
    IN  /\ Below(stabs, 0, all, N_SO, addr) # {}
        /\ Below(stabs, file[1], file[2], N_FUN, addr) # {}
        /\ ~Close(stabs, 0, all, N_SO, addr)
        /\ ~Close(stabs, file[1], file[2], N_FUN, addr)
        /\ ~Close(stabs, fun[1], fun[2], N_SLINE, off)
        => /\ info.ret = 0
           /\ info.fn = stabs[fun[1]].strx /\ info.fn_addr = stabs[fun[1]].value
           /\ info.file = stabs[Max({file[1]} \cup OfType(stabs, N_SOL, file[1], line[1]))].strx
           /\ info.narg = Cardinality(OfType(stabs, N_PSYM, fun[1], fun[2]))
           /\ line[1] = line[2] => info.line = stabs[line[1]].desc
=============================================================================
