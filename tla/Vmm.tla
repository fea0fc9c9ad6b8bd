-------------------------------- MODULE Vmm --------------------------------
(***************************************************************************)
(* Virtual memory of labs 2 and 3: the areas of vmm.c with their one-entry  *)
(* cache, do_pgfault, the FIFO queue of swap_fifo.c, and the page table     *)
(* layer of pmm.c with its reference counts. The kernel's self-tests are a  *)
(* script run by the same actions.                                          *)
(* What labs 2 and 3 leave to the rest of the kernel (get_pte, the swapping *)
(* loop of alloc_page, swap_in, pgdir_alloc_page) is external and modelled  *)
(* by how the code here uses it.                                            *)
(***************************************************************************)
EXTENDS Integers, FiniteSets, Sequences, FiniteSetsExt, SequencesExt

CONSTANTS
    Frames,     \* physical page frames
    NPages,     \* virtual pages under the one page table
    Values,     \* contents of a page
    NoFrame,    \* no frame
    Untouched,  \* a page without content
    SelfTests,  \* the scripts of the self-tests
    FreeAreas,  \* the areas that free runs insert, page aligned
    FreeAddrs,  \* the addresses that free runs access
    FreeFrames, \* frames the manager has in a free run
    MapPages,   \* the pages that free runs map with page_insert
    MaxHeld,    \* frames allocated for page_insert in a free run
    MaxFaults   \* page faults taken in a free run

ASSUME VmmAssumption ==
    /\ NPages \in Nat \ {0} /\ FreeFrames \in Nat /\ MaxHeld \in Nat /\ MaxFaults \in Nat
    /\ IsFiniteSet(Frames) /\ FreeFrames <= Cardinality(Frames)
    /\ FreeAddrs \subseteq 0 .. 2 * NPages - 1
    /\ MapPages \subseteq 0 .. NPages - 1
    /\ 0 \in Values
    /\ NoFrame \notin Frames /\ Untouched \notin Values

\* Areas have bounds and flags, also in the calls of the scripts.
Areas == [vm_start : Int, vm_end : Int, vm_flags : SUBSET {"R", "W", "X"}]
Calls == UNION {{s[i] : i \in 1 .. Len(s)} : s \in SelfTests}
ASSUME AreasAssumption ==
    /\ FreeAreas \subseteq Areas
    /\ SelfTests \subseteq Seq(Calls)
    /\ \A op \in Calls : op.do = "insert_vma" => op.vma \in Areas

PGSIZE == 2
ASSUME AlignedAssumption ==
    \A a \in FreeAreas : a.vm_start % PGSIZE = 0 /\ a.vm_end % PGSIZE = 0
Pages == 0 .. NPages - 1
PageOf(addr) == addr \div PGSIZE       \* ROUNDDOWN(addr, PGSIZE)

VARIABLES
    mm,           \* check_mm_struct: areas, cache, count; or NoMm
    pg,           \* page table, reference counts, free frames, TLB
    data,         \* contents of the frames
    disk,         \* contents of the swap slots; a slot belongs to a page
    swap_init_ok,
    pra_list,     \* pra_list_head: the FIFO queue, its head first
    pra_vaddr,    \* Page.pra_vaddr: the page a queued frame was mapped at
    pgfault_num,
    pc,           \* "run", inside do_pgfault ("pte", "page"), or "halted"
    fault,        \* the access that faulted and the rights its area gives
    held,         \* the frames a self-test's variables p1, p2 point to
    managed,      \* the frames page_init gave to the page manager
    script,       \* what is left of the running self-test
    mode,         \* "free" or "script"
    failed        \* an assertion of a self-test failed

vars == <<mm, pg, data, disk, swap_init_ok, pra_list, pra_vaddr, pgfault_num,
          pc, fault, held, managed, script, mode, failed>>
swapVars == <<disk, swap_init_ok, pra_list, pra_vaddr>>
runVars  == <<managed, mode>>

---------------------------------------------------------------------------
(* The areas *)

NoMm  == [none |-> TRUE]
NoVma == [none |-> TRUE]
vma_create(start, end, flags) == [vm_start |-> start, vm_end |-> end, vm_flags |-> flags]

Holds(vma, addr) == vma # NoVma /\ vma.vm_start <= addr /\ addr < vma.vm_end

\* The walk of find_vma over mmap_list: the first area that holds addr.
SearchVma(m, addr) ==
    IF \E i \in 1 .. Len(m.list) : Holds(m.list[i], addr)
    THEN m.list[CHOOSE i \in 1 .. Len(m.list) :
                  /\ Holds(m.list[i], addr)
                  /\ \A j \in 1 .. i - 1 : ~Holds(m.list[j], addr)]
    ELSE NoVma

\* wrong: the cached area is taken for every address from its start on
find_vmaLoose(m, addr) ==
    IF m.mmap_cache # NoVma /\ m.mmap_cache.vm_start <= addr
    THEN m.mmap_cache ELSE SearchVma(m, addr)

\* find_vma: the cached area if it holds addr, otherwise the walk.
find_vma(m, addr) == IF Holds(m.mmap_cache, addr) THEN m.mmap_cache ELSE SearchVma(m, addr)

\* find_vma's last lines: an area that was found is cached.
Cached(m, addr) ==
    IF find_vma(m, addr) = NoVma THEN m ELSE [m EXCEPT !.mmap_cache = find_vma(m, addr)]

\* check_vma_overlap, an assertion.
NoOverlap(prev, next) ==
    /\ prev.vm_start < prev.vm_end
    /\ prev.vm_end <= next.vm_start
    /\ next.vm_start < next.vm_end

\* insert_vma_struct goes behind the last area before the first one that starts later.
InsertPos(m, vma) ==
    LET later == {i \in 1 .. Len(m.list) : m.list[i].vm_start > vma.vm_start}
    IN  IF later = {} THEN Len(m.list) + 1 ELSE CHOOSE i \in later : \A j \in later : i <= j

\* The assertions of insert_vma_struct: the neighbours on both sides.
InsertAsserts(m, vma) ==
    LET i == InsertPos(m, vma)
    IN  /\ vma.vm_start < vma.vm_end
        /\ i > 1 => NoOverlap(m.list[i - 1], vma)
        /\ i <= Len(m.list) => NoOverlap(vma, m.list[i])

---------------------------------------------------------------------------
(* The page table layer of pmm.c. s is pg: pt the frame of the page table,  *)
(* pte the entries, ref the reference counts, free the free frames, tlb the *)
(* entries the processor has cached.                                        *)

Zero == <<"zero">>
Present(f, perm) == <<"present", f, perm>>
Swapped(p) == <<"swapped", p>>
IsPresent(e) == e[1] = "present"
FrameOf(e) == e[2]
PermOf(e) == e[3]

\* get_pte with create: the states with the table there; none if no frame is free.
get_pte(s) ==
    IF s.pt # NoFrame THEN {s}
    ELSE {[s EXCEPT !.pt = f, !.free = @ \ {f}, !.ref[f] = 1] : f \in s.free}

\* get_page
get_page(s, p) == IF IsPresent(s.pte[p]) THEN FrameOf(s.pte[p]) ELSE NoFrame

\* free_page: default_free_pages clears the count.
free_page(s, f) == [s EXCEPT !.free = @ \cup {f}, !.ref[f] = 0]

tlb_invalidate(s, p) == [s EXCEPT !.tlb[p] = Zero]

\* wrong: the frame is freed although another page still maps it
page_remove_pteAlways(s, p) ==
    IF ~IsPresent(s.pte[p]) THEN s
    ELSE LET f == FrameOf(s.pte[p])
         IN  tlb_invalidate(free_page([s EXCEPT !.pte[p] = Zero], f), p)

\* wrong: the entry is cleared and stays in the TLB
page_remove_pteStale(s, p) ==
    IF ~IsPresent(s.pte[p]) THEN s
    ELSE LET f == FrameOf(s.pte[p])
             d == [s EXCEPT !.ref[f] = @ - 1, !.pte[p] = Zero]
         IN  IF d.ref[f] = 0 THEN free_page(d, f) ELSE d

page_remove_pte(s, p) ==
    IF ~IsPresent(s.pte[p]) THEN s
    ELSE LET f == FrameOf(s.pte[p])
             d == [s EXCEPT !.ref[f] = @ - 1, !.pte[p] = Zero]
         IN  tlb_invalidate(IF d.ref[f] = 0 THEN free_page(d, f) ELSE d, p)

\* wrong: a page mapped over itself is counted twice
page_insertTwice(s, f, p, perm) ==
    LET up  == [s EXCEPT !.ref[f] = @ + 1]
        old == IF ~IsPresent(s.pte[p]) \/ FrameOf(s.pte[p]) = f THEN up
               ELSE page_remove_pte(up, p)
    IN  tlb_invalidate([old EXCEPT !.pte[p] = Present(f, perm)], p)

\* page_insert after get_pte: the count goes up before the old mapping is looked at.
page_insert(s, f, p, perm) ==
    LET up  == [s EXCEPT !.ref[f] = @ + 1]
        old == IF ~IsPresent(s.pte[p]) THEN up
               ELSE IF FrameOf(s.pte[p]) = f THEN [up EXCEPT !.ref[f] = @ - 1]
               ELSE page_remove_pte(up, p)
    IN  tlb_invalidate([old EXCEPT !.pte[p] = Present(f, perm)], p)

---------------------------------------------------------------------------
(* The FIFO queue *)

\* _fifo_map_swappable: list_add at the head.
map_swappable(q, f) == <<f>> \o q

\* wrong: the head, the last page that came, is the victim
VictimHead(q) == 1

\* _fifo_swap_out_victim: where in the queue the victim is, the tail.
Victim(q) == Len(q)

---------------------------------------------------------------------------
(* Steps of the program that uses the memory *)

Done == IF mode = "script" THEN script' = Tail(script) ELSE UNCHANGED script

\* mm_create; _fifo_init_mm empties the global queue when swapping is on.
mm_create ==
    /\ mm = NoMm /\ pg.pt = NoFrame
    /\ mm' = [list |-> <<>>, mmap_cache |-> NoVma, map_count |-> 0]
    /\ pra_list' = IF swap_init_ok THEN <<>> ELSE pra_list
    /\ held' = <<>>      \* the self-tests of pmm.c are over
    /\ UNCHANGED <<pg, data, disk, swap_init_ok, pra_vaddr, pgfault_num, pc, fault, failed>>

insert_vma_struct(vma) ==
    /\ mm # NoMm
    /\ IF InsertAsserts(mm, vma)
       THEN /\ mm' = [mm EXCEPT !.list = InsertAt(@, InsertPos(mm, vma), vma),
                                !.map_count = @ + 1]
            /\ UNCHANGED pc
       ELSE pc' = "halted" /\ UNCHANGED mm
    /\ UNCHANGED <<pg, data, swapVars, pgfault_num, fault, held, failed>>

FindVma(addr) ==
    /\ mm # NoMm
    /\ mm' = Cached(mm, addr)
    /\ UNCHANGED <<pg, data, swapVars, pgfault_num, pc, fault, held, failed>>

\* mm_destroy takes the areas off the list and frees them with the mm.
mm_destroy ==
    /\ mm # NoMm /\ pg.pt = NoFrame
    /\ mm' = NoMm
    /\ UNCHANGED <<pg, data, swapVars, pgfault_num, pc, fault, held, failed>>

\* External: swap_init turns swapping on.
swap_init ==
    /\ mm = NoMm /\ pg.pt = NoFrame /\ ~swap_init_ok
    /\ swap_init_ok' = TRUE
    /\ UNCHANGED <<mm, pg, data, disk, pra_list, pra_vaddr, pgfault_num, pc, fault, held, failed>>

\* p = alloc_page() in a self-test.
AllocPage ==
    \E f \in pg.free :
      /\ pg' = [pg EXCEPT !.free = @ \ {f}]
      /\ held' = Append(held, f)
      /\ UNCHANGED <<mm, data, swapVars, pgfault_num, pc, fault, failed>>

\* page_insert of the i-th held frame; -E_NO_MEM leaves everything as it was.
PageInsert(i, p, perm) ==
    /\ IF get_pte(pg) = {} THEN UNCHANGED pg
       ELSE \E s \in get_pte(pg) : pg' = page_insert(s, held[i], p, perm)
    /\ UNCHANGED <<mm, data, swapVars, pgfault_num, pc, fault, held, failed>>

page_remove(p) ==
    /\ pg.pt # NoFrame
    /\ pg' = page_remove_pte(pg, p)
    /\ UNCHANGED <<mm, data, swapVars, pgfault_num, pc, fault, held, failed>>

\* free_page(pde2page(pgdir[0])); pgdir[0] = 0, the end of the self-tests.
DropTable ==
    /\ pg.pt # NoFrame
    /\ pg' = [free_page(pg, pg.pt) EXCEPT !.pt = NoFrame, !.pte = [p \in Pages |-> Zero]]
    /\ UNCHANGED <<mm, data, swapVars, pgfault_num, pc, fault, held, failed>>

\* free_page(p) of the i-th held frame, in check_boot_pgdir.
FreePage(i) ==
    /\ pg' = free_page(pg, held[i])
    /\ UNCHANGED <<mm, data, swapVars, pgfault_num, pc, fault, held, failed>>

\* A write through the kernel's own mapping of all frames (page2kva).
Poke(i, v) ==
    /\ data' = [data EXCEPT ![held[i]] = v]
    /\ UNCHANGED <<mm, pg, swapVars, pgfault_num, pc, fault, held, failed>>

\* External: the processor replaces its cached entries by others.
ReplaceTlb ==
    /\ pg' = [pg EXCEPT !.tlb = [p \in Pages |-> Zero]]
    /\ UNCHANGED <<mm, data, swapVars, pgfault_num, pc, fault, held, failed>>

\* External: check_swap counts its page faults from 0.
CountFaults ==
    /\ pgfault_num' = 0
    /\ UNCHANGED <<mm, pg, data, swapVars, pc, fault, held, failed>>

\* What an assertion of a self-test says.
Asserted(op) ==
    CASE op.that = "pgfault_num" -> pgfault_num = op.n
      [] op.that = "ref"         -> pg.ref[held[op.i]] = op.n
      [] op.that = "ref_table"   -> pg.ref[pg.pt] = op.n
      [] op.that = "unmapped"    -> get_page(pg, op.page) = NoFrame
      [] op.that = "maps"        -> pg.pte[op.page] = Present(held[op.i], op.perm)
      [] op.that = "vma"         -> mm.list[op.i] = op.vma /\ mm.map_count = op.n
      [] op.that = "found"       -> find_vma(mm, op.addr) = op.vma
      [] op.that = "no_table"    -> pg.pt = NoFrame
      [] op.that = "all_free"    -> pg.free = managed

CheckAssertion(op) ==
    /\ failed' = (failed \/ ~Asserted(op))
    /\ UNCHANGED <<mm, pg, data, swapVars, pgfault_num, pc, fault, held>>

---------------------------------------------------------------------------
(* An access of the processor, external: through the TLB or the page table. *)

Entry(p) == IF pg.tlb[p] # Zero THEN pg.tlb[p] ELSE pg.pte[p]
Allowed(p, write) == IsPresent(Entry(p)) /\ (write => "W" \in PermOf(Entry(p)))

\* The access goes through; a self-test's read must see the value it expects.
AccessHits(op) ==
    LET p == PageOf(op.addr)
        f == FrameOf(Entry(p))
    IN  /\ Allowed(p, op.write)
        /\ pg' = [pg EXCEPT !.tlb[p] = Entry(p)]
        /\ data' = IF op.write THEN [data EXCEPT ![f] = op.val] ELSE data
        /\ failed' = (failed \/ (~op.write /\ mode = "script" /\ data[f] # op.val))
        /\ UNCHANGED <<mm, swapVars, pgfault_num, pc, fault, held>>

\* wrong: the entry of a writable area is not writable
FaultPermRead(vma) == {"U"}

\* The rights of the new entry: perm in do_pgfault.
FaultPerm(vma) == {"U"} \cup (vma.vm_flags \cap {"W"})

\* A page fault up to the end of the switch in do_pgfault: the error code's
\* low bits are "present" and "write"; the area must allow the access.
AccessFaults(op) ==
    LET p       == PageOf(op.addr)
        vma     == find_vma(mm, op.addr)
        present == IsPresent(Entry(p))
        legal   == /\ vma # NoVma
                   /\ IF op.write THEN "W" \in vma.vm_flags
                      ELSE ~present /\ vma.vm_flags \cap {"R", "X"} # {}
    IN  /\ ~Allowed(p, op.write)
        /\ mm # NoMm
        /\ mode = "free" => pgfault_num < MaxFaults
        /\ mm' = Cached(mm, op.addr)
        /\ pgfault_num' = pgfault_num + 1
        /\ pc' = IF legal THEN "pte" ELSE "halted"
        /\ fault' = IF legal THEN [page |-> p, perm |-> FaultPerm(vma)]
                    ELSE fault
        /\ UNCHANGED <<pg, data, swapVars, held, failed, script>>

---------------------------------------------------------------------------
(* The rest of do_pgfault *)

handlerVars == <<mm, pgfault_num, held, failed, script, runVars>>

\* do_pgfault waits for a frame: for the page table or for the page.
NeedsFrame == pc = "page" \/ (pc = "pte" /\ pg.pt = NoFrame)

\* External, alloc_page when no frame is free: swap_out writes the victim to
\* its slot, leaves the slot in its entry and frees the frame.
SwapOut ==
    LET f == pra_list[Victim(pra_list)]
        p == pra_vaddr[f]
    IN  /\ NeedsFrame
        /\ pg.free = {} /\ swap_init_ok
        /\ pra_list # <<>>
        /\ pra_list' = RemoveAt(pra_list, Victim(pra_list))
        /\ disk' = [disk EXCEPT ![p] = data[f]]
        /\ pg' = tlb_invalidate(free_page([pg EXCEPT !.pte[p] = Swapped(p)], f), p)
        /\ UNCHANGED <<handlerVars, data, swap_init_ok, pra_vaddr, pc, fault>>

\* No frame: get_pte or pgdir_alloc_page fails with swapping off, and the
\* assertion of _fifo_swap_out_victim fails if nothing is left to swap out.
NoMemory ==
    /\ NeedsFrame
    /\ pg.free = {}
    /\ ~swap_init_ok \/ pra_list = <<>>
    /\ pc' = "halted"
    /\ UNCHANGED <<handlerVars, pg, data, swapVars, fault>>

GetPte ==
    /\ pc = "pte"
    /\ \E s \in get_pte(pg) : pg' = s
    /\ pc' = "page"
    /\ UNCHANGED <<handlerVars, data, swapVars, fault>>

\* swap_map_swappable and the assignment to pra_vaddr.
Enqueue(f) ==
    /\ pra_list' = map_swappable(pra_list, f)
    /\ pra_vaddr' = [pra_vaddr EXCEPT ![f] = fault.page]

\* *ptep == 0: pgdir_alloc_page maps a new frame, which is not cleared.
MapNewPage ==
    /\ pc = "page" /\ pg.pte[fault.page] = Zero
    /\ \E f \in pg.free :
         /\ pg' = page_insert([pg EXCEPT !.free = @ \ {f}], f, fault.page, fault.perm)
         /\ IF swap_init_ok THEN Enqueue(f) ELSE UNCHANGED <<pra_list, pra_vaddr>>
    /\ pc' = "run"
    /\ UNCHANGED <<handlerVars, data, disk, swap_init_ok, fault>>

\* What swap_in reads: the slot the entry names; an entry that is present
\* names no slot, and anything may come.
SlotRead(e) == IF IsPresent(e) THEN Values ELSE {disk[e[2]]}

\* wrong: the page that came back from disk is not made swappable again
SwapInUnqueued ==
    /\ pc = "page" /\ pg.pte[fault.page] # Zero
    /\ swap_init_ok
    /\ \E f \in pg.free, v \in SlotRead(pg.pte[fault.page]) :
         /\ data' = [data EXCEPT ![f] = v]
         /\ pg' = page_insert([pg EXCEPT !.free = @ \ {f}], f, fault.page, fault.perm)
    /\ pc' = "run"
    /\ UNCHANGED <<handlerVars, pra_list, pra_vaddr, disk, swap_init_ok, fault>>

\* wrong: the page is mapped without its content being read
SwapInUnread ==
    /\ pc = "page" /\ pg.pte[fault.page] # Zero
    /\ swap_init_ok
    /\ \E f \in pg.free :
         /\ pg' = page_insert([pg EXCEPT !.free = @ \ {f}], f, fault.page, fault.perm)
         /\ Enqueue(f)
    /\ pc' = "run"
    /\ UNCHANGED <<handlerVars, data, disk, swap_init_ok, fault>>

\* *ptep # 0: swap_in, page_insert, swap_map_swappable; it fails with swapping off.
SwapIn ==
    /\ pc = "page" /\ pg.pte[fault.page] # Zero
    /\ IF swap_init_ok
       THEN \E f \in pg.free, v \in SlotRead(pg.pte[fault.page]) :
              /\ data' = [data EXCEPT ![f] = v]
              /\ pg' = page_insert([pg EXCEPT !.free = @ \ {f}], f, fault.page, fault.perm)
              /\ Enqueue(f)
              /\ pc' = "run"
       ELSE pc' = "halted" /\ UNCHANGED <<pg, data, pra_list, pra_vaddr>>
    /\ UNCHANGED <<handlerVars, disk, swap_init_ok, fault>>

---------------------------------------------------------------------------
(* What is called, by a self-test or by anybody *)

Call(op) ==
    \/ op.do = "mm_create"   /\ mm_create              /\ Done
    \/ op.do = "insert_vma"  /\ insert_vma_struct(op.vma) /\ Done
    \/ op.do = "find_vma"    /\ FindVma(op.addr)       /\ Done
    \/ op.do = "mm_destroy"  /\ mm_destroy             /\ Done
    \/ op.do = "swap_init"   /\ swap_init              /\ Done
    \/ op.do = "alloc_page"  /\ AllocPage              /\ Done
    \/ op.do = "page_insert" /\ PageInsert(op.i, op.page, op.perm) /\ Done
    \/ op.do = "page_remove" /\ page_remove(op.page)   /\ Done
    \/ op.do = "drop_table"  /\ DropTable              /\ Done
    \/ op.do = "free_page"   /\ FreePage(op.i)         /\ Done
    \/ op.do = "poke"        /\ Poke(op.i, op.val)     /\ Done
    \/ op.do = "replace_tlb" /\ ReplaceTlb             /\ Done
    \/ op.do = "count_faults" /\ CountFaults           /\ Done
    \/ op.do = "assert"      /\ CheckAssertion(op)           /\ Done
    \/ op.do = "access"      /\ AccessHits(op)         /\ Done
    \/ op.do = "access"      /\ AccessFaults(op)

\* Any sequence of calls the kernel may make: the page table layer is called
\* directly only while no mm exists, a page is removed only while swapping is
\* off, a table is dropped when it maps nothing.
FreeRun ==
    \/ /\ pg.free = managed
       /\ \E d \in {"mm_create", "mm_destroy", "swap_init"} : Call([do |-> d])
    \/ /\ \A p \in Pages : pg.pte[p] = Zero
       /\ Call([do |-> "drop_table"])
    \/ /\ mm = NoMm /\ ~swap_init_ok /\ Len(held) < MaxHeld
       /\ Call([do |-> "alloc_page"])
    \/ /\ mm = NoMm /\ ~swap_init_ok
       /\ \E i \in 1 .. Len(held), p \in MapPages, perm \in {{"U"}, {"U", "W"}} :
            /\ held[i] \notin pg.free \cup {pg.pt}
            /\ Call([do |-> "page_insert", i |-> i, page |-> p, perm |-> perm])
    \/ /\ ~swap_init_ok
       /\ \E p \in Pages : Call([do |-> "page_remove", page |-> p])
    \/ /\ mm # NoMm
       /\ \E vma \in FreeAreas :
            /\ ~Contains(mm.list, vma)
            /\ Call([do |-> "insert_vma", vma |-> vma])
    \/ /\ mm # NoMm
       /\ \E a \in FreeAddrs, w \in BOOLEAN, v \in Values :
            /\ w \/ v = CHOOSE x \in Values : TRUE
            /\ Call([do |-> "access", addr |-> a, write |-> w, val |-> v])

Handler == SwapOut \/ NoMemory \/ GetPte \/ MapNewPage \/ SwapIn

Next ==
    \/ pc = "run" /\ mode = "free" /\ FreeRun /\ UNCHANGED runVars
    \/ pc = "run" /\ mode = "script" /\ script # <<>> /\ Call(Head(script)) /\ UNCHANGED runVars
    \/ Handler

Init ==
    /\ mode \in {"free", "script"}
    /\ script \in (IF mode = "free" THEN {<<>>} ELSE SelfTests)
    /\ managed \in (IF mode = "free" THEN kSubset(FreeFrames, Frames) ELSE {Frames})
    /\ mm = NoMm
    /\ pg = [pt |-> NoFrame, pte |-> [p \in Pages |-> Zero], ref |-> [f \in Frames |-> 0],
             free |-> managed, tlb |-> [p \in Pages |-> Zero]]
    /\ data = [f \in Frames |-> 0]
    /\ disk = [p \in Pages |-> 0]
    /\ swap_init_ok = FALSE
    /\ pra_list = <<>>
    /\ pra_vaddr = [f \in Frames |-> 0]
    /\ pgfault_num = 0
    /\ pc = "run"
    /\ fault = [page |-> 0, perm |-> {}]
    /\ held = <<>>
    /\ failed = FALSE

Spec == Init /\ [][Next]_vars

---------------------------------------------------------------------------
(* Properties *)

Entries == {Zero} \cup {Swapped(p) : p \in Pages}
           \cup {Present(f, perm) : f \in Frames, perm \in SUBSET {"U", "W"}}

TypeOK ==
    /\ pg.pt \in Frames \cup {NoFrame}
    /\ \A p \in Pages : pg.pte[p] \in Entries /\ pg.tlb[p] \in Entries
    /\ \A f \in Frames : pg.ref[f] \in Nat
    /\ pg.free \subseteq managed
    /\ data \in [Frames -> Values] /\ disk \in [Pages -> Values]
    /\ pra_vaddr \in [Frames -> Pages]
    /\ \A i \in 1 .. Len(pra_list) : pra_list[i] \in Frames
    /\ pc \in {"run", "pte", "page", "halted"}

\* The areas of an mm never overlap, although an insertion looks at its two
\* neighbours only, and they are sorted.
AreasDisjoint ==
    \A i, j \in 1 .. Len(mm.list) : i < j => mm.list[i].vm_end <= mm.list[j].vm_start

\* The cached area never changes an answer of find_vma, whatever was inserted
\* since it was cached: the areas stay disjoint.
FindVmaIsSearch ==
    mm # NoMm => /\ AreasDisjoint
                 /\ \A x \in 0 .. 2 * NPages : find_vma(mm, x) = SearchVma(mm, x)

Mapping(f) == {p \in Pages : pg.pte[p] \in {Present(f, perm) : perm \in SUBSET {"U", "W"}}}

\* page_insert and page_remove keep the count of a frame the number of its
\* mappings; a frame is free exactly when nobody maps or holds it, and the
\* frames nobody gave to the manager stay out.
RefsAreMappings ==
    /\ TypeOK
    /\ pg.pt # NoFrame =>
         /\ \A f \in managed \ (pg.free \cup {pg.pt}) : pg.ref[f] = Cardinality(Mapping(f))
         /\ mode = "free" => \A f \in pg.free : pg.ref[f] = 0 /\ Mapping(f) = {}
         /\ \A f \in managed \ pg.free : Mapping(f) # {} \/ f = pg.pt \/ Contains(held, f)

\* With swapping on, the queue holds each mapped frame once, at the page it is
\* mapped at: no page is lost to the queue, none is in it twice.
QueueIsResident ==
    swap_init_ok /\ mm # NoMm =>
      /\ Len(pra_list) = Cardinality(ToSet(pra_list))
      /\ ToSet(pra_list) = {f \in managed : Mapping(f) # {}}
      /\ \A f \in ToSet(pra_list) : Mapping(f) = {pra_vaddr[f]}

\* do_pgfault reads from disk only for an entry that names a slot, and with
\* swapping on: with areas that are whole pages, a permitted fault never meets
\* a page that is there.
SwapInOnlyOfSlot ==
    pc = "page" => \/ pg.pte[fault.page] = Zero
                   \/ swap_init_ok /\ pg.pte[fault.page] = Swapped(fault.page)

\* While a table is in place the processor's cached entries agree with it.
TlbCoherent ==
    pg.pt # NoFrame => \A p \in Pages : pg.tlb[p] \in {Zero, pg.pte[p]}

\* The self-tests run to their end, one after the other on what the ones before
\* have left: no call of theirs is stuck or halts, and every assertion holds, among
\* them the fault counts of _fifo_check_swap.
SelfTestsPass == mode = "script" => /\ ~failed /\ pc # "halted"
                                    /\ script = <<>> \/ ENABLED Next

\* Memory as the program sees it: swapping is invisible, and no page changes
\* while a fault is handled, but for a first touch.
Content(p) == LET e == pg.pte[p] IN
    IF mm = NoMm \/ e = Zero THEN Untouched
    ELSE IF IsPresent(e) THEN data[FrameOf(e)] ELSE disk[e[2]]
Flat == INSTANCE FlatMemory
    WITH mem <- [p \in Pages |-> Content(p)], faulting <- pc # "run"
FlatSpec == Flat!Spec
=============================================================================
