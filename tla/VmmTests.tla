------------------------------ MODULE VmmTests ------------------------------
(***************************************************************************)
(* The self-tests of pmm.c, vmm.c and swap_fifo.c as one script for Vmm, in *)
(* the order in which the kernel runs them when it boots. Their large       *)
(* constants are scaled: check_vma_struct inserts 4 areas for its 100, and  *)
(* check_pgfault writes one value for its 100 bytes.                        *)
(* Left out are check_alloc_page, whose default_check fails with this page  *)
(* manager (LowestFits of Pmm), and what check_boot_pgdir asserts of the    *)
(* kernel's own mapping of the frames (pmm.c:522-529), which Vmm has not.   *)
(***************************************************************************)
EXTENDS Vmm, TLC

assert(what) == [do |-> "assert"] @@ what
call(d) == [do |-> d]
write(a, v) == [do |-> "access", addr |-> a, write |-> TRUE, val |-> v]
read(a, v) == [do |-> "access", addr |-> a, write |-> FALSE, val |-> v]
faults(n) == assert([that |-> "pgfault_num", n |-> n])
ref(i, n) == assert([that |-> "ref", i |-> i, n |-> n])
insert(i, p, perm) == [do |-> "page_insert", i |-> i, page |-> p, perm |-> perm]
maps(p, i, perm) == assert([that |-> "maps", page |-> p, i |-> i, perm |-> perm])
remove(p) == [do |-> "page_remove", page |-> p]
no_table == assert([that |-> "no_table"])

check_pgdir ==
    << assert([that |-> "unmapped", page |-> 0]),
       call("alloc_page"), insert(1, 0, {}), maps(0, 1, {}), ref(1, 1),
       call("alloc_page"), insert(2, 1, {"U", "W"}), maps(1, 2, {"U", "W"}), ref(2, 1),
       insert(1, 1, {}), ref(1, 2), ref(2, 0), maps(1, 1, {}),
       remove(0), ref(1, 1), ref(2, 0),
       remove(1), ref(1, 0), ref(2, 0),
       assert([that |-> "ref_table", n |-> 1]), call("drop_table") >>

\* p is the third page that was allocated.
check_boot_pgdir ==
    << no_table,
       call("alloc_page"), insert(3, 0, {"W"}), ref(3, 1), insert(3, 1, {"W"}), ref(3, 2),
       write(0, 1), read(2, 1),                      \* strcpy, strcmp
       [do |-> "poke", i |-> 3, val |-> 0], read(0, 0),
       [do |-> "free_page", i |-> 3], call("drop_table") >>

\* check_boot_pgdir drops its table and invalidates nothing (pmm.c:544-547), and
\* check_pgfault uses the same addresses. It can pass only if by then the processor
\* has replaced the entries that it has cached.
TlbReplaced == <<call("replace_tlb")>>

\* check_vma_struct with step1 = 2 and step2 = 4.
CheckedArea(i) == vma_create(i * 5, i * 5 + 2, {})
CheckedAreas == <<2, 1, 3, 4>>
find(a) == [do |-> "find_vma", addr |-> a]
found(a, v) == assert([that |-> "found", addr |-> a, vma |-> v])
check_vma_struct ==
    <<call("mm_create")>>
    \o [k \in 1 .. 4 |-> [do |-> "insert_vma", vma |-> CheckedArea(CheckedAreas[k])]]
    \o [i \in 1 .. 4 |-> assert([that |-> "vma", i |-> i, vma |-> CheckedArea(i), n |-> 4])]
    \o FlattenSeq([i \in 1 .. 4 |->
          << found(5 * i, CheckedArea(i)), find(5 * i), found(5 * i + 1, CheckedArea(i)),
             find(5 * i + 1), found(5 * i + 2, NoVma), find(5 * i + 2),
             found(5 * i + 3, NoVma), found(5 * i + 4, NoVma) >>])
    \o [i \in 1 .. 5 |-> found(5 - i, NoVma)]
    \o <<call("mm_destroy"), assert([that |-> "all_free"])>>

check_pgfault ==
    << call("mm_create"), no_table,
       [do |-> "insert_vma", vma |-> vma_create(0, 10, {"W"})],
       found(1, vma_create(0, 10, {"W"})), find(1),
       write(1, 1), read(1, 1),
       remove(0), call("drop_table"), call("mm_destroy"), assert([that |-> "all_free"]) >>

\* swap.c's check_swap (external) sets pgfault_num to 0, touches the pages a, b, c
\* and d, then calls _fifo_check_swap; a is page 0 here and 0x1000 there.
page_a == 0
page_b == 2
page_c == 4
page_d == 6
page_e == 8
TouchFour ==
    << call("swap_init"), call("mm_create"),
       [do |-> "insert_vma", vma |-> vma_create(0, 10, {"R", "W"})], call("count_faults"),
       write(page_a, 1), write(page_b, 0), write(page_c, 1), write(page_d, 0) >>
_fifo_check_swap ==
    << write(page_c, 1), faults(4), write(page_a, 1), faults(4), write(page_d, 0), faults(4),
       write(page_b, 0), faults(4), write(page_e, 1), faults(5), write(page_b, 0), faults(5),
       write(page_a, 1), faults(6), write(page_b, 0), faults(7), write(page_c, 1), faults(8),
       write(page_d, 0), faults(9), write(page_e, 1), faults(10), read(page_a, 1), write(page_a, 1), faults(11) >>

KernelTests == {check_pgdir \o check_boot_pgdir \o check_vma_struct \o TlbReplaced
                \o check_pgfault \o TouchFour \o _fifo_check_swap}
=============================================================================
