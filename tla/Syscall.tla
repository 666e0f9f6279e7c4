------------------------------ MODULE Syscall ------------------------------
(***************************************************************************)
(* User mode and system calls (kernel/core/syscall.c), and the end of      *)
(* kernel_main: a thread runs a stub in ring 3 in the kernel's own address *)
(* space, kernel_main waits until that thread is gone, and then executes   *)
(* init (Elf) on its own thread.                                           *)
(*                                                                         *)
(* The stub calls sys_debug_write twice and sys_exit; init makes any       *)
(* calls, with any arguments.  What init stores in its memory is left out. *)
(***************************************************************************)
EXTENDS Elf

CONSTANTS UserBase,     \* AF_USER_BASE
          CodePage,     \* USER_CODE_BASE
          StubStack,    \* the page at USER_STACK_BASE
          KernelPage,   \* the page of 0x100000
          MessageAt, MessageLength,   \* the stub's message, in the code page
          MaxLine,      \* the cap on a line of sys_debug_write
          MaxValidated, \* AF_MAX_VALIDATED_PAGES
          Buffers, Lengths,   \* bound: the arguments init passes
          MaxCalls      \* bound: calls init makes before it exits

ASSUME SyscallAssumption ==
    /\ Slot(CodePage) # KernelSlot /\ Slot(StubStack) # KernelSlot
    /\ PageOf(MessageAt) = CodePage /\ KernelPage \in IdentityPages

VARIABLES stub,  \* the stub's thread: what it does, and the calls it has made
          sys    \* s_syscall_count, s_user_ok_emitted, and the last call

vars == <<elfVars, stub, sys>>

Program == -2     \* what the stub's page holds
NoCall == [space |-> "none", buf |-> 0, len |-> 0, rax |-> 0]

SysInit ==
    /\ Init
    /\ stub = [state |-> "new", calls |-> 0]
    /\ sys = [count |-> 0, emitted |-> FALSE, last |-> NoCall]

----------------------------------------------------------------------------
(* A buffer of ring 3.                                                     *)

\* hal_query_flags: of the last entry on the way, or nothing.
hal_query_flags(m, space, page) ==
    IF page \in IdentityPages THEN {"present", "w", "x"}
    ELSE IF <<Tree(space, page), page>> \in DOMAIN m.map
         THEN {"present"} \cup m.map[<<Tree(space, page), page>>].flags
    ELSE {}

user_range_ok(addr, length) ==
    /\ length # 0
    /\ addr >= UserBase
    /\ LET end == (addr + length) % U64
       IN  end >= addr /\ end <= UserTop

PagesTouched_FromTheStart(addr, length) == (length + PageCells - 1) \div PageCells

PagesTouched(addr, length) ==
    (((addr % PageCells) + length + PageCells - 1) % U64) \div PageCells

user_pages_ok(space, addr, length, needs_write) ==
    LET pages == PagesTouched(addr, length)
    IN  /\ pages # 0 /\ pages <= MaxValidated
        /\ \A i \in 0 .. pages - 1 :
              LET flags == hal_query_flags(mem, space, PageOf((Down(addr) + i * PageCells) % U64))
              IN  /\ {"present", "user"} \subseteq flags
                  /\ needs_write => "w" \in flags

user_buffer_ok(space, addr, length, needs_write) ==
    user_range_ok(addr, length) /\ user_pages_ok(space, addr, length, needs_write)

----------------------------------------------------------------------------
(* The calls: each is the value left in rax.                               *)

sys_debug_write(space, buf, len) ==
    LET capped == Min({len, MaxLine})
    IN  IF user_buffer_ok(space, buf, capped, FALSE) THEN capped ELSE -1

\* syscall_entry and syscall_dispatch for a call that returns.
syscall_entry(space, number, a1, a2) ==
    sys' = [sys EXCEPT !.count = @ + 1,
                       !.last = [space |-> space, buf |-> a1, len |-> a2,
                                 rax |-> CASE number = "debug_write" -> sys_debug_write(space, a1, a2)
                                           [] number \in {"yield", "clock_get"} -> 0
                                           [] OTHER -> -2]]

\* AF_SYS_EXIT up to process_exit: the marker is written once.
sys_exit ==
    sys' = [count |-> sys.count + 1,
            emitted |-> sys.emitted \/ sys.count + 1 >= 3,
            last |-> NoCall]

----------------------------------------------------------------------------
(* The stub.                                                               *)

\* The checks of usermode_selftest before it crosses into ring 3.
BoundaryHolds(m) ==
    LET code  == hal_query_flags(m, "kernel", CodePage)
        stack == hal_query_flags(m, "kernel", StubStack)
    IN  /\ {"user", "x"} \subseteq code /\ "w" \notin code
        /\ "user" \in stack /\ "x" \notin stack
        /\ "user" \notin hal_query_flags(m, "kernel", KernelPage)

\* Two frames are allocated before either is mapped; any failure is a panic.
usermode_selftest ==
    /\ stub.state = "new"
    /\ \E code \in {IF mem.free = {} THEN NoFrame ELSE Min(mem.free)} :
       \E stack \in {IF Cardinality(mem.free) < 2 THEN NoFrame ELSE Min(mem.free \ {code})} :
          IF stack = NoFrame
          THEN mem' = mem /\ stub' = [stub EXCEPT !.state = "panic"]
          ELSE \E r1 \in {hal_map_page(pmm_alloc_frame_z(pmm_alloc_frame_z(mem, code), stack),
                                       "kernel", CodePage, code, {"user", "x"})} :
               \E r2 \in {hal_map_page(r1.mem, "kernel", StubStack, stack, {"user", "w"})} :
                  /\ mem' = IF r1.rc = "OK"
                            THEN [r2.mem EXCEPT !.cells[code] = [c \in DOMAIN @ |-> Program]]
                            ELSE r1.mem
                  /\ stub' = [stub EXCEPT !.state =
                                 IF r1.rc = "OK" /\ r2.rc = "OK" /\ BoundaryHolds(r2.mem)
                                 THEN "ring3" ELSE "panic"]
    /\ UNCHANGED <<file, image, load, sys>>

stub_writes ==
    /\ stub.state = "ring3" /\ stub.calls < 2
    /\ stub' = [stub EXCEPT !.calls = @ + 1]
    /\ syscall_entry("kernel", "debug_write", MessageAt, MessageLength)
    /\ UNCHANGED elfVars

\* A thread with no process: only the thread ends.
stub_exits ==
    /\ stub.state = "ring3" /\ stub.calls = 2
    /\ stub' = [stub EXCEPT !.state = "zombie"]
    /\ sys_exit
    /\ UNCHANGED elfVars

\* kernel_main: sched_collect_zombies in its loop releases the thread, and the
\* loop ends when it is no longer in the table.  The turns of the loop are counted,
\* not here: while the stub is there, they may be used up, which is a panic.
kernel_main_waits ==
    /\ \/ /\ stub.state = "zombie"
          /\ stub' = [stub EXCEPT !.state = "gone"]
          /\ Goto("exec")
       \/ /\ stub.state = "ring3"
          /\ stub' = [stub EXCEPT !.state = "panic"]
          /\ load' = load
    /\ UNCHANGED <<file, mem, image, sys>>

----------------------------------------------------------------------------
(* init.                                                                   *)

init_calls ==
    /\ load.pc = "user" /\ sys.count < 3 + MaxCalls
    /\ \/ \E buf \in Buffers, len \in Lengths : syscall_entry("init", "debug_write", buf, len)
       \/ \E number \in {"yield", "clock_get", "none"} : syscall_entry("init", number, 0, 0)
    /\ UNCHANGED <<elfVars, stub>>

init_exits ==
    /\ load.pc = "user"
    /\ sys_exit
    /\ Goto("zombie")
    /\ UNCHANGED <<file, mem, image, stub>>

\* The thread is released, and with its last thread the process.
sched_collect_zombies ==
    /\ load.pc = "zombie"
    /\ mem' = hal_pt_destroy(mem)
    /\ Goto("gone")
    /\ UNCHANGED <<file, image, stub, sys>>

Next == \/ usermode_selftest \/ stub_writes \/ stub_exits \/ kernel_main_waits
        \/ (ElfNext /\ UNCHANGED <<stub, sys>>)
        \/ init_calls \/ init_exits \/ sched_collect_zombies

Spec == SysInit /\ [][Next]_vars

----------------------------------------------------------------------------
\* Where the process has been released, or there is none yet.
NoProcess == load.pc \in {"idle", "exec", "panic", "gone"}

Mapped(trees)   == {mem.map[at].frame : at \in {x \in DOMAIN mem.map : x[1] \in trees}}
TablesOf(trees) == {mem.tables[at] : at \in {x \in DOMAIN mem.tables : x[1] \in trees}}

\* However a load ends - refused by any check, short of memory for a page, a
\* table or the buffer, or run to its exit - every frame is free, a page or a
\* table once, or the root; without a process only the stub's pages, which
\* nobody unmaps, are kept; and the buffer for the file lives only while it is
\* looked at.  A process that reaches into the kernel's slot is left out.
FramesExact ==
    LET kept == Mapped({"kernel", "init"}) \cup TablesOf({"kernel", "init"})
    IN  /\ image = (load.pc \in {"validate", "segment", "page"})
        /\ stub.state # "panic" /\ ~mem.user0 =>
              /\ DOMAIN mem.cells = mem.free \cup kept \cup ({mem.root} \ {NoFrame})
              /\ (mem.free \cup {mem.root}) \cap kept = {} /\ mem.root \notin mem.free
              /\ Cardinality(kept) = Cardinality(DOMAIN mem.map) + Cardinality(DOMAIN mem.tables)
              /\ NoProcess => kept = Mapped({"kernel"}) \cup TablesOf({"kernel"})
                              /\ mem.root = NoFrame

\* sys_debug_write answers with a length exactly when each cell it then reads is
\* the caller's: a page of the space it runs in, mapped for ring 3, within the
\* user half of the addresses.  Checked page by page, from rounded addresses and
\* with sums that may wrap.
ReadsAreTheCallers ==
    LET c == sys.last
        n == Min({c.len, MaxLine})
        own(a) == /\ a \in UserBase .. UserTop - 1
                  /\ <<Tree(c.space, PageOf(a)), PageOf(a)>> \in DOMAIN mem.map
    IN  (c.space # "none" /\ c.len > 0 /\ c.rax # -2 /\ ~mem.user0) =>
            (c.rax = n <=> \A a \in c.buf .. c.buf + n - 1 : own(a))
============================================================================
