-------------------------------- MODULE Input --------------------------------
(***************************************************************************)
(* The sources of taint: the callbacks of tools/mytool.cpp and the ones    *)
(* hook_file_syscall (src/syscall_hook.cpp) installs, run by sysenter_save *)
(* and sysexit_save (src/libdft_api.cpp) on top of the shadow memory of    *)
(* TagMap.  A system call of a thread is several steps: entry and kernel   *)
(* (the entry only saves the thread's own arguments), exit with the        *)
(* callback, and the writes of its tags; steps of other threads come in    *)
(* between.                                                                *)
(*                                                                         *)
(* The tag of a byte is the offset in the input file it was read from.     *)
(* odd becomes true in the situations in which the callbacks are known not *)
(* to give exactly that tag; until then they have to.                      *)
(***************************************************************************)
EXTENDS TagMap, FiniteSets
CONSTANTS FileLen,      \* bytes in every file
          Fd,           \* descriptors the kernel hands out
          Buf(_),       \* address of the buffer of a thread
          Count,        \* its length, the count of every read
          MapAddr,      \* where the kernel puts a mapping
          Word          \* one more than the largest size_t
ASSUME InputAssumption ==
    /\ FileLen \in Nat /\ Count \in Nat \ {0} /\ Word \in Nat \ {0}
    /\ Fd \subseteq Nat /\ 0 \in Fd
    /\ MapAddr \in Nat /\ \A t \in Threads : Buf(t) \in Nat
VARIABLES tool,         \* which tool is loaded
          fdset,        \* fdset of mytool, fuzzing_fd_set of the library
          stdin_read_off,
          fds,          \* descriptor -> open file description, 0: closed
          pos, file,    \* position and file of a description
          mem,          \* what a byte of memory holds: <<file, offset>>
          mapped,       \* whether MapAddr is in use
          pc, ctx,      \* per thread: progress and syscall_ctx of the call
          odd           \* the callbacks are excused
iovars == <<tool, fdset, stdin_read_off, fds, pos, file, mem, mapped, pc, ctx, odd>>
vars == <<mapvars, iovars>>

Files == {"input", "other", "stdin"}
Tracked == IF tool = "mytool" THEN {"input"} ELSE {"input", "stdin"}
Foreign == <<"other", 0>>      \* memory that holds no input
EPERM == 1                     \* as a result, equal to MAP_FAILED
EOTHER == 2                    \* any other error: less than a page
U(x) == x % Word               \* conversion to an unsigned type

(* The tag a byte should have. *)
Want(a) == IF mem[a][1] \in Tracked THEN mem[a][2] ELSE None

------------------------------------------------------------------------------
(* The kernel.  A call is a record; fields a call does not use are fixed.  *)
Call(nr, fd, new, path, off, len, addr) ==
    [nr |-> nr, fd |-> fd, new |-> new, path |-> path, off |-> off, len |-> len,
     addr |-> addr, flags |-> {}, ret |-> 0]
Blank == Call("none", -1, -1, "other", 0, 0, 0)
Least(a, b) == IF a <= b THEN a ELSE b
Largest(a, b) == IF a >= b THEN a ELSE b
Avail(p) == IF p >= FileLen THEN 0 ELSE FileLen - p
Open(f) == f \in DOMAIN fds /\ fds[f] # 0
Free == {f \in Fd : fds[f] = 0}
LowestFree == CHOOSE f \in Free : \A g \in Free : f <= g
Fill(a, n, name, p) == [b \in Addr |-> IF b \in a .. a + n - 1
                                       THEN <<name, p + b - a>> ELSE mem[b]]
Describe(f) == IF Open(f) THEN {g \in Fd : fds[g] = fds[f]} \cup {f} ELSE {f}
(* The descriptors whose meaning or position a call depends on. *)
Touches(c) == Describe(c.fd) \cup Describe(c.new)
              \cup (IF c.nr \in {"open", "openat", "dup"} THEN {c.ret} ELSE {})
(* The kernel step of t falls between kernel step and callback of another  *)
(* thread, and both are about one descriptor or about mappings.            *)
Maps(c) == c.nr \in {"mmap", "munmap"}
Overlaps(t, c) ==
    \E u \in Threads \ {t} :
        \/ pc[u] = "exit" /\ Touches(c) \cap Touches(ctx[u]) \cap Fd # {}
        \/ pc[u] # "run" /\ Maps(c) /\ Maps(ctx[u])
Return(t, c, r) == /\ pc' = [pc EXCEPT ![t] = "exit"]
                   /\ ctx' = [ctx EXCEPT ![t] = [c EXCEPT !.ret = r]]
                   /\ odd' = (odd \/ Overlaps(t, [c EXCEPT !.ret = r]))

KOpen(t, c) ==
    LET d == Len(pos) + 1
    IN  /\ c.nr \in {"open", "openat"} /\ Free # {}
        /\ fds' = [fds EXCEPT ![LowestFree] = d]
        /\ pos' = Append(pos, 0) /\ file' = Append(file, c.path)
        /\ UNCHANGED <<mem, mapped>>
        /\ Return(t, c, LowestFree)
KDup(t, c) ==
    LET new == IF c.nr = "dup" THEN LowestFree ELSE c.new
    IN  /\ c.nr \in {"dup", "dup2"} /\ Open(c.fd)
        /\ c.nr = "dup" => Free # {}
        /\ fds' = [fds EXCEPT ![new] = fds[c.fd]]
        /\ UNCHANGED <<pos, file, mem, mapped>>
        /\ Return(t, c, new)
KClose(t, c) ==
    /\ c.nr = "close" /\ Open(c.fd)
    /\ fds' = [fds EXCEPT ![c.fd] = 0]
    /\ UNCHANGED <<pos, file, mem, mapped>>
    /\ Return(t, c, 0)
KRead(t, c) ==
    LET d == fds[c.fd]
        p == IF c.nr = "pread64" THEN c.off ELSE pos[d]
    IN  /\ c.nr \in {"read", "readv", "pread64"} /\ Open(c.fd)
        /\ \E n \in {Least(Count, Avail(p)), Least(1, Avail(p))} :
              /\ mem' = Fill(Buf(t), n, file[d], p)
              /\ pos' = IF c.nr = "pread64" THEN pos ELSE [pos EXCEPT ![d] = @ + n]
              /\ Return(t, c, n)
        /\ UNCHANGED <<fds, file, mapped>>
KMmap(t, c) ==
    LET n == PAGE_SIZE * ((c.len + PAGE_SIZE - 1) \div PAGE_SIZE)
        d == IF Open(c.fd) THEN fds[c.fd] ELSE 0
    IN  /\ c.nr = "mmap" /\ (Open(c.fd) \/ c.fd = -1) /\ ~mapped
        /\ mem' = [a \in Addr |-> IF a \notin MapAddr .. MapAddr + n - 1 THEN mem[a]
                                  ELSE IF d = 0 \/ c.off + a - MapAddr >= FileLen
                                  THEN Foreign
                                  ELSE <<file[d], c.off + a - MapAddr>>]
        /\ mapped' = TRUE
        /\ UNCHANGED <<fds, pos, file>>
        /\ Return(t, c, MapAddr)
KMunmap(t, c) ==
    /\ c.nr = "munmap" /\ mapped
    /\ mapped' = FALSE
    /\ UNCHANGED <<fds, pos, file, mem>>
    /\ Return(t, c, 0)
KFail(t, c) ==
    /\ UNCHANGED <<fds, pos, file, mem, mapped>>
    /\ \E e \in IF Maps(c) THEN {EPERM, EOTHER} ELSE {EOTHER} : Return(t, c, -e)
Kernel(t, c) ==
    \/ KOpen(t, c) \/ KDup(t, c) \/ KClose(t, c) \/ KRead(t, c) \/ KMmap(t, c)
    \/ KMunmap(t, c) \/ KFail(t, c)

------------------------------------------------------------------------------
(* Callbacks.  Each yields the new set of descriptors, the new offset of   *)
(* stdin and the tags to write.                                            *)
Result(s, off, w) == [set |-> s, off |-> off, writes |-> w]
Nothing == Result(fdset, stdin_read_off, <<>>)
Labels(first, n) == [i \in 1 .. n |-> U(first + i - 1)]
(* lseek(fd, 0, SEEK_CUR) *)
Seek(f) == IF Open(f) THEN pos[fds[f]] ELSE -1

my_open(c) == IF c.ret >= 0 /\ c.path = "input"
              THEN [Nothing EXCEPT !.set = @ \cup {c.ret}] ELSE Nothing
my_openat(c) == IF c.path = "input"
                THEN [Nothing EXCEPT !.set = @ \cup {c.ret}] ELSE Nothing
(* Mutant: a closed descriptor stays in the set. *)
KeepClosed(c) == Nothing
my_close(c) == IF c.ret < 0 THEN Nothing
               ELSE [Nothing EXCEPT !.set = @ \ {c.fd}]
(* Mutant: the position after the read is taken for the one before. *)
OffsetAfter(c, t) ==
    IF c.ret <= 0 THEN Nothing
    ELSE [Nothing EXCEPT !.writes = IF c.fd \in fdset
                                    THEN Setn(Buf(t), Labels(Seek(c.fd), c.ret))
                                    ELSE tagmap_clrn(Buf(t), c.ret)]
my_read(c, t) ==
    CASE c.ret <= 0 -> Nothing
      [] c.ret > 0 /\ c.fd \notin fdset ->
             [Nothing EXCEPT !.writes = tagmap_clrn(Buf(t), c.ret)]
      [] c.ret > 0 /\ c.fd \in fdset /\ c.fd = 0 ->
             Result(fdset, U(stdin_read_off + c.ret),
                    Setn(Buf(t), Labels(stdin_read_off, c.ret)))
      [] OTHER -> [Nothing EXCEPT !.writes =
                      Setn(Buf(t), Labels(Seek(c.fd) - c.ret, c.ret))]
my_pread64(c, t) ==
    IF c.ret <= 0 THEN Nothing
    ELSE [Nothing EXCEPT !.writes = IF c.fd \in fdset
                                    THEN Setn(Buf(t), Labels(c.off, c.ret))
                                    ELSE tagmap_clrn(Buf(t), c.ret)]
(* Two buffers that lie side by side, of Count bytes together. *)
my_readv(c, t) ==
    IF c.ret <= 0 THEN Nothing
    ELSE [Nothing EXCEPT !.writes = IF c.fd \in fdset
                                    THEN Setn(Buf(t), Labels(0, c.ret))
                                    ELSE tagmap_clrn(Buf(t), c.ret)]
MapRounded(len) == IF len < PAGE_SIZE THEN PAGE_SIZE
                   ELSE len + PAGE_SIZE - (len % PAGE_SIZE)
(* Only MAP_FAILED stops the callback.  A negative address is one at the   *)
(* upper end, beyond the limit: a loop that tags wraps to 0, one that      *)
(* clears up to addr + n does not run when that sum wraps.                 *)
TagFrom(a, n) == IF a >= 0 THEN Setn(a, Labels(0, n))
                 ELSE Setn(0, Labels(-a, Largest(n + a, 0)))
ClearFrom(a, n) == IF a >= 0 THEN tagmap_clrn(a, n) ELSE <<>>
my_mmap(c) ==
    LET n == MapRounded(c.len)
        down == IF "MAP_GROWSDOWN" \in c.flags THEN n ELSE 0
    IN  IF c.ret = -EPERM THEN Nothing
        ELSE [Nothing EXCEPT !.writes = IF c.fd \in fdset THEN TagFrom(c.ret, n)
                                        ELSE ClearFrom(c.ret - down, n)]

is_fuzzing_fd(f) == f = 0 \/ f \in fdset
add_fuzzing_fd(f) == [Nothing EXCEPT !.set = IF f > 0 THEN @ \cup {f} ELSE @]
hook_open(c) == IF c.ret < 0 \/ c.path # "input" THEN Nothing
                ELSE add_fuzzing_fd(c.ret)
hook_openat(c) == IF c.path # "input" THEN Nothing ELSE add_fuzzing_fd(c.ret)
hook_dup(c) == IF c.ret < 0 \/ ~is_fuzzing_fd(c.fd) THEN Nothing
               ELSE add_fuzzing_fd(c.ret)
hook_dup2(c) == IF c.ret < 0 \/ ~is_fuzzing_fd(c.fd) THEN Nothing
                ELSE add_fuzzing_fd(c.new)
hook_close(c) == IF c.ret < 0 THEN Nothing ELSE [Nothing EXCEPT !.set = @ \ {c.fd}]
(* The result is unsigned: a failed call goes on.  At most 32 bytes more   *)
(* than were read get a tag.                                               *)
Slack == 32
Upto(nr) == Least(Count, U(nr + Slack))
hook_read(c, t) ==
    LET nr == U(c.ret)
    IN  CASE nr = 0 -> Nothing
          [] nr # 0 /\ ~is_fuzzing_fd(c.fd) ->
                 [Nothing EXCEPT !.writes = tagmap_clrn(Buf(t), nr)]
          [] nr # 0 /\ c.fd = 0 ->
                 Result(fdset, U(stdin_read_off + nr),
                        Setn(Buf(t), Labels(stdin_read_off, Upto(nr))))
          [] OTHER -> [Nothing EXCEPT !.writes =
                          Setn(Buf(t), Labels(Seek(c.fd) - nr, Upto(nr)))]
hook_pread64(c, t) ==
    LET nr == U(c.ret)
    IN  IF nr = 0 THEN Nothing
        ELSE [Nothing EXCEPT !.writes = IF is_fuzzing_fd(c.fd)
                                        THEN Setn(Buf(t), Labels(c.off, Upto(nr)))
                                        ELSE tagmap_clrn(Buf(t), Count)]
hook_mmap(c) ==
    IF c.ret = -EPERM \/ "PROT_READ" \notin c.flags THEN Nothing ELSE
    [Nothing EXCEPT !.writes = IF is_fuzzing_fd(c.fd)
                               THEN Setn(c.addr, Labels(c.off, c.len))
                               ELSE tagmap_clrn(c.addr, c.len)]
hook_munmap(c) ==
    IF c.ret = -EPERM THEN Nothing ELSE
    [Nothing EXCEPT !.writes = tagmap_clrn(c.addr, c.len)]

(* The descriptors the tools leave alone: no callback, or for readv under  *)
(* hook_file_syscall the one of src/syscall_desc.cpp.                      *)
default_readv(c, t) ==
    IF c.ret <= 0 THEN Nothing
    ELSE [Nothing EXCEPT !.writes = tagmap_clrn(Buf(t), c.ret)]
MyHook(c, t) ==
    CASE c.nr = "open" -> my_open(c)
      [] c.nr = "openat" -> my_openat(c)
      [] c.nr = "close" -> my_close(c)
      [] c.nr = "read" -> my_read(c, t)
      [] c.nr = "pread64" -> my_pread64(c, t)
      [] c.nr = "readv" -> my_readv(c, t)
      [] c.nr = "mmap" -> my_mmap(c)
      [] OTHER -> Nothing
FileHook(c, t) ==
    CASE c.nr = "open" -> hook_open(c)
      [] c.nr = "openat" -> hook_openat(c)
      [] c.nr = "dup" -> hook_dup(c)
      [] c.nr = "dup2" -> hook_dup2(c)
      [] c.nr = "close" -> hook_close(c)
      [] c.nr = "read" -> hook_read(c, t)
      [] c.nr = "pread64" -> hook_pread64(c, t)
      [] c.nr = "readv" -> default_readv(c, t)
      [] c.nr = "mmap" -> hook_mmap(c)
      [] c.nr = "munmap" -> hook_munmap(c)
      [] OTHER -> Nothing

(* Where the callbacks are known to be inexact, seen at the exit of c. *)
Source(f) == Open(f) /\ file[fds[f]] \in Tracked
MyOdd(c) ==
    \/ c.nr \in {"dup", "dup2"} /\ c.ret >= 0 /\ (Source(c.fd) \/ c.ret \in fdset)
    \/ c.nr = "readv" /\ c.ret > 0 /\ c.fd \in fdset /\ Seek(c.fd) # c.ret
    \/ c.nr = "mmap" /\ c.ret >= 0 /\ c.fd \in fdset
       /\ (c.fd = -1 \/ c.off # 0 \/ c.len % PAGE_SIZE = 0 \/ MapRounded(c.len) > FileLen)
    \/ c.nr = "mmap" /\ c.ret = -EOTHER /\ c.fd \in fdset
    \/ c.nr = "mmap" /\ c.ret >= 0 /\ c.fd \notin fdset /\ "MAP_GROWSDOWN" \in c.flags
    \/ c.nr = "read" /\ c.ret > 0 /\ c.fd = 0 /\ 0 \in fdset
       /\ stdin_read_off # Seek(0) - c.ret
FileOdd(c) ==
    \/ c.nr \in {"read", "pread64"} /\ c.ret < 0
    \/ c.nr = "munmap" /\ c.ret = -EOTHER
    \/ c.nr = "mmap" /\ c.ret = -EOTHER /\ "PROT_READ" \in c.flags
    \/ c.nr = "read" /\ c.ret \in 1 .. Count - 1 /\ is_fuzzing_fd(c.fd)
    \/ c.nr = "pread64" /\ c.ret \in 1 .. Count - 1
    \/ c.nr = "mmap" /\ c.ret >= 0 /\ c.ret # c.addr /\ "PROT_READ" \in c.flags
    \/ c.nr = "mmap" /\ c.ret >= 0 /\ is_fuzzing_fd(c.fd)
       /\ ("PROT_READ" \notin c.flags \/ c.len % PAGE_SIZE # 0 \/ c.len > Avail(c.off))
    \/ c.nr = "dup2" /\ c.ret \in fdset /\ ~is_fuzzing_fd(c.fd)
    \/ c.nr = "readv" /\ c.ret > 0 /\ Source(c.fd)
    \/ c.fd = 0 /\ ~Source(0)
    \/ c.nr = "read" /\ c.fd = 0 /\ c.ret > 0 /\ stdin_read_off # Seek(0) - c.ret

------------------------------------------------------------------------------
Init ==
    /\ MapInit
    /\ tool \in {"mytool", "hook_file_syscall"}
    /\ fdset = {} /\ stdin_read_off = 0
    /\ fds = [f \in Fd |-> IF f = 0 THEN 1 ELSE 0]
    /\ pos = <<0>> /\ file = <<"stdin">>
    /\ mem = [a \in Addr |-> Foreign] /\ mapped = FALSE
    /\ pc = [t \in Threads |-> "run"] /\ ctx = [t \in Threads |-> Blank]
    /\ odd = FALSE

(* The system calls a program may make.  flags are those of prot and flags *)
(* of mmap that a callback tests.                                          *)
MapCall(f, o, n, a, g) == [Call("mmap", f, -1, "other", o, n, a) EXCEPT !.flags = g]
MapFlags == {{"PROT_READ"}, {}, {"PROT_READ", "MAP_GROWSDOWN"}}
Syscalls ==
    {Call(n, -1, -1, p, 0, 0, 0) : n \in {"open", "openat"}, p \in Files \ {"stdin"}}
    \cup {Call(n, f, -1, "other", 0, 0, 0) : n \in {"close", "dup", "read", "readv"}, f \in Fd}
    \cup {Call("dup2", f, g, "other", 0, 0, 0) : f \in Fd, g \in Fd}
    \cup {Call("pread64", f, -1, "other", 1, 0, 0) : f \in Fd}
    \cup {MapCall(f, o, n, a, g) : f \in Fd \cup {-1}, o \in {0, PAGE_SIZE}, n \in {1, PAGE_SIZE},
                                    a \in {0, MapAddr}, g \in MapFlags}
    \cup {Call("munmap", -1, -1, "other", 0, PAGE_SIZE, MapAddr)}

sysenter_save(t, c) ==
    /\ pc[t] = "run" /\ Kernel(t, c)
    /\ UNCHANGED <<tool, fdset, stdin_read_off, mapvars>>

(* The context of a finished call is not read again. *)
EndOfCall(t, last) ==
    /\ pc' = [pc EXCEPT ![t] = IF last THEN "run" ELSE "tags"]
    /\ ctx' = IF last THEN [ctx EXCEPT ![t] = Blank] ELSE ctx
sysexit_save(t) ==
    LET c == ctx[t]
        r == IF tool = "mytool" THEN MyHook(c, t) ELSE FileHook(c, t)
    IN  /\ pc[t] = "exit"
        /\ fdset' = r.set /\ stdin_read_off' = r.off
        /\ todo' = [todo EXCEPT ![t] = r.writes]
        /\ EndOfCall(t, r.writes = <<>>)
        /\ odd' = (odd \/ IF tool = "mytool" THEN MyOdd(c) ELSE FileOdd(c))
        /\ UNCHANGED <<tool, fds, pos, file, mem, mapped>>
        /\ UNCHANGED <<dir, tables, pages, at, table, page, flat, lost>>

SetTags(t) ==
    /\ pc[t] = "tags" /\ tag_dir_setb_save_mem(t)
    /\ EndOfCall(t, todo'[t] = <<>>)
    /\ UNCHANGED <<tool, fdset, stdin_read_off, fds, pos, file, mem, mapped, odd>>

Next == \E t \in Threads : \/ \E c \in Syscalls : sysenter_save(t, c)
                          \/ sysexit_save(t) \/ SetTags(t)
Spec == Init /\ [][Next]_vars

------------------------------------------------------------------------------
(* Bytes a call in progress may be writing. *)
Area == MapAddr .. MapAddr + 2 * PAGE_SIZE - 1
Mapping == {t \in Threads : pc[t] # "run" /\ Maps(ctx[t])}
Busy == (UNION {Buf(t) .. Buf(t) + Count - 1 : t \in {u \in Threads : pc[u] # "run"}})
        \cup (IF Mapping # {} \/ ~mapped THEN Area ELSE {})

(* The buffers of the threads and the place for mappings do not overlap,   *)
(* and sizes and offsets are far from the end of their type.               *)
ASSUME LayoutAssumption ==
    /\ \A t, u \in Threads : t # u => Buf(t) + Count <= Buf(u) \/ Buf(u) + Count <= Buf(t)
    /\ \A t \in Threads : Buf(t) + Count <= MapAddr \/ MapAddr + 2 * PAGE_SIZE <= Buf(t)
    /\ Count + Slack < Word /\ FileLen <= Word

(* The directory behaves like an array of tags: what was written last is   *)
(* read back, from pages that exist and from those never allocated, unless *)
(* two threads install the same table or page at once.                     *)
FlatMap == ~lost => \A a \in Addr : tagmap_getb(a) = flat[a]

(* Every byte that came from the input carries the offset it came from,    *)
(* and no other byte carries a tag, whatever calls the threads have made,  *)
(* in one of which nothing odd happened.                                   *)
TagsExact == ~odd /\ ~lost => \A a \in Addr \ Busy : tagmap_getb(a) = Want(a)

(* Between calls the tracked descriptors are the ones open on the input:   *)
(* no descriptor is forgotten or kept when numbers are reused.             *)
Quiet == \A t \in Threads : pc[t] = "run"
FdsExact ==
    ~odd /\ Quiet => fdset \cap (Fd \ {0}) = {f \in Fd \ {0} : Source(f)}
=============================================================================
