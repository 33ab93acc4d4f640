---------------------------- MODULE Input_proofs -----------------------------
(***************************************************************************)
(* The shadow memory is an array of tags (FlatMap), the tracked            *)
(* descriptors are the ones open on the input (FdsExact), and every byte   *)
(* carries the offset it was read from (TagsExact), for any number of      *)
(* threads, descriptors, pages and calls.                                  *)
(***************************************************************************)
EXTENDS Input, WellFoundedInduction, TLAPS

-----------------------------------------------------------------------------
(* The inductive invariant.                                                *)

Entries == 0 .. VIRT2PAGETABLE(Limit)
Slots == 0 .. PAGETABLE_SZ - 1
Offsets == 0 .. PAGE_SIZE - 1
Places == {"table", "newtable", "page", "newpage", "write"}

MapType ==
    /\ dir \in [Entries -> Nat]
    /\ tables \in Seq([Slots -> Nat])
    /\ pages \in Seq([Offsets -> Int])
    /\ todo \in [Threads -> Seq(Addr \X Int)]
    /\ at \in [Threads -> Places]
    /\ table \in [Threads -> Nat] /\ page \in [Threads -> Nat]
    /\ flat \in [Addr -> Int]
    /\ lost \in BOOLEAN

(* Every pointer is null or points to a table or page that exists, and no  *)
(* two point to the same one.                                              *)
Pointers ==
    /\ \A i \in Entries : dir[i] <= Len(tables)
    /\ \A k \in 1 .. Len(tables), p \in Slots : tables[k][p] <= Len(pages)
    /\ \A i, j \in Entries : dir[i] # 0 /\ dir[i] = dir[j] => i = j
    /\ \A k, l \in 1 .. Len(tables), p, q \in Slots :
          tables[k][p] # 0 /\ tables[k][p] = tables[l][q] => k = l /\ p = q

(* A thread inside tag_dir_setb_save_mem holds the pointers that the       *)
(* directory holds, as long as none has been overwritten.                  *)
Cursor(t) ==
    /\ at[t] # "table" => todo[t] # <<>> /\ pc[t] = "tags"
    /\ at[t] \in {"page", "newpage", "write"} =>
          /\ table[t] \in 1 .. Len(tables)
          /\ ~lost => dir[VIRT2PAGETABLE(Byte(t))] = table[t]
    /\ at[t] = "write" =>
          /\ page[t] \in 1 .. Len(pages)
          /\ ~lost => tables[table[t]][VIRT2PAGE(Byte(t))] = page[t]

Calls == [nr : {"none", "open", "openat", "close", "dup", "dup2", "read", "readv", "pread64",
                "mmap", "munmap"},
          fd : Fd \cup {-1}, new : Fd \cup {-1}, path : Files, off : Nat, len : Nat,
          addr : Nat, flags : SUBSET {"PROT_READ", "MAP_GROWSDOWN"}, ret : Int]
IoType ==
    /\ tool \in {"mytool", "hook_file_syscall"}
    /\ fdset \in SUBSET Int /\ stdin_read_off \in Int
    /\ pos \in Seq(Nat) /\ file \in Seq(Files) /\ Len(file) = Len(pos)
    /\ fds \in [Fd -> 0 .. Len(pos)]
    /\ pc \in [Threads -> {"run", "exit", "tags"}]
    /\ ctx \in [Threads -> Calls]
    /\ odd \in BOOLEAN

(* The descriptor a call that has succeeded opens, replaces or closes.     *)
Opens(c) == c.nr \in {"open", "openat", "dup", "dup2"} /\ c.ret >= 0
Closes(c) == c.nr = "close" /\ c.ret >= 0
Alters(c, f) == \/ Opens(c) /\ f = c.ret
                \/ Closes(c) /\ f = c.fd
(* The descriptors a call names. *)
Core(c) == {c.fd, c.new} \cup (IF c.nr \in {"open", "openat", "dup"} THEN {c.ret} ELSE {})

(* The descriptors a tool tracks: the library treats 0 apart.               *)
Followed == IF tool = "mytool" THEN Fd ELSE Fd \ {0}
Known(f) == f \in Followed => (f \in fdset <=> Source(f))

(* Between the kernel's step and the callback of a call: what the kernel   *)
(* did to the descriptor, which the callback has yet to record.            *)
Between(c) ==
    /\ Opens(c) => c.ret \in Fd
    /\ Opens(c) /\ c.nr \in {"open", "openat"} => (Source(c.ret) <=> c.path = "input")
    /\ Opens(c) /\ c.nr \in {"dup", "dup2"} =>
          c.fd \in Fd /\ fds[c.fd] # 0 /\ fds[c.ret] = fds[c.fd] /\ Known(c.fd)
    /\ Opens(c) /\ c.nr = "dup2" => c.ret = c.new
    /\ Opens(c) /\ c.nr # "dup2" /\ c.ret \in Followed => c.ret \notin fdset
    /\ Closes(c) => c.fd \in Fd /\ fds[c.fd] = 0
FdInv ==
    ~odd =>
       /\ \A t \in Threads : pc[t] = "exit" => Between(ctx[t])
       /\ \A t, u \in Threads : t # u /\ pc[t] = "exit" /\ pc[u] = "exit" =>
             Core(ctx[t]) \cap Core(ctx[u]) \cap Fd = {}
       /\ \A f \in Fd : \/ Known(f)
                        \/ \E t \in Threads : pc[t] = "exit" /\ Alters(ctx[t], f)

-----------------------------------------------------------------------------
(* An address is its table, its page in the table and its offset.          *)

LEMMA DivMod ==
    ASSUME NEW a \in Nat, NEW d \in Nat \ {0}
    PROVE  a \div d \in Nat /\ a % d \in 0 .. d - 1 /\ a = d * (a \div d) + (a % d)
OBVIOUS

LEMMA NextRow ==
    ASSUME NEW d \in Nat \ {0}, NEW a \in Nat, NEW b \in Nat, a < b
    PROVE  d * a + d <= d * b
OBVIOUS

(* Dividing by a product is dividing twice. *)
LEMMA DivTwice ==
    ASSUME NEW a \in Nat, NEW d \in Nat \ {0}, NEW e \in Nat \ {0}
    PROVE  (a \div d) \div e = a \div (d * e)
PROOF
<1> DEFINE q == a \div d
           k == q \div e
           r == a % d
           s == q % e
<1>1. q \in Nat /\ r \in 0 .. d - 1 /\ a = d * q + r
  BY DivMod
<1> HIDE DEF q, r
<1>2. k \in Nat /\ s \in 0 .. e - 1 /\ q = e * k + s
  BY <1>1, DivMod
<1> HIDE DEF k, s
<1>3. d * e \in Nat \ {0} /\ d * s \in Nat /\ d * s + d <= d * e
  <2>1. d * e \in Nat \ {0}
    OBVIOUS
  <2>2. s \in Nat /\ s < e
    BY <1>2
  <2>3. d * s + d <= d * e /\ d * s \in Nat
    BY <2>2, NextRow
  <2> QED BY <2>1, <2>3
<1>4. d * s + r \in 0 .. d * e - 1
  BY <1>1, <1>3
<1>5. a = (d * e) * k + (d * s + r)
  BY <1>1, <1>2
<1> DEFINE m == d * e
           z == d * s + r
<1>6. m \in Nat \ {0} /\ z \in 0 .. m - 1 /\ a = m * k + z
  BY <1>3, <1>4, <1>5
<1> HIDE DEF m, z
<1>7. a \div m = k
  BY <1>2, <1>6
<1> QED BY <1>7 DEF k, q, m

LEMMA DivMono ==
    ASSUME NEW a \in Nat, NEW b \in Nat, NEW d \in Nat \ {0}, a <= b
    PROVE  a \div d <= b \div d
OBVIOUS

LEMMA Parts ==
    ASSUME NEW a \in Addr
    PROVE  VIRT2PAGETABLE(a) \in Entries /\ VIRT2PAGE(a) \in Slots /\ VIRT2OFFSET(a) \in Offsets
PROOF
<1>1. a \in Nat /\ a <= Limit /\ Limit \in Nat
  BY MapAssumption DEF Addr
<1>2. PAGE_SIZE \in Nat \ {0} /\ PAGETABLE_SZ \in Nat \ {0} /\ PAGE_SIZE * PAGETABLE_SZ \in Nat \ {0}
  BY MapAssumption
<1>3. a \div (PAGE_SIZE * PAGETABLE_SZ) \in 0 .. (Limit \div (PAGE_SIZE * PAGETABLE_SZ))
  <2> DEFINE m == PAGE_SIZE * PAGETABLE_SZ
  <2>1. m \in Nat \ {0}
    BY <1>2
  <2> HIDE DEF m
  <2>2. a \div m <= Limit \div m /\ a \div m \in Nat /\ Limit \div m \in Nat
    BY <1>1, <2>1, DivMono, DivMod
  <2> QED BY <2>2 DEF m
<1>4. (a \div PAGE_SIZE) % PAGETABLE_SZ \in 0 .. PAGETABLE_SZ - 1
  BY <1>1, <1>2, DivMod
<1>5. a % PAGE_SIZE \in 0 .. PAGE_SIZE - 1
  BY <1>1, <1>2, DivMod
<1> QED BY <1>3, <1>4, <1>5 DEF Entries, Slots, Offsets, VIRT2PAGETABLE, VIRT2PAGE, VIRT2OFFSET

(* No two addresses have the same table, page and offset. *)
LEMMA PartsUnique ==
    ASSUME NEW a \in Addr, NEW b \in Addr, VIRT2PAGETABLE(a) = VIRT2PAGETABLE(b),
           VIRT2PAGE(a) = VIRT2PAGE(b), VIRT2OFFSET(a) = VIRT2OFFSET(b)
    PROVE  a = b
PROOF
<1>1. a \in Nat /\ b \in Nat
  BY MapAssumption DEF Addr
<1>2. PAGE_SIZE \in Nat \ {0} /\ PAGETABLE_SZ \in Nat \ {0}
  BY MapAssumption
<1> DEFINE q == a \div PAGE_SIZE
           p == b \div PAGE_SIZE
<1>3. q \in Nat /\ p \in Nat /\ a = PAGE_SIZE * q + (a % PAGE_SIZE) /\ b = PAGE_SIZE * p + (b % PAGE_SIZE)
  BY <1>1, <1>2, DivMod
<1>4. q \div PAGETABLE_SZ = p \div PAGETABLE_SZ /\ q % PAGETABLE_SZ = p % PAGETABLE_SZ
  BY <1>1, <1>2, DivTwice DEF VIRT2PAGETABLE, VIRT2PAGE
<1> HIDE DEF p, q
<1>5. q = p
  <2>1. q = PAGETABLE_SZ * (q \div PAGETABLE_SZ) + (q % PAGETABLE_SZ)
    BY <1>2, <1>3, DivMod
  <2>2. p = PAGETABLE_SZ * (p \div PAGETABLE_SZ) + (p % PAGETABLE_SZ)
    BY <1>2, <1>3, DivMod
  <2> QED BY <1>4, <2>1, <2>2
<1> QED BY <1>3, <1>5 DEF VIRT2OFFSET

-----------------------------------------------------------------------------
(* The shadow memory.                                                      *)

(* What a step leaves to the other threads: their own variables, and every *)
(* pointer that is set, unless one has been overwritten.                   *)
Unmoved(u) ==
    /\ at'[u] = at[u] /\ todo'[u] = todo[u] /\ pc'[u] = pc[u]
    /\ table'[u] = table[u] /\ page'[u] = page[u]
Grown ==
    /\ Len(tables) <= Len(tables') /\ Len(pages) <= Len(pages')
    /\ ~lost' =>
         /\ ~lost
         /\ \A i \in Entries : dir[i] # 0 => dir'[i] = dir[i]
         /\ \A k \in 1 .. Len(tables), p \in Slots :
               tables[k][p] # 0 => tables'[k][p] = tables[k][p]

LEMMA Head1 ==
    ASSUME MapType, NEW t \in Threads, todo[t] # <<>>
    PROVE  /\ Byte(t) \in Addr /\ Tag(t) \in Int /\ Tail(todo[t]) \in Seq(Addr \X Int)
           /\ VIRT2PAGETABLE(Byte(t)) \in Entries /\ VIRT2PAGE(Byte(t)) \in Slots
           /\ VIRT2OFFSET(Byte(t)) \in Offsets
PROOF
<1>1. todo[t] \in Seq(Addr \X Int)
  BY DEF MapType
<1>2. todo[t][1] \in Addr \X Int /\ Tail(todo[t]) \in Seq(Addr \X Int)
  BY <1>1
<1>3. Byte(t) \in Addr /\ Tag(t) \in Int
  BY <1>2 DEF Byte, Tag
<1> QED BY <1>2, <1>3, Parts

LEMMA CursorKept ==
    ASSUME MapType, MapType', Pointers, NEW u \in Threads, Cursor(u), Unmoved(u), Grown
    PROVE  Cursor(u)'
PROOF
<1>1. Len(tables) \in Nat /\ Len(tables') \in Nat /\ Len(pages) \in Nat /\ Len(pages') \in Nat
  BY DEF MapType
<1>2. Byte(u)' = Byte(u)
  BY DEF Unmoved, Byte
<1>3. at'[u] # "table" => todo'[u] # <<>> /\ pc'[u] = "tags"
  BY DEF Cursor, Unmoved
<1>4. ASSUME at'[u] \in {"page", "newpage", "write"}
      PROVE  /\ table'[u] \in 1 .. Len(tables')
             /\ ~lost' => dir'[VIRT2PAGETABLE(Byte(u)')] = table'[u]
  <2>1. table[u] \in 1 .. Len(tables) /\ (~lost => dir[VIRT2PAGETABLE(Byte(u))] = table[u])
    BY <1>4 DEF Cursor, Unmoved
  <2>2. VIRT2PAGETABLE(Byte(u)) \in Entries
    BY <1>4, Head1 DEF Cursor, Unmoved
  <2> QED BY <1>1, <1>2, <2>1, <2>2 DEF Unmoved, Grown
<1>5. ASSUME at'[u] = "write"
      PROVE  /\ page'[u] \in 1 .. Len(pages')
             /\ ~lost' => tables'[table'[u]][VIRT2PAGE(Byte(u)')] = page'[u]
  <2>1. /\ page[u] \in 1 .. Len(pages) /\ table[u] \in 1 .. Len(tables)
        /\ ~lost => tables[table[u]][VIRT2PAGE(Byte(u))] = page[u]
    BY <1>5 DEF Cursor, Unmoved
  <2>2. VIRT2PAGE(Byte(u)) \in Slots
    BY <1>5, Head1 DEF Cursor, Unmoved
  <2> QED BY <1>1, <1>2, <2>1, <2>2, SMTT(60) DEF Unmoved, Grown
<1> QED BY <1>3, <1>4, <1>5 DEF Cursor

(* The tag of a byte in terms of its table and page. *)
LEMMA Get ==
    ASSUME NEW a
    PROVE  /\ dir[VIRT2PAGETABLE(a)] = 0 => tagmap_getb(a) = None
           /\ dir[VIRT2PAGETABLE(a)] # 0 /\ tables[dir[VIRT2PAGETABLE(a)]][VIRT2PAGE(a)] = 0 =>
                 tagmap_getb(a) = None
           /\ dir[VIRT2PAGETABLE(a)] # 0 /\ tables[dir[VIRT2PAGETABLE(a)]][VIRT2PAGE(a)] # 0 =>
                 tagmap_getb(a) =
                    pages[tables[dir[VIRT2PAGETABLE(a)]][VIRT2PAGE(a)]][VIRT2OFFSET(a)]
BY DEF tagmap_getb

LEMMA GetNext ==
    ASSUME NEW a
    PROVE  /\ dir'[VIRT2PAGETABLE(a)] = 0 => tagmap_getb(a)' = None
           /\ dir'[VIRT2PAGETABLE(a)] # 0 /\ tables'[dir'[VIRT2PAGETABLE(a)]][VIRT2PAGE(a)] = 0 =>
                 tagmap_getb(a)' = None
           /\ dir'[VIRT2PAGETABLE(a)] # 0 /\ tables'[dir'[VIRT2PAGETABLE(a)]][VIRT2PAGE(a)] # 0 =>
                 tagmap_getb(a)' =
                    pages'[tables'[dir'[VIRT2PAGETABLE(a)]][VIRT2PAGE(a)]][VIRT2OFFSET(a)]
BY DEF tagmap_getb

(* The map invariants but for the other components. *)
Sound == MapType /\ Pointers /\ (\A t \in Threads : Cursor(t)) /\ FlatMap

LEMMA DoneType ==
    ASSUME MapType, NEW t \in Threads, todo[t] # <<>>, Done(t)
    PROVE  /\ todo' \in [Threads -> Seq(Addr \X Int)] /\ flat' \in [Addr -> Int]
           /\ at' \in [Threads -> Places]
           /\ table' \in [Threads -> Nat] /\ page' \in [Threads -> Nat]
           /\ Cursor(t)'
           /\ \A a \in Addr : flat'[a] = IF a = Byte(t) THEN Tag(t) ELSE flat[a]
           /\ \A u \in Threads \ {t} :
                 /\ at'[u] = at[u] /\ todo'[u] = todo[u]
                 /\ table'[u] = table[u] /\ page'[u] = page[u]
PROOF
<1>1. Byte(t) \in Addr /\ Tag(t) \in Int /\ Tail(todo[t]) \in Seq(Addr \X Int)
  BY Head1
<1>2. todo' \in [Threads -> Seq(Addr \X Int)]
  BY <1>1 DEF MapType, Done
<1>3. flat' \in [Addr -> Int] /\ \A a \in Addr : flat'[a] = IF a = Byte(t) THEN Tag(t) ELSE flat[a]
  BY <1>1 DEF MapType, Done
<1>4. /\ at' \in [Threads -> Places] /\ at'[t] = "table"
      /\ table' \in [Threads -> Nat] /\ page' \in [Threads -> Nat]
  BY DEF MapType, Done, Places
<1>5. Cursor(t)'
  BY <1>4 DEF Cursor
<1>6. \A u \in Threads \ {t} : /\ at'[u] = at[u] /\ todo'[u] = todo[u]
                              /\ table'[u] = table[u] /\ page'[u] = page[u]
  BY DEF MapType, Done
<1> QED BY <1>2, <1>3, <1>4, <1>5, <1>6

LEMMA GoToType ==
    ASSUME MapType, NEW t \in Threads, NEW l \in Places, GoTo(t, l)
    PROVE  /\ todo' = todo /\ flat' = flat
           /\ at' \in [Threads -> Places] /\ at'[t] = l
           /\ \A u \in Threads \ {t} : at'[u] = at[u]
BY DEF MapType, GoTo

(* The test that finds a table or page missing writes no empty tag. *)
LEMMA TestTableKeeps ==
    ASSUME Sound, NEW t \in Threads, todo[t] # <<>>, pc[t] = "tags", TestTable(t),
           \A u \in Threads \ {t} : pc'[u] = pc[u],
           todo'[t] # <<>> => pc'[t] = "tags"
    PROVE  Sound'
PROOF
<1> DEFINE i == VIRT2PAGETABLE(Byte(t))
<1>1. MapType /\ Pointers /\ Cursor(t)
  BY DEF Sound
<1>2. Byte(t) \in Addr /\ Tag(t) \in Int /\ Tail(todo[t]) \in Seq(Addr \X Int) /\ i \in Entries
  BY <1>1, Head1
<1>3. dir' = dir /\ tables' = tables /\ pages' = pages /\ lost' = lost
  BY DEF TestTable
<1>4. MapType'
  <2>1. dir[i] \in Nat
    BY <1>1, <1>2 DEF MapType
  <2>2. CASE Done(t)
    BY <1>1, <1>3, <2>2, DoneType DEF MapType
  <2>3. CASE GoTo(t, "newtable") /\ UNCHANGED <<table, page>>
    <3>1. "newtable" \in Places
      BY DEF Places
    <3> QED BY <1>1, <1>3, <2>3, <3>1, GoToType DEF MapType
  <2>4. CASE GoTo(t, "page") /\ table' = [table EXCEPT ![t] = dir[i]] /\ UNCHANGED page
    <3>1. "page" \in Places
      BY DEF Places
    <3> QED BY <1>1, <1>3, <2>1, <2>4, <3>1, GoToType DEF MapType
  <2> QED BY <2>2, <2>3, <2>4 DEF TestTable
<1>5. Pointers'
  BY <1>1, <1>3 DEF Pointers
<1>6. \A a : tagmap_getb(a)' = tagmap_getb(a)
  BY <1>3 DEF tagmap_getb
<1>7. \A u \in Threads \ {t} : Cursor(u)'
  <2>1. Grown
    BY <1>1, <1>3 DEF Grown, MapType
  <2>2. \A u \in Threads \ {t} : Unmoved(u)
    BY <1>1 DEF Unmoved, TestTable, Done, GoTo, MapType
  <2> QED BY <1>1, <1>4, <2>1, <2>2, CursorKept DEF Sound
<1>8. CASE dir[i] = 0 /\ Tag(t) = None
  <2>1. Done(t)
    BY <1>8 DEF TestTable
  <2>2. Cursor(t)'
    BY <1>1, <2>1 DEF Cursor, Done, MapType
  <2>3. FlatMap'
    <3> SUFFICES ASSUME ~lost, NEW a \in Addr PROVE tagmap_getb(a) = flat'[a]
      BY <1>3, <1>6 DEF FlatMap
    <3>1. tagmap_getb(a) = flat[a]
      BY DEF Sound, FlatMap
    <3>2. a = Byte(t) => tagmap_getb(a) = Tag(t)
      BY <1>8, Get
    <3> QED BY <1>1, <2>1, <3>1, <3>2 DEF Done, MapType
  <2> QED BY <1>4, <1>5, <1>7, <2>2, <2>3 DEF Sound
<1>9. CASE ~(dir[i] = 0 /\ Tag(t) = None)
  <2>1. todo' = todo /\ flat' = flat /\ page' = page
    BY <1>9 DEF TestTable, GoTo
  <2>2. \/ at' = [at EXCEPT ![t] = "newtable"]
        \/ /\ dir[i] # 0 /\ table' = [table EXCEPT ![t] = dir[i]]
           /\ at' = [at EXCEPT ![t] = "page"]
    BY <1>9 DEF TestTable, GoTo
  <2>3. dir[i] # 0 => dir[i] \in 1 .. Len(tables)
    BY <1>1, <1>2 DEF Pointers, MapType
  <2>4. Cursor(t)'
    BY <1>1, <1>3, <2>1, <2>2, <2>3 DEF Cursor, MapType, Byte
  <2>5. FlatMap'
    BY <1>3, <1>6, <2>1 DEF Sound, FlatMap
  <2> QED BY <1>4, <1>5, <1>7, <2>4, <2>5 DEF Sound
<1> QED BY <1>8, <1>9

LEMMA TestPageKeeps ==
    ASSUME Sound, NEW t \in Threads, todo[t] # <<>>, pc[t] = "tags", TestPage(t),
           \A u \in Threads \ {t} : pc'[u] = pc[u],
           todo'[t] # <<>> => pc'[t] = "tags"
    PROVE  Sound'
PROOF
<1> DEFINE i == VIRT2PAGETABLE(Byte(t))
           pg == tables[table[t]][VIRT2PAGE(Byte(t))]
<1>1. MapType /\ Pointers /\ Cursor(t)
  BY DEF Sound
<1>2. Byte(t) \in Addr /\ Tag(t) \in Int /\ i \in Entries /\ VIRT2PAGE(Byte(t)) \in Slots
  BY <1>1, Head1
<1>3. dir' = dir /\ tables' = tables /\ pages' = pages /\ lost' = lost /\ at[t] = "page"
  BY DEF TestPage
<1>4. /\ table[t] \in 1 .. Len(tables) /\ (~lost => dir[i] = table[t])
      /\ pg \in Nat /\ pg <= Len(pages)
  <2>1. table[t] \in 1 .. Len(tables) /\ (~lost => dir[i] = table[t])
    BY <1>1, <1>3 DEF Cursor
  <2>2. tables[table[t]] \in [Slots -> Nat]
    BY <1>1, <2>1, SMTT(60) DEF MapType
  <2> QED BY <1>1, <1>2, <2>1, <2>2 DEF Pointers
<1> HIDE DEF pg
<1>5. \/ pg = 0 /\ Tag(t) = None /\ Done(t)
      \/ GoTo(t, "newpage") /\ UNCHANGED <<table, page>>
      \/ pg # 0 /\ GoTo(t, "write") /\ page' = [page EXCEPT ![t] = pg] /\ UNCHANGED table
  BY DEF TestPage, pg
<1>6. "newpage" \in Places /\ "write" \in Places
  BY DEF Places
<1>7. MapType'
  <2>1. CASE Done(t)
    BY <1>1, <1>3, <2>1, DoneType DEF MapType
  <2>2. CASE GoTo(t, "newpage") /\ UNCHANGED <<table, page>>
    BY <1>1, <1>3, <1>6, <2>2, GoToType DEF MapType
  <2>3. CASE GoTo(t, "write") /\ page' = [page EXCEPT ![t] = pg] /\ UNCHANGED table
    BY <1>1, <1>3, <1>4, <1>6, <2>3, GoToType DEF MapType
  <2> QED BY <1>5, <2>1, <2>2, <2>3
<1>8. Pointers'
  BY <1>1, <1>3 DEF Pointers
<1>9. \A a : tagmap_getb(a)' = tagmap_getb(a)
  BY <1>3 DEF tagmap_getb
<1>10. \A u \in Threads \ {t} : Cursor(u)'
  <2>1. Grown
    BY <1>1, <1>3 DEF Grown, MapType
  <2>2. \A u \in Threads \ {t} : Unmoved(u)
    BY <1>1, <1>5 DEF Unmoved, Done, GoTo, MapType
  <2> QED BY <1>1, <1>7, <2>1, <2>2, CursorKept DEF Sound
<1>11. CASE pg = 0 /\ Tag(t) = None /\ Done(t)
  <2>1. FlatMap'
    <3> SUFFICES ASSUME ~lost, NEW a \in Addr PROVE tagmap_getb(a) = flat'[a]
      BY <1>3, <1>9 DEF FlatMap
    <3>1. tagmap_getb(a) = flat[a]
      BY DEF Sound, FlatMap
    <3>2. dir[i] # 0 /\ dir[i] = table[t]
      BY <1>4
    <3>3. a = Byte(t) => tagmap_getb(a) = Tag(t)
      BY <1>11, <3>2, Get DEF pg
    <3> QED BY <1>1, <1>11, <3>1, <3>3, DoneType
  <2> QED BY <1>1, <1>7, <1>8, <1>10, <1>11, <2>1, DoneType DEF Sound
<1>12. CASE \/ GoTo(t, "newpage") /\ UNCHANGED <<table, page>>
            \/ pg # 0 /\ GoTo(t, "write") /\ page' = [page EXCEPT ![t] = pg] /\ UNCHANGED table
  <2>1. todo' = todo /\ flat' = flat /\ table' = table
    BY <1>12 DEF GoTo
  <2>2. \/ at'[t] = "newpage"
        \/ pg # 0 /\ at'[t] = "write" /\ page'[t] = pg
    BY <1>1, <1>12 DEF GoTo, MapType
  <2>3. pg # 0 => pg \in 1 .. Len(pages)
    BY <1>1, <1>4 DEF MapType
  <2>4. Cursor(t)'
    BY <1>1, <1>3, <1>4, <2>1, <2>2, <2>3 DEF Cursor, Byte, pg
  <2>5. FlatMap'
    BY <1>3, <1>9, <2>1 DEF Sound, FlatMap
  <2> QED BY <1>7, <1>8, <1>10, <2>4, <2>5 DEF Sound
<1> QED BY <1>5, <1>11, <1>12

(* A new table has no pages, and nobody else has it. *)
LEMMA InstallTableKeeps ==
    ASSUME Sound, NEW t \in Threads, todo[t] # <<>>, pc[t] = "tags", InstallTable(t),
           \A u \in Threads \ {t} : pc'[u] = pc[u],
           todo'[t] # <<>> => pc'[t] = "tags"
    PROVE  Sound'
PROOF
<1> DEFINE i == VIRT2PAGETABLE(Byte(t))
           new == [p \in Slots |-> 0]
           n == Len(tables) + 1
<1>1. MapType /\ Pointers /\ Cursor(t)
  BY DEF Sound
<1>2. i \in Entries
  BY <1>1, Head1
<1>3. /\ tables' = Append(tables, new) /\ dir' = [dir EXCEPT ![i] = n]
      /\ lost' = (lost \/ dir[i] # 0) /\ GoTo(t, "table")
      /\ pages' = pages /\ table' = table /\ page' = page
  BY DEF InstallTable, Slots
<1>4. /\ todo' = todo /\ flat' = flat /\ at' \in [Threads -> Places] /\ at'[t] = "table"
      /\ \A u \in Threads \ {t} : at'[u] = at[u]
  <2>1. "table" \in Places
    BY DEF Places
  <2> QED BY <1>1, <1>3, <2>1, GoToType
<1>5. /\ new \in [Slots -> Nat] /\ \A p \in Slots : new[p] = 0
  OBVIOUS
<1> HIDE DEF new
<1>6. /\ Len(tables) \in Nat /\ n \in Nat /\ n = Len(tables) + 1 /\ n # 0 /\ tables \in Seq([Slots -> Nat])
      /\ tables' \in Seq([Slots -> Nat]) /\ Len(tables') = n
      /\ \A k \in 1 .. Len(tables) : tables'[k] = tables[k]
      /\ tables'[n] = new
  BY <1>1, <1>3, <1>5, SMTT(60) DEF MapType
<1>7. /\ dir' \in [Entries -> Nat] /\ dir'[i] = n
      /\ \A j \in Entries : j # i => dir'[j] = dir[j]
  BY <1>1, <1>2, <1>3, <1>6 DEF MapType
<1> HIDE DEF i, n
<1>8. /\ lost' \in BOOLEAN /\ (~lost' => ~lost /\ dir[i] = 0)
  BY <1>3
<1>9. MapType'
  BY <1>1, <1>3, <1>4, <1>6, <1>7, <1>8 DEF MapType
<1>10. /\ \A j \in Entries : dir[j] \in Nat /\ dir[j] < n
       /\ \A k \in 1 .. n : k # n => k \in 1 .. Len(tables)
  BY <1>1, <1>6, SMTT(60) DEF Pointers, MapType
<1>11. Pointers'
  <2>1. \A j \in Entries : dir'[j] <= Len(tables')
    <3>1. \A j \in Entries : dir'[j] <= n
      BY <1>6, <1>7, <1>10, SMTT(60)
    <3> QED BY <1>6, <3>1
  <2>2. \A k \in 1 .. Len(tables'), p \in Slots : tables'[k][p] <= Len(pages')
    <3>1. Len(pages) \in Nat
      BY <1>1 DEF MapType
    <3> QED BY <1>1, <1>3, <1>5, <1>6, <1>10, <3>1 DEF Pointers
  <2>3. \A j, k \in Entries : dir'[j] # 0 /\ dir'[j] = dir'[k] => j = k
    BY <1>1, <1>7, <1>10 DEF Pointers
  <2>4. \A k, l \in 1 .. Len(tables'), p, q \in Slots :
           tables'[k][p] # 0 /\ tables'[k][p] = tables'[l][q] => k = l /\ p = q
    <3> SUFFICES ASSUME NEW k \in 1 .. n, NEW l \in 1 .. n, NEW p \in Slots, NEW q \in Slots,
                        tables'[k][p] # 0, tables'[k][p] = tables'[l][q]
                 PROVE  k = l /\ p = q
      BY <1>6
    <3>1. k # n /\ l # n
      BY <1>5, <1>6
    <3>2. k \in 1 .. Len(tables) /\ l \in 1 .. Len(tables)
      BY <1>10, <3>1
    <3>3. tables'[k] = tables[k] /\ tables'[l] = tables[l]
      BY <1>6, <3>2
    <3> QED BY <1>1, <3>2, <3>3 DEF Pointers
  <2> QED BY <2>1, <2>2, <2>3, <2>4 DEF Pointers
<1>12. Cursor(t)'
  BY <1>4 DEF Cursor
<1>13. \A u \in Threads \ {t} : Cursor(u)'
  <2>1. Grown
    <3>1. Len(tables) <= Len(tables') /\ Len(pages) <= Len(pages')
      BY <1>1, <1>3, <1>6 DEF MapType
    <3> QED BY <1>6, <1>7, <1>8, <3>1 DEF Grown
  <2>2. \A u \in Threads \ {t} : Unmoved(u)
    BY <1>3, <1>4 DEF Unmoved
  <2> QED BY <1>1, <1>9, <2>1, <2>2, CursorKept DEF Sound
<1>14. FlatMap'
  <2> SUFFICES ASSUME ~lost', NEW a \in Addr PROVE tagmap_getb(a)' = flat[a]
    BY <1>4 DEF FlatMap
  <2>1. tagmap_getb(a) = flat[a] /\ dir[i] = 0
    BY <1>8 DEF Sound, FlatMap
  <2>2. VIRT2PAGETABLE(a) \in Entries /\ VIRT2PAGE(a) \in Slots
    BY Parts
  <2>3. CASE VIRT2PAGETABLE(a) = i
    <3>1. tagmap_getb(a) = None
      BY <2>1, <2>3, Get
    <3>2. dir'[VIRT2PAGETABLE(a)] = n /\ tables'[n][VIRT2PAGE(a)] = 0
      BY <1>5, <1>6, <1>7, <2>2, <2>3
    <3>3. tagmap_getb(a)' = None
      BY <1>6, <3>2, GetNext
    <3> QED BY <2>1, <3>1, <3>3
  <2>4. CASE VIRT2PAGETABLE(a) # i
    <3>1. dir'[VIRT2PAGETABLE(a)] = dir[VIRT2PAGETABLE(a)]
      BY <1>7, <2>2, <2>4
    <3> DEFINE d == dir[VIRT2PAGETABLE(a)]
    <3>2. d # 0 => tables'[d] = tables[d]
      <4>1. d \in Nat /\ d < n
        BY <1>10, <2>2
      <4> HIDE DEF d
      <4>2. d # 0 => d \in 1 .. Len(tables)
        BY <1>6, <4>1
      <4> QED BY <1>6, <4>2
    <3>3. tagmap_getb(a)' = tagmap_getb(a)
      <4>1. dir'[VIRT2PAGETABLE(a)] = d
        BY <3>1
      <4>2. pages' = pages
        BY <1>3
      <4> QED BY <3>2, <4>1, <4>2, Get, GetNext, ZenonT(60)
    <3> QED BY <2>1, <3>3
  <2> QED BY <2>3, <2>4
<1> QED BY <1>9, <1>11, <1>12, <1>13, <1>14 DEF Sound

(* An element of an element of a sequence of functions is replaced. *)
Put(r, s, k, i, x) == r = [s EXCEPT ![k][i] = x]
PutAt(r, s, k, i, x, D, R) ==
    /\ r \in Seq([D -> R]) /\ Len(r) = Len(s)
    /\ \A l \in 1 .. Len(s), j \in D : r[l][j] = IF l = k /\ j = i THEN x ELSE s[l][j]
LEMMA Replaced ==
    ASSUME NEW D, NEW R, NEW s \in Seq([D -> R]), NEW k \in 1 .. Len(s), NEW i \in D, NEW x \in R,
           NEW r, Put(r, s, k, i, x)
    PROVE  PutAt(r, s, k, i, x, D, R)
PROOF
<1> DEFINE e == [s[k] EXCEPT ![i] = x]
<1>1. s[k] \in [D -> R]
  OBVIOUS
<1>2. e \in [D -> R] /\ e[i] = x /\ \A j \in D : j # i => e[j] = s[k][j]
  BY <1>1
<1>3. r = [s EXCEPT ![k] = e]
  BY DEF Put
<1> HIDE DEF e
<1>4. r \in Seq([D -> R]) /\ Len(r) = Len(s) /\ r[k] = e /\ \A l \in 1 .. Len(s) : l # k => r[l] = s[l]
  BY <1>2, <1>3
<1> QED BY <1>2, <1>4 DEF PutAt

(* A new page has no tags, and nobody else has it. *)
LEMMA InstallPageKeeps ==
    ASSUME Sound, NEW t \in Threads, todo[t] # <<>>, pc[t] = "tags", InstallPage(t),
           \A u \in Threads \ {t} : pc'[u] = pc[u],
           todo'[t] # <<>> => pc'[t] = "tags"
    PROVE  Sound'
PROOF
<1> DEFINE i == VIRT2PAGE(Byte(t))
           tb == table[t]
           new == [o \in Offsets |-> None]
           n == Len(pages) + 1
<1>1. MapType /\ Pointers /\ Cursor(t)
  BY DEF Sound
<1>2. i \in Slots
  BY <1>1, Head1
<1>3. /\ pages' = Append(pages, new) /\ tables' = [tables EXCEPT ![tb][i] = n]
      /\ lost' = (lost \/ tables[tb][i] # 0) /\ GoTo(t, "page")
      /\ dir' = dir /\ table' = table /\ page' = page /\ at[t] = "newpage"
  BY DEF InstallPage, Offsets
<1>4. /\ todo' = todo /\ flat' = flat /\ at' \in [Threads -> Places] /\ at'[t] = "page"
      /\ \A u \in Threads \ {t} : at'[u] = at[u]
  <2>1. "page" \in Places
    BY DEF Places
  <2> QED BY <1>1, <1>3, <2>1, GoToType
<1>5. tb \in 1 .. Len(tables) /\ (~lost => dir[VIRT2PAGETABLE(Byte(t))] = tb)
  BY <1>1, <1>3 DEF Cursor
<1>6. new \in [Offsets -> Int] /\ \A o \in Offsets : new[o] = None
  BY DEF None
<1> HIDE DEF new
<1>7. /\ Len(pages) \in Nat /\ n \in Nat /\ n = Len(pages) + 1 /\ n # 0
      /\ pages' \in Seq([Offsets -> Int]) /\ Len(pages') = n
      /\ \A k \in 1 .. Len(pages) : pages'[k] = pages[k]
      /\ pages'[n] = new
  BY <1>1, <1>3, <1>6 DEF MapType
<1>8. /\ tables \in Seq([Slots -> Nat]) /\ tables' \in Seq([Slots -> Nat])
      /\ Len(tables') = Len(tables)
      /\ \A l \in 1 .. Len(tables), j \in Slots :
            tables'[l][j] = IF l = tb /\ j = i THEN n ELSE tables[l][j]
  <2>1. tables \in Seq([Slots -> Nat])
    BY <1>1 DEF MapType
  <2>2. Put(tables', tables, tb, i, n) /\ tb \in 1 .. Len(tables) /\ i \in Slots /\ n \in Nat
    BY <1>2, <1>3, <1>5, <1>7 DEF Put
  <2> HIDE DEF i, tb, n
  <2>3. PutAt(tables', tables, tb, i, n, Slots, Nat)
    BY <2>1, <2>2, Replaced
  <2> QED BY <2>1, <2>3 DEF PutAt
<1> HIDE DEF i, tb, n
<1>9. /\ lost' \in BOOLEAN /\ (~lost' => ~lost /\ tables[tb][i] = 0)
  BY <1>3
<1> DEFINE T == 1 .. Len(tables)
<1>16. /\ \A l \in T, j \in Slots :
             tables'[l][j] = IF l = tb /\ j = i THEN n ELSE tables[l][j]
       /\ tb \in T /\ i \in Slots
  BY <1>2, <1>5, <1>8
<1> HIDE DEF T
<1>10. MapType'
  BY <1>1, <1>3, <1>4, <1>7, <1>8, <1>9 DEF MapType
<1>11. \A k \in T, p \in Slots : tables[k][p] \in Nat /\ tables[k][p] < n
  <2>1. \A k \in T : tables[k] \in [Slots -> Nat]
    BY <1>8 DEF T
  <2> QED BY <1>1, <1>7, <2>1 DEF Pointers, T
<1>12. Pointers'
  <2>1. \A j \in Entries : dir'[j] <= Len(tables')
    BY <1>1, <1>3, <1>8 DEF Pointers
  <2>2. \A k \in 1 .. Len(tables'), p \in Slots : tables'[k][p] <= Len(pages')
    <3> SUFFICES ASSUME NEW k \in T, NEW p \in Slots PROVE tables'[k][p] <= n
      BY <1>7, <1>8 DEF T
    <3>1. n <= n
      BY <1>7
    <3>2. tables[k][p] <= n
      BY <1>7, <1>11
    <3> QED BY <1>16, <3>1, <3>2
  <2>3. \A j, k \in Entries : dir'[j] # 0 /\ dir'[j] = dir'[k] => j = k
    BY <1>1, <1>3 DEF Pointers
  <2>4. \A k, l \in 1 .. Len(tables'), p, q \in Slots :
           tables'[k][p] # 0 /\ tables'[k][p] = tables'[l][q] => k = l /\ p = q
    <3> SUFFICES ASSUME NEW k \in 1 .. Len(tables'), NEW l \in 1 .. Len(tables'),
                        NEW p \in Slots, NEW q \in Slots,
                        tables'[k][p] # 0, tables'[k][p] = tables'[l][q]
                 PROVE  k = l /\ p = q
      OBVIOUS
    <3>1. k \in T /\ l \in T
      BY <1>8 DEF T
    <3>2. \A y \in T, v \in Slots, z \in T, w \in Slots :
             tables[y][v] # 0 /\ tables[y][v] = tables[z][w] => y = z /\ v = w
      BY <1>1, SMTT(60) DEF Pointers, T
    <3>3. tables[k][p] # n /\ tables[l][q] # n
      BY <1>7, <1>11, <3>1
    <3>4. CASE k = tb /\ p = i
      <4>1. tables'[l][q] = n
        BY <1>16, <3>4
      <4> QED BY <1>16, <3>1, <3>3, <3>4, <4>1
    <3>5. CASE ~(k = tb /\ p = i)
      <4>1. tables'[k][p] = tables[k][p]
        BY <1>16, <3>1, <3>5
      <4>2. tables'[l][q] = tables[l][q]
        BY <1>16, <3>1, <3>3, <4>1
      <4>3. tables[k][p] # 0 /\ tables[k][p] = tables[l][q]
        BY <4>1, <4>2
      <4> QED BY <3>1, <3>2, <4>3
    <3> QED BY <3>4, <3>5
  <2> QED BY <2>1, <2>2, <2>3, <2>4 DEF Pointers
<1>13. Cursor(t)'
  <2>1. Byte(t)' = Byte(t)
    BY <1>4 DEF Byte
  <2>2. pc'[t] = "tags" /\ todo'[t] # <<>>
    BY <1>4
  <2> QED BY <1>3, <1>4, <1>5, <1>8, <1>9, <2>1, <2>2 DEF Cursor, tb
<1>14. \A u \in Threads \ {t} : Cursor(u)'
  <2>1. Grown
    <3>1. Len(tables) <= Len(tables') /\ Len(pages) <= Len(pages')
      BY <1>7, <1>8
    <3> QED BY <1>3, <1>8, <1>9, <3>1 DEF Grown
  <2>2. \A u \in Threads \ {t} : Unmoved(u)
    BY <1>3, <1>4 DEF Unmoved
  <2> QED BY <1>1, <1>10, <2>1, <2>2, CursorKept DEF Sound
<1>15. FlatMap'
  <2> SUFFICES ASSUME ~lost', NEW a \in Addr PROVE tagmap_getb(a)' = flat[a]
    BY <1>4 DEF FlatMap
  <2> DEFINE d == dir[VIRT2PAGETABLE(a)]
             w == VIRT2PAGE(a)
  <2>1. tagmap_getb(a) = flat[a] /\ tables[tb][i] = 0
    BY <1>9 DEF Sound, FlatMap
  <2>2. VIRT2PAGETABLE(a) \in Entries /\ w \in Slots /\ VIRT2OFFSET(a) \in Offsets
    BY Parts
  <2>3. dir'[VIRT2PAGETABLE(a)] = d /\ (d # 0 => d \in 1 .. Len(tables))
    BY <1>1, <1>3, <2>2 DEF Pointers, MapType
  <2>7. d # 0 => d \in T
    BY <2>3 DEF T
  <2>4. CASE d = 0
    BY <2>1, <2>3, <2>4, Get, GetNext, Zenon
  <2>5. CASE d # 0 /\ d = tb /\ w = i
    <3>1. tagmap_getb(a) = None
      BY <2>1, <2>5, Get
    <3>2. tables'[d][w] = n
      BY <1>16, <2>5
    <3>3. tagmap_getb(a)' = pages'[n][VIRT2OFFSET(a)]
      BY <1>7, <2>3, <2>5, <3>2, GetNext, Zenon
    <3>4. pages'[n][VIRT2OFFSET(a)] = None
      BY <1>6, <1>7, <2>2
    <3> QED BY <2>1, <3>1, <3>3, <3>4
  <2>6. CASE d # 0 /\ ~(d = tb /\ w = i)
    <3>1. tables'[d][w] = tables[d][w]
      BY <1>16, <2>2, <2>6, <2>7
    <3>2. tables[d][w] # 0 => tables[d][w] \in 1 .. Len(pages)
      <4>1. tables[d][w] \in Nat /\ tables[d][w] < n
        BY <1>11, <2>2, <2>6, <2>7
      <4> HIDE DEF d, w
      <4> QED BY <1>7, <4>1
    <3>3. tables[d][w] # 0 => pages'[tables[d][w]] = pages[tables[d][w]]
      BY <1>7, <3>2
    <3>4. tagmap_getb(a)' = tagmap_getb(a)
      <4>1. CASE tables[d][w] = 0
        BY <2>3, <2>6, <3>1, <4>1, Get, GetNext, Zenon
      <4>2. CASE tables[d][w] # 0
        <5>1. tagmap_getb(a) = pages[tables[d][w]][VIRT2OFFSET(a)]
          BY <2>6, <4>2, Get, Zenon
        <5>2. tagmap_getb(a)' = pages'[tables[d][w]][VIRT2OFFSET(a)]
          BY <2>3, <2>6, <3>1, <4>2, GetNext, Zenon
        <5> QED BY <3>3, <4>2, <5>1, <5>2, Zenon
      <4> QED BY <4>1, <4>2
    <3> QED BY <2>1, <3>4
  <2> QED BY <2>4, <2>5, <2>6
<1> QED BY <1>10, <1>12, <1>13, <1>14, <1>15 DEF Sound

(* The tag is written to a page that no other address shares. *)
LEMMA WriteTagKeeps ==
    ASSUME Sound, NEW t \in Threads, todo[t] # <<>>, pc[t] = "tags", WriteTag(t),
           \A u \in Threads \ {t} : pc'[u] = pc[u],
           todo'[t] # <<>> => pc'[t] = "tags"
    PROVE  Sound'
PROOF
<1> DEFINE x == Byte(t)
           pg == page[t]
           o == VIRT2OFFSET(x)
<1>1. MapType /\ Pointers /\ Cursor(t)
  BY DEF Sound
<1>2. /\ x \in Addr /\ Tag(t) \in Int /\ VIRT2PAGETABLE(x) \in Entries /\ VIRT2PAGE(x) \in Slots
      /\ o \in Offsets
  BY <1>1, Head1
<1>3. /\ pages' = [pages EXCEPT ![pg][o] = Tag(t)] /\ Done(t)
      /\ dir' = dir /\ tables' = tables /\ lost' = lost /\ at[t] = "write"
  BY DEF WriteTag
<1>4. /\ pg \in 1 .. Len(pages) /\ table[t] \in 1 .. Len(tables)
      /\ ~lost => /\ dir[VIRT2PAGETABLE(x)] = table[t]
                  /\ tables[table[t]][VIRT2PAGE(x)] = pg
  BY <1>1, <1>3 DEF Cursor
<1>5. /\ pages' \in Seq([Offsets -> Int]) /\ Len(pages') = Len(pages)
      /\ \A l \in 1 .. Len(pages), j \in Offsets :
            pages'[l][j] = IF l = pg /\ j = o THEN Tag(t) ELSE pages[l][j]
  <2>1. pages \in Seq([Offsets -> Int])
    BY <1>1 DEF MapType
  <2>2. /\ Put(pages', pages, pg, o, Tag(t)) /\ pg \in 1 .. Len(pages)
        /\ o \in Offsets /\ Tag(t) \in Int
    BY <1>2, <1>3, <1>4 DEF Put
  <2> HIDE DEF x, pg, o
  <2>3. PutAt(pages', pages, pg, o, Tag(t), Offsets, Int)
    BY <2>1, <2>2, Replaced
  <2> QED BY <2>1, <2>3 DEF PutAt
<1> HIDE DEF pg, o
<1>6. MapType'
  <2>1. /\ todo' \in [Threads -> Seq(Addr \X Int)] /\ flat' \in [Addr -> Int]
        /\ at' \in [Threads -> Places]
        /\ table' \in [Threads -> Nat] /\ page' \in [Threads -> Nat]
    BY <1>1, <1>3, DoneType
  <2> QED BY <1>1, <1>3, <1>5, <2>1 DEF MapType
<1>7. Pointers'
  BY <1>1, <1>3, <1>5 DEF Pointers
<1>8. \A u \in Threads \ {t} : Cursor(u)'
  <2>1. Grown
    BY <1>1, <1>3, <1>5 DEF Grown, MapType
  <2>2. \A u \in Threads \ {t} : Unmoved(u)
    BY <1>1, <1>3, DoneType DEF Unmoved
  <2> QED BY <1>1, <1>6, <2>1, <2>2, CursorKept DEF Sound
<1>9. FlatMap'
  <2> SUFFICES ASSUME ~lost, NEW a \in Addr PROVE tagmap_getb(a)' = flat'[a]
    BY <1>3 DEF FlatMap
  <2> DEFINE d == dir[VIRT2PAGETABLE(a)]
             w == VIRT2PAGE(a)
             z == VIRT2OFFSET(a)
  <2>1. /\ tagmap_getb(a) = flat[a] /\ dir[VIRT2PAGETABLE(x)] = table[t]
        /\ tables[table[t]][VIRT2PAGE(x)] = pg /\ pg # 0 /\ table[t] # 0
    BY <1>4 DEF Sound, FlatMap
  <2>2. VIRT2PAGETABLE(a) \in Entries /\ w \in Slots /\ z \in Offsets
    BY Parts
  <2>3. flat'[a] = IF a = x THEN Tag(t) ELSE flat[a]
    BY <1>1, <1>3, DoneType
  <2>4. CASE a = x
    <3>1. dir'[VIRT2PAGETABLE(a)] = table[t] /\ tables'[table[t]][w] = pg
      BY <1>3, <2>1, <2>4
    <3>2. tagmap_getb(a)' = pages'[pg][z]
      BY <2>1, <3>1, GetNext, Zenon
    <3> QED BY <1>2, <1>4, <1>5, <2>3, <2>4, <3>2 DEF o
  <2>5. CASE a # x
    <3>1. dir'[VIRT2PAGETABLE(a)] = d /\ tables'[d][w] = tables[d][w]
      BY <1>3
    <3>2. d # 0 => d \in 1 .. Len(tables)
      BY <1>1, <2>2 DEF Pointers, MapType
    <3>3. d # 0 /\ tables[d][w] # 0 => tables[d][w] \in 1 .. Len(pages)
      <4> SUFFICES ASSUME d # 0, tables[d][w] # 0 PROVE tables[d][w] \in 1 .. Len(pages)
        OBVIOUS
      <4>1. tables[d] \in [Slots -> Nat]
        BY <1>1, <3>2, SMTT(60) DEF MapType
      <4>2. tables[d][w] \in Nat /\ tables[d][w] <= Len(pages) /\ Len(pages) \in Nat
        BY <1>1, <2>2, <3>2, <4>1, SMTT(60) DEF Pointers, MapType
      <4> HIDE DEF d, w
      <4> QED BY <4>2
    <3>4. d # 0 /\ tables[d][w] # 0 => tables[d][w] # pg \/ z # o
      <4> SUFFICES ASSUME d # 0, tables[d][w] # 0, tables[d][w] = pg, z = o PROVE FALSE
        OBVIOUS
      <4>1. d = table[t] /\ w = VIRT2PAGE(x)
        BY <1>1, <1>2, <1>4, <2>1, <2>2, <3>2, SMTT(60) DEF Pointers
      <4>2. VIRT2PAGETABLE(a) = VIRT2PAGETABLE(x)
        BY <1>1, <1>2, <2>1, <2>2, <4>1 DEF Pointers
      <4> QED BY <1>2, <2>5, <4>1, <4>2, PartsUnique DEF o
    <3>5. d # 0 /\ tables[d][w] # 0 => pages'[tables[d][w]][z] = pages[tables[d][w]][z]
      BY <1>5, <2>2, <3>3, <3>4
    <3>6. tagmap_getb(a)' = tagmap_getb(a)
      BY <3>1, <3>5, Get, GetNext, Zenon
    <3> QED BY <2>1, <2>3, <2>5, <3>6
  <2> QED BY <2>4, <2>5
<1> QED BY <1>1, <1>3, <1>6, <1>7, <1>8, <1>9, DoneType DEF Sound

LEMMA SetTagsKeeps ==
    ASSUME Sound, IoType, NEW t \in Threads, SetTags(t)
    PROVE  Sound'
PROOF
<1>1. todo[t] # <<>> /\ pc[t] = "tags"
  BY DEF SetTags, tag_dir_setb_save_mem
<1>2. pc' = [pc EXCEPT ![t] = IF todo'[t] = <<>> THEN "run" ELSE "tags"]
  BY DEF SetTags, EndOfCall
<1>3. (\A u \in Threads \ {t} : pc'[u] = pc[u]) /\ (todo'[t] # <<>> => pc'[t] = "tags")
  BY <1>2 DEF IoType
<1>4. TestTable(t) \/ InstallTable(t) \/ TestPage(t) \/ InstallPage(t) \/ WriteTag(t)
  BY DEF SetTags, tag_dir_setb_save_mem
<1> QED BY <1>1, <1>3, <1>4, TestTableKeeps, InstallTableKeeps, TestPageKeeps, InstallPageKeeps,
           WriteTagKeeps

-----------------------------------------------------------------------------
(* The calls and their callbacks.                                          *)

LEMMA SetnType ==
    ASSUME NEW a \in Nat, NEW tags \in Seq(Int)
    PROVE  Setn(a, tags) \in Seq(Addr \X Int)
PROOF
<1> DEFINE fit == Limit - a + 1
           m == IF Len(tags) <= fit THEN Len(tags) ELSE IF fit > 0 THEN fit ELSE 0
<1>1. Limit \in Nat /\ Len(tags) \in Nat /\ fit \in Int
  BY MapAssumption
<1>2. m \in Nat /\ m <= Len(tags) /\ (m > 0 => m <= fit)
  BY <1>1
<1>3. Setn(a, tags) = [i \in 1 .. m |-> <<a + i - 1, tags[i]>>]
  BY DEF Setn
<1> HIDE DEF m
<1>4. ASSUME NEW i \in 1 .. m PROVE <<a + i - 1, tags[i]>> \in Addr \X Int
  <2>1. a + i - 1 \in 0 .. Limit
    BY <1>1, <1>2
  <2>2. tags[i] \in Int
    BY <1>1, <1>2
  <2> QED BY <2>1, <2>2 DEF Addr
<1> HIDE DEF fit
<1> QED BY <1>2, <1>3, <1>4

LEMMA LabelsType ==
    ASSUME NEW first \in Int, NEW n \in Nat
    PROVE  Labels(first, n) \in Seq(Int)
PROOF
<1>1. \A x \in Int : U(x) \in Int
  BY InputAssumption DEF U
<1>2. \A i \in 1 .. n : U(first + i - 1) \in Int
  BY <1>1
<1> QED BY <1>2 DEF Labels

LEMMA ClrType ==
    ASSUME NEW a \in Nat, NEW n \in Nat
    PROVE  tagmap_clrn(a, n) \in Seq(Addr \X Int)
PROOF
<1>1. [i \in 1 .. n |-> None] \in Seq(Int)
  BY DEF None
<1> QED BY <1>1, SetnType DEF tagmap_clrn

GoodResult(r) == r.set \in SUBSET Int /\ r.off \in Int /\ r.writes \in Seq(Addr \X Int)

LEMMA GoodForms ==
    ASSUME IoType
    PROVE  /\ GoodResult(Nothing)
           /\ \A S \in SUBSET Int : GoodResult([Nothing EXCEPT !.set = S])
           /\ \A w \in Seq(Addr \X Int) : GoodResult([Nothing EXCEPT !.writes = w])
           /\ \A o \in Int, w \in Seq(Addr \X Int) : GoodResult(Result(fdset, o, w))
PROOF
<1>1. <<>> \in Seq(Addr \X Int) /\ fdset \in SUBSET Int /\ stdin_read_off \in Int
  BY DEF IoType
<1> QED BY <1>1 DEF GoodResult, Nothing, Result

LEMMA CallNumbers ==
    ASSUME IoType, NEW c \in Calls
    PROVE  /\ U(c.ret) \in Nat /\ Seek(c.fd) \in Int /\ Upto(U(c.ret)) \in Nat
           /\ MapRounded(c.len) \in Nat /\ c.ret \in Int /\ c.off \in Nat /\ c.len \in Nat
           /\ c.addr \in Nat /\ U(stdin_read_off + c.ret) \in Int
           /\ U(stdin_read_off + U(c.ret)) \in Int /\ stdin_read_off \in Int /\ fdset \in SUBSET Int
           /\ c.fd \in Int /\ c.new \in Int
PROOF
<1>1. \A x \in Int : U(x) \in Nat
  BY InputAssumption DEF U
<1>2. c.ret \in Int /\ c.off \in Nat /\ c.len \in Nat /\ c.addr \in Nat /\ stdin_read_off \in Int
      /\ fdset \in SUBSET Int /\ c.fd \in Fd \cup {-1} /\ c.new \in Fd \cup {-1}
  BY DEF Calls, IoType
<1>3. Seek(c.fd) \in Int
  <2>1. CASE Open(c.fd)
    <3>1. fds[c.fd] \in 1 .. Len(pos)
      BY <2>1 DEF Open, IoType
    <3>2. pos[fds[c.fd]] \in Nat
      BY <3>1 DEF IoType
    <3> QED BY <2>1, <3>2 DEF Seek
  <2>2. CASE ~Open(c.fd)
    BY <2>2 DEF Seek
  <2> QED BY <2>1, <2>2
<1>4. Upto(U(c.ret)) \in Nat
  <2>1. U(U(c.ret) + 32) \in Nat /\ Count \in Nat
    BY <1>1, <1>2, InputAssumption
  <2> QED BY <2>1 DEF Upto, Slack, Least
<1>5. MapRounded(c.len) \in Nat
  <2>1. PAGE_SIZE \in Nat \ {0}
    BY MapAssumption
  <2>2. c.len % PAGE_SIZE \in 0 .. PAGE_SIZE - 1
    BY <1>2, <2>1
  <2>3. c.len + PAGE_SIZE - (c.len % PAGE_SIZE) \in Nat
    BY <1>2, <2>1, <2>2
  <2> QED BY <2>1, <2>3 DEF MapRounded
<1>6. c.fd \in Int /\ c.new \in Int
  <2>1. Fd \subseteq Int /\ -1 \in Int
    BY InputAssumption
  <2> QED BY <1>2, <2>1
<1> QED BY <1>1, <1>2, <1>3, <1>4, <1>5, <1>6

(* The sequences of tags that callbacks write. *)
LEMMA CallTags ==
    ASSUME IoType, NEW c \in Calls, NEW t \in Threads
    PROVE  /\ \A x \in Int, n \in Nat : Setn(Buf(t), Labels(x, n)) \in Seq(Addr \X Int)
           /\ \A n \in Nat : tagmap_clrn(Buf(t), n) \in Seq(Addr \X Int)
           /\ \A x \in Int, n \in Nat : Setn(c.addr, Labels(x, n)) \in Seq(Addr \X Int)
           /\ \A n \in Nat : tagmap_clrn(c.addr, n) \in Seq(Addr \X Int)
           /\ c.ret >= 0 =>
                 /\ \A x \in Int, n \in Nat : Setn(c.ret, Labels(x, n)) \in Seq(Addr \X Int)
                 /\ \A n \in Nat : tagmap_clrn(c.ret, n) \in Seq(Addr \X Int)
PROOF
<1>1. Buf(t) \in Nat /\ c.addr \in Nat /\ (c.ret >= 0 => c.ret \in Nat)
  BY CallNumbers, InputAssumption
<1>2. \A a \in Nat, x \in Int, n \in Nat : Setn(a, Labels(x, n)) \in Seq(Addr \X Int)
  <2> SUFFICES ASSUME NEW a \in Nat, NEW x \in Int, NEW n \in Nat
               PROVE  Setn(a, Labels(x, n)) \in Seq(Addr \X Int)
    OBVIOUS
  <2>1. Labels(x, n) \in Seq(Int)
    BY LabelsType
  <2> QED BY <2>1, SetnType
<1> QED BY <1>1, <1>2, ClrType

(* Tags of a mapping whose address may be an error number. *)
LEMMA FromType ==
    ASSUME NEW a \in Int, NEW n \in Nat
    PROVE  TagFrom(a, n) \in Seq(Addr \X Int) /\ ClearFrom(a, n) \in Seq(Addr \X Int)
PROOF
<1>1. \A b \in Nat, x \in Int, k \in Nat : Setn(b, Labels(x, k)) \in Seq(Addr \X Int)
  <2> SUFFICES ASSUME NEW b \in Nat, NEW x \in Int, NEW k \in Nat
               PROVE  Setn(b, Labels(x, k)) \in Seq(Addr \X Int)
    OBVIOUS
  <2>1. Labels(x, k) \in Seq(Int)
    BY LabelsType
  <2> QED BY <2>1, SetnType
<1>2. CASE a >= 0
  <2>1. a \in Nat /\ 0 \in Int
    BY <1>2
  <2>2. Setn(a, Labels(0, n)) \in Seq(Addr \X Int) /\ tagmap_clrn(a, n) \in Seq(Addr \X Int)
    BY <1>1, <2>1, ClrType
  <2> QED BY <1>2, <2>2 DEF TagFrom, ClearFrom
<1>3. CASE ~(a >= 0)
  <2>1. -a \in Int /\ Largest(n + a, 0) \in Nat /\ 0 \in Nat
    BY DEF Largest
  <2>2. Setn(0, Labels(-a, Largest(n + a, 0))) \in Seq(Addr \X Int)
    BY <1>1, <2>1
  <2>3. <<>> \in Seq(Addr \X Int)
    OBVIOUS
  <2> QED BY <1>3, <2>2, <2>3 DEF TagFrom, ClearFrom
<1> QED BY <1>2, <1>3

LEMMA MyHookType ==
    ASSUME IoType, NEW c \in Calls, NEW t \in Threads
    PROVE  GoodResult(MyHook(c, t))
PROOF
<1>1. GoodResult(my_open(c)) /\ GoodResult(my_openat(c))
  <2>1. fdset \cup {c.ret} \in SUBSET Int
    BY CallNumbers
  <2> QED BY <2>1, GoodForms DEF my_open, my_openat, Nothing, Result
<1>2. GoodResult(my_close(c))
  <2>1. fdset \ {c.fd} \in SUBSET Int
    BY CallNumbers
  <2> QED BY <2>1, GoodForms DEF my_close, Nothing, Result
<1>3. GoodResult(my_read(c, t))
  <2>1. Seek(c.fd) - c.ret \in Int /\ U(stdin_read_off + c.ret) \in Int /\ stdin_read_off \in Int
    BY CallNumbers
  <2>2. c.ret > 0 => c.ret \in Nat
    BY CallNumbers
  <2>3. CASE c.ret <= 0
    <3>1. ~(c.ret > 0)
      BY <2>3, CallNumbers
    <3> QED BY <2>3, <3>1, GoodForms DEF my_read
  <2>4. CASE c.ret > 0
    <3>1. /\ tagmap_clrn(Buf(t), c.ret) \in Seq(Addr \X Int)
          /\ Setn(Buf(t), Labels(stdin_read_off, c.ret)) \in Seq(Addr \X Int)
          /\ Setn(Buf(t), Labels(Seek(c.fd) - c.ret, c.ret)) \in Seq(Addr \X Int)
      BY <2>1, <2>2, <2>4, CallTags
    <3>2. ~(c.ret <= 0)
      BY <2>4, CallNumbers
    <3> QED BY <2>1, <2>4, <3>1, <3>2, GoodForms DEF my_read
  <2> QED BY <2>3, <2>4, CallNumbers
<1>4. GoodResult(my_pread64(c, t)) /\ GoodResult(my_readv(c, t))
  <2>1. CASE c.ret <= 0
    BY <2>1, GoodForms DEF my_pread64, my_readv
  <2>2. CASE ~(c.ret <= 0)
    <3>1. c.ret \in Nat /\ c.off \in Int /\ 0 \in Int
      BY <2>2, CallNumbers
    <3>2. /\ tagmap_clrn(Buf(t), c.ret) \in Seq(Addr \X Int)
          /\ Setn(Buf(t), Labels(c.off, c.ret)) \in Seq(Addr \X Int)
          /\ Setn(Buf(t), Labels(0, c.ret)) \in Seq(Addr \X Int)
      BY <3>1, CallTags
    <3> QED BY <2>2, <3>2, GoodForms DEF my_pread64, my_readv
  <2> QED BY <2>1, <2>2
<1>5. GoodResult(my_mmap(c))
  <2>1. \A a \in Int, n \in Nat : TagFrom(a, n) \in Seq(Addr \X Int)
    BY FromType
  <2>2. \A a \in Int, n \in Nat : ClearFrom(a, n) \in Seq(Addr \X Int)
    BY FromType
  <2>3. PICK n \in Nat : n = MapRounded(c.len)
    BY CallNumbers
  <2>4. PICK w : w = IF c.fd \in fdset THEN TagFrom(c.ret, n)
                     ELSE ClearFrom(c.ret - (IF "MAP_GROWSDOWN" \in c.flags THEN n ELSE 0), n)
    OBVIOUS
  <2>5. w \in Seq(Addr \X Int)
    <3>1. c.ret \in Int /\ c.ret - n \in Int /\ c.ret - 0 \in Int
      BY <2>3, CallNumbers
    <3> QED BY <2>1, <2>2, <2>4, <3>1
  <2>6. my_mmap(c) = IF c.ret = -EPERM THEN Nothing ELSE [Nothing EXCEPT !.writes = w]
    BY <2>3, <2>4 DEF my_mmap
  <2> QED BY <2>5, <2>6, GoodForms
<1> QED BY <1>1, <1>2, <1>3, <1>4, <1>5, GoodForms DEF MyHook

LEMMA FileHookType ==
    ASSUME IoType, NEW c \in Calls, NEW t \in Threads
    PROVE  GoodResult(FileHook(c, t))
PROOF
<1>1. \A f \in Int : GoodResult(add_fuzzing_fd(f))
  <2> SUFFICES ASSUME NEW f \in Int PROVE GoodResult(add_fuzzing_fd(f))
    OBVIOUS
  <2>1. fdset \cup {f} \in SUBSET Int /\ fdset \in SUBSET Int
    BY DEF IoType
  <2> QED BY <2>1, GoodForms DEF add_fuzzing_fd, Nothing, Result
<1>2. /\ GoodResult(hook_open(c)) /\ GoodResult(hook_openat(c))
      /\ GoodResult(hook_dup(c)) /\ GoodResult(hook_dup2(c))
  BY <1>1, GoodForms, CallNumbers DEF hook_open, hook_openat, hook_dup, hook_dup2
<1>3. GoodResult(hook_close(c))
  <2>1. fdset \ {c.fd} \in SUBSET Int
    BY CallNumbers
  <2> QED BY <2>1, GoodForms DEF hook_close, Nothing, Result
<1> DEFINE nr == U(c.ret)
<1>4. nr \in Nat /\ Upto(nr) \in Nat /\ Count \in Nat /\ c.off \in Int /\ c.len \in Nat
  BY CallNumbers, InputAssumption
<1>5. GoodResult(hook_read(c, t))
  <2>1. Seek(c.fd) - nr \in Int /\ U(stdin_read_off + nr) \in Int /\ stdin_read_off \in Int
    BY CallNumbers
  <2>2. /\ tagmap_clrn(Buf(t), nr) \in Seq(Addr \X Int)
        /\ Setn(Buf(t), Labels(stdin_read_off, Upto(nr))) \in Seq(Addr \X Int)
        /\ Setn(Buf(t), Labels(Seek(c.fd) - nr, Upto(nr))) \in Seq(Addr \X Int)
    BY <1>4, <2>1, CallTags
  <2> QED BY <2>1, <2>2, GoodForms DEF hook_read
<1>6. GoodResult(hook_pread64(c, t))
  <2>1. /\ tagmap_clrn(Buf(t), Count) \in Seq(Addr \X Int)
        /\ Setn(Buf(t), Labels(c.off, Upto(nr))) \in Seq(Addr \X Int)
    BY <1>4, CallTags
  <2> QED BY <2>1, GoodForms DEF hook_pread64
<1>7. GoodResult(default_readv(c, t))
  <2>1. CASE c.ret <= 0
    BY <2>1, GoodForms DEF default_readv
  <2>2. CASE ~(c.ret <= 0)
    <3>1. c.ret \in Nat
      BY <2>2, CallNumbers
    <3>2. tagmap_clrn(Buf(t), c.ret) \in Seq(Addr \X Int)
      BY <3>1, CallTags
    <3> QED BY <2>2, <3>2, GoodForms DEF default_readv
  <2> QED BY <2>1, <2>2
<1>8. GoodResult(hook_mmap(c)) /\ GoodResult(hook_munmap(c))
  <2>1. /\ tagmap_clrn(c.addr, c.len) \in Seq(Addr \X Int)
        /\ Setn(c.addr, Labels(c.off, c.len)) \in Seq(Addr \X Int)
    BY <1>4, CallTags
  <2> QED BY <2>1, GoodForms DEF hook_mmap, hook_munmap
<1> QED BY <1>2, <1>3, <1>5, <1>6, <1>7, <1>8, GoodForms DEF FileHook

LEMMA SyscallType ==
    ASSUME NEW c \in Syscalls
    PROVE  /\ c \in Calls /\ c.ret = 0 /\ c.path \in {"input", "other"} /\ c.nr # "none"
           /\ c.nr \in {"close", "dup", "dup2"} => c.fd \in Fd
           /\ c.nr = "dup2" => c.new \in Fd
PROOF
<1>8. \/ \E n \in {"open", "openat"}, p \in Files \ {"stdin"} : c = Call(n, -1, -1, p, 0, 0, 0)
      \/ \E n \in {"close", "dup", "read", "readv"}, f \in Fd : c = Call(n, f, -1, "other", 0, 0, 0)
      \/ \E f, g \in Fd : c = Call("dup2", f, g, "other", 0, 0, 0)
      \/ \E f \in Fd : c = Call("pread64", f, -1, "other", 1, 0, 0)
      \/ \E f \in Fd \cup {-1}, n \in {1, PAGE_SIZE}, o \in {0, PAGE_SIZE}, a \in {0, MapAddr},
            g \in MapFlags : c = MapCall(f, o, n, a, g)
      \/ c = Call("munmap", -1, -1, "other", 0, PAGE_SIZE, MapAddr)
  BY DEF Syscalls
<1> USE DEF Call, Calls, Files, MapCall, MapFlags
<1>1. CASE \E n \in {"open", "openat"}, p \in Files \ {"stdin"} : c = Call(n, -1, -1, p, 0, 0, 0)
  BY <1>1
<1>2. CASE \E n \in {"close", "dup", "read", "readv"}, f \in Fd : c = Call(n, f, -1, "other", 0, 0, 0)
  BY <1>2
<1>3. CASE \E f, g \in Fd : c = Call("dup2", f, g, "other", 0, 0, 0)
  BY <1>3
<1>4. CASE \E f \in Fd : c = Call("pread64", f, -1, "other", 1, 0, 0)
  BY <1>4
<1>5. PAGE_SIZE \in Nat /\ MapAddr \in Nat
  BY MapAssumption, InputAssumption
<1>6. CASE \E f \in Fd \cup {-1}, n \in {1, PAGE_SIZE}, o \in {0, PAGE_SIZE}, a \in {0, MapAddr},
            g \in MapFlags : c = MapCall(f, o, n, a, g)
  BY <1>5, <1>6
<1>7. CASE c = Call("munmap", -1, -1, "other", 0, PAGE_SIZE, MapAddr)
  BY <1>5, <1>7
<1> QED BY <1>1, <1>2, <1>3, <1>4, <1>6, <1>7, <1>8

LEMMA LowestType ==
    ASSUME Free # {}
    PROVE  LowestFree \in Free
PROOF
<1> DEFINE R == OpToRel(<, Nat)
<1>1. Free \subseteq Nat
  BY InputAssumption DEF Free
<1>2. \E f \in Free : \A g \in Free : ~(<<g, f>> \in R)
  <2>1. IsWellFoundedOn(R, Nat)
    BY NatLessThanWellFounded
  <2> HIDE DEF R
  <2> QED BY <1>1, <2>1, WFMin
<1>3. \A f, g \in Nat : ~(<<g, f>> \in R) => f <= g
  BY DEF OpToRel
<1> HIDE DEF R
<1>4. \E f \in Free : \A g \in Free : f <= g
  BY <1>1, <1>2, <1>3
<1> QED BY <1>4 DEF LowestFree

LEMMA ReturnType ==
    ASSUME IoType, NEW t \in Threads, NEW c \in Calls, NEW r \in Int, Return(t, c, r)
    PROVE  /\ pc' \in [Threads -> {"run", "exit", "tags"}] /\ ctx' \in [Threads -> Calls]
           /\ odd' \in BOOLEAN
PROOF
<1>1. [c EXCEPT !.ret = r] \in Calls
  BY DEF Calls
<1>2. pc' \in [Threads -> {"run", "exit", "tags"}] /\ ctx' \in [Threads -> Calls]
  BY <1>1 DEF Return, IoType
<1>3. odd' \in BOOLEAN
  BY DEF Return
<1> QED BY <1>2, <1>3

(* What the kernel does to descriptors and files, and what it returns. *)
LEMMA KernelType ==
    ASSUME IoType, NEW t \in Threads, NEW c \in Syscalls, Kernel(t, c)
    PROVE  /\ \E r \in Int : Return(t, c, r)
           /\ pos' \in Seq(Nat) /\ file' \in Seq(Files) /\ Len(file') = Len(pos')
           /\ fds' \in [Fd -> 0 .. Len(pos')]
PROOF
<1>1. /\ pos \in Seq(Nat) /\ file \in Seq(Files) /\ Len(file) = Len(pos)
      /\ fds \in [Fd -> 0 .. Len(pos)] /\ Len(pos) \in Nat
  BY DEF IoType
<1>2. /\ c.path \in Files /\ Fd \subseteq Int /\ c.off \in Nat /\ MapAddr \in Int
      /\ EPERM \in Int /\ EOTHER \in Int /\ (c.nr = "dup2" => c.new \in Fd)
      /\ (c.nr \in {"close", "dup", "dup2"} => c.fd \in Fd)
  BY SyscallType, InputAssumption DEF Calls, EPERM, EOTHER
<1>3. Free # {} => LowestFree \in Fd
  BY LowestType DEF Free
<1>4. CASE KOpen(t, c)
  <2>1. LowestFree \in Fd /\ LowestFree \in Int
    BY <1>2, <1>3, <1>4 DEF KOpen
  <2>2. /\ pos' = Append(pos, 0) /\ file' = Append(file, c.path)
        /\ fds' = [fds EXCEPT ![LowestFree] = Len(pos) + 1]
    BY <1>4 DEF KOpen
  <2>3. /\ pos' \in Seq(Nat) /\ file' \in Seq(Files) /\ Len(file') = Len(pos') /\ Len(pos') = Len(pos) + 1
    BY <1>1, <1>2, <2>2
  <2>4. fds' \in [Fd -> 0 .. Len(pos) + 1]
    BY <1>1, <2>1, <2>2
  <2> QED BY <1>4, <2>1, <2>3, <2>4 DEF KOpen
<1>5. CASE KDup(t, c)
  <2> DEFINE new == IF c.nr = "dup" THEN LowestFree ELSE c.new
  <2>1. new \in Fd /\ new \in Int
    BY <1>2, <1>3, <1>5 DEF KDup
  <2>2. fds' = [fds EXCEPT ![new] = fds[c.fd]] /\ pos' = pos /\ file' = file /\ Return(t, c, new)
        /\ c.fd \in Fd
    BY <1>2, <1>5 DEF KDup
  <2> HIDE DEF new
  <2> QED BY <1>1, <2>1, <2>2
<1>6. CASE KClose(t, c)
  <2>1. Return(t, c, 0) /\ fds' = [fds EXCEPT ![c.fd] = 0] /\ pos' = pos /\ file' = file
    BY <1>6 DEF KClose
  <2>2. 0 \in 0 .. Len(pos) /\ fds \in [Fd -> 0 .. Len(pos)]
    BY <1>1
  <2>3. fds' \in [Fd -> 0 .. Len(pos)]
    BY <2>1, <2>2, Zenon
  <2> QED BY <1>1, <2>1, <2>3
<1>7. CASE KRead(t, c)
  <2> DEFINE d == fds[c.fd]
             p == IF c.nr = "pread64" THEN c.off ELSE pos[d]
  <2>1. c.fd \in Fd /\ d \in 1 .. Len(pos) /\ fds' = fds /\ file' = file
    BY <1>1, <1>7 DEF KRead, Open
  <2>2. p \in Nat
    BY <1>1, <1>2, <2>1
  <2>3. PICK n \in {Least(Count, Avail(p)), Least(1, Avail(p))} :
           /\ pos' = IF c.nr = "pread64" THEN pos ELSE [pos EXCEPT ![d] = @ + n]
           /\ Return(t, c, n)
    BY <1>7 DEF KRead
  <2> HIDE DEF d, p
  <2>4. n \in Nat
    <3>1. FileLen \in Nat /\ Count \in Nat
      BY InputAssumption
    <3>2. Avail(p) \in Nat
      BY <2>2, <3>1 DEF Avail
    <3> QED BY <3>1, <3>2 DEF Least
  <2>5. pos' \in Seq(Nat) /\ Len(pos') = Len(pos)
    BY <1>1, <2>1, <2>3, <2>4
  <2> QED BY <1>1, <2>1, <2>3, <2>4, <2>5
<1>8. CASE KMmap(t, c)
  BY <1>1, <1>2, <1>8 DEF KMmap
<1>9. CASE KMunmap(t, c)
  BY <1>1, <1>9 DEF KMunmap
<1>10. CASE KFail(t, c)
  BY <1>1, <1>10 DEF KFail, EPERM, EOTHER
<1> QED BY <1>4, <1>5, <1>6, <1>7, <1>8, <1>9, <1>10 DEF Kernel

LEMMA EnterKeeps ==
    ASSUME IoType, Sound, NEW t \in Threads, NEW c \in Syscalls, sysenter_save(t, c)
    PROVE  IoType' /\ Sound'
PROOF
<1>1. c \in Calls
  BY SyscallType
<1>2. /\ Kernel(t, c) /\ tool' = tool /\ fdset' = fdset /\ stdin_read_off' = stdin_read_off
      /\ UNCHANGED mapvars /\ pc[t] = "run"
  BY DEF sysenter_save
<1>3. PICK r \in Int : Return(t, c, r)
  BY <1>2, KernelType
<1>4. IoType'
  BY <1>1, <1>2, <1>3, KernelType, ReturnType DEF IoType
<1>5. MapType' /\ Pointers' /\ FlatMap'
  BY <1>2 DEF Sound, MapType, Pointers, FlatMap, mapvars, tagmap_getb
<1>6. \A u \in Threads : Cursor(u)'
  <2> SUFFICES ASSUME NEW u \in Threads PROVE Cursor(u)'
    OBVIOUS
  <2>1. at[u] # "table" => pc'[u] = "tags"
    BY <1>2, <1>3 DEF Sound, Cursor, Return, IoType
  <2> QED BY <1>2, <2>1 DEF Sound, Cursor, mapvars, Byte
<1> QED BY <1>4, <1>5, <1>6 DEF Sound

LEMMA ExitKeeps ==
    ASSUME IoType, Sound, NEW t \in Threads, sysexit_save(t)
    PROVE  IoType' /\ Sound'
PROOF
<1> DEFINE c == ctx[t]
           r == IF tool = "mytool" THEN MyHook(c, t) ELSE FileHook(c, t)
<1>1. c \in Calls /\ pc[t] = "exit"
  BY DEF IoType, sysexit_save
<1>2. GoodResult(r)
  BY <1>1, MyHookType, FileHookType
<1>3. /\ fdset' = r.set /\ stdin_read_off' = r.off
      /\ todo' = [todo EXCEPT ![t] = r.writes]
      /\ EndOfCall(t, r.writes = <<>>)
      /\ odd' = (odd \/ IF tool = "mytool" THEN MyOdd(c) ELSE FileOdd(c))
      /\ UNCHANGED <<tool, fds, pos, file, mem, mapped>>
      /\ UNCHANGED <<dir, tables, pages, at, table, page, flat, lost>>
  BY DEF sysexit_save
<1> HIDE DEF c, r
<1>4. IoType'
  <2>1. Blank \in Calls
    BY InputAssumption DEF Blank, Call, Calls, Files
  <2>2. pc' \in [Threads -> {"run", "exit", "tags"}] /\ ctx' \in [Threads -> Calls]
    BY <1>3, <2>1 DEF EndOfCall, IoType
  <2>3. odd' \in BOOLEAN
    BY <1>3
  <2> QED BY <1>2, <1>3, <2>2, <2>3 DEF IoType, GoodResult
<1>5. MapType'
  BY <1>2, <1>3 DEF Sound, MapType, GoodResult
<1>6. Pointers' /\ FlatMap'
  BY <1>3 DEF Sound, Pointers, FlatMap, tagmap_getb
<1>7. \A u \in Threads : Cursor(u)'
  <2> SUFFICES ASSUME NEW u \in Threads PROVE Cursor(u)'
    OBVIOUS
  <2>1. CASE u = t
    <3>1. at'[u] = "table"
      BY <1>1, <1>3, <2>1 DEF Sound, Cursor, MapType, Places
    <3> QED BY <3>1 DEF Cursor
  <2>2. CASE u # t
    <3>1. pc'[u] = pc[u] /\ todo'[u] = todo[u]
      BY <1>3, <2>2 DEF EndOfCall, IoType, Sound, MapType
    <3> QED BY <1>3, <3>1 DEF Sound, Cursor, Byte
  <2> QED BY <2>1, <2>2
<1> QED BY <1>4, <1>5, <1>6, <1>7 DEF Sound

LEMMA TagsIoType ==
    ASSUME IoType, NEW t \in Threads, SetTags(t)
    PROVE  IoType'
PROOF
<1>1. Blank \in Calls
  BY InputAssumption DEF Blank, Call, Calls, Files
<1>2. EndOfCall(t, todo'[t] = <<>>)
      /\ UNCHANGED <<tool, fdset, stdin_read_off, fds, pos, file, mem, mapped, odd>>
  BY DEF SetTags
<1>3. pc' \in [Threads -> {"run", "exit", "tags"}] /\ ctx' \in [Threads -> Calls]
  BY <1>1, <1>2 DEF EndOfCall, IoType
<1> QED BY <1>2, <1>3 DEF IoType

LEMMA MapInitial ==
    ASSUME Init
    PROVE  IoType /\ Sound
PROOF
<1>1. Limit \in Nat /\ PAGE_SIZE \in Nat \ {0} /\ PAGETABLE_SZ \in Nat \ {0}
  BY MapAssumption
<1>2. IoType
  <2>1. Blank \in Calls
    BY InputAssumption DEF Blank, Call, Calls, Files
  <2>2. /\ fds \in [Fd -> 0 .. 1] /\ pos = <<0>> /\ file = <<"stdin">>
    BY DEF Init
  <2>3. pos \in Seq(Nat) /\ file \in Seq(Files) /\ Len(file) = 1 /\ Len(pos) = 1
    BY <2>2 DEF Files
  <2>4. ctx \in [Threads -> Calls] /\ pc \in [Threads -> {"run", "exit", "tags"}] /\ odd = FALSE
    BY <2>1 DEF Init
  <2>5. tool \in {"mytool", "hook_file_syscall"} /\ fdset = {} /\ stdin_read_off = 0
    BY DEF Init
  <2>6. fds \in [Fd -> 0 .. Len(pos)] /\ Len(file) = Len(pos)
    BY <2>2, <2>3
  <2>7. odd \in BOOLEAN
    BY <2>4, Zenon
  <2>8. fdset \in SUBSET Int /\ stdin_read_off \in Int
    BY <2>5
  <2> QED BY <2>3, <2>4, <2>5, <2>6, <2>7, <2>8, Zenon DEF IoType
<1>3. MapType
  <2>1. tables = <<>> /\ pages = <<>> /\ lost = FALSE
    BY DEF Init, MapInit
  <2>2. dir \in [Entries -> Nat] /\ table \in [Threads -> Nat] /\ page \in [Threads -> Nat]
    BY DEF Init, MapInit, Entries
  <2>3. at \in [Threads -> Places] /\ todo \in [Threads -> Seq(Addr \X Int)]
    <3>1. <<>> \in Seq(Addr \X Int) /\ "table" \in Places
      BY DEF Places
    <3> QED BY <3>1 DEF Init, MapInit
  <2>4. flat \in [Addr -> Int]
    BY DEF Init, MapInit, None
  <2>5. <<>> \in Seq([Slots -> Nat]) /\ <<>> \in Seq([Offsets -> Int])
    OBVIOUS
  <2>6. tables \in Seq([Slots -> Nat]) /\ pages \in Seq([Offsets -> Int])
    BY <2>1, <2>5, Zenon
  <2>7. lost \in BOOLEAN
    BY <2>1, Zenon
  <2> QED BY <2>2, <2>3, <2>4, <2>6, <2>7 DEF MapType
<1>4. /\ \A i \in Entries : dir[i] = 0
      /\ Len(tables) = 0 /\ Len(pages) = 0 /\ at = [t \in Threads |-> "table"]
      /\ flat = [a \in Addr |-> None]
  BY DEF Init, MapInit, Entries
<1>5. Pointers
  BY <1>4 DEF Pointers
<1>6. \A t \in Threads : Cursor(t)
  BY <1>4 DEF Cursor
<1>7. FlatMap
  <2> SUFFICES ASSUME NEW a \in Addr PROVE tagmap_getb(a) = None
    BY <1>4 DEF FlatMap
  <2> QED BY <1>4, Parts, Get
<1> QED BY <1>2, <1>3, <1>5, <1>6, <1>7 DEF Sound

LEMMA StepKeeps ==
    ASSUME IoType, Sound, [Next]_vars
    PROVE  IoType' /\ Sound'
PROOF
<1>1. CASE UNCHANGED vars
  <2>1. UNCHANGED mapvars /\ UNCHANGED iovars
    BY <1>1 DEF vars
  <2>2. IoType'
    BY <2>1 DEF IoType, iovars
  <2>3. MapType'
    BY <2>1 DEF Sound, MapType, mapvars
  <2>4. Pointers'
    BY <2>1 DEF Sound, Pointers, mapvars
  <2>5. FlatMap'
    BY <2>1 DEF Sound, FlatMap, tagmap_getb, mapvars
  <2>6. ASSUME NEW t \in Threads PROVE Cursor(t)'
    BY <2>1 DEF Sound, Cursor, Byte, mapvars, iovars
  <2> QED BY <2>2, <2>3, <2>4, <2>5, <2>6 DEF Sound
<1>2. ASSUME NEW t \in Threads, NEW c \in Syscalls, sysenter_save(t, c)
      PROVE  IoType' /\ Sound'
  BY <1>2, EnterKeeps
<1>3. ASSUME NEW t \in Threads, sysexit_save(t) PROVE IoType' /\ Sound'
  BY <1>3, ExitKeeps
<1>4. ASSUME NEW t \in Threads, SetTags(t) PROVE IoType' /\ Sound'
  BY <1>4, SetTagsKeeps, TagsIoType
<1> QED BY <1>1, <1>2, <1>3, <1>4 DEF Next

(* The two-level directory that tagmap_setb and tagmap_getb walk is an     *)
(* array of tags: what was written last at an address is read back, unless *)
(* two threads have installed the same table or page at once.              *)
THEOREM ShadowIsArray == Spec => []FlatMap
PROOF
<1>1. Init => IoType /\ Sound
  BY MapInitial
<1>2. IoType /\ Sound /\ [Next]_vars => IoType' /\ Sound'
  BY StepKeeps
<1>3. IoType /\ Sound => FlatMap
  BY DEF Sound
<1> QED BY <1>1, <1>2, <1>3, PTL DEF Spec

-----------------------------------------------------------------------------
(* The tracked descriptors.                                                *)

(* What the kernel does to the descriptors in a call that returns r.       *)
Effect(c, r) ==
    LET d == [c EXCEPT !.ret = r]
    IN  /\ \A f \in Fd : ~Alters(d, f) => fds'[f] = fds[f]
        /\ \A i \in 1 .. Len(pos) : file'[i] = file[i]
        /\ Opens(d) => r \in Fd
        /\ Opens(d) /\ c.nr # "dup2" => fds[r] = 0
        /\ Opens(d) /\ c.nr \in {"open", "openat"} => fds'[r] # 0 /\ file'[fds'[r]] = c.path
        /\ Opens(d) /\ c.nr \in {"dup", "dup2"} =>
              c.fd \in Fd /\ fds[c.fd] # 0 /\ fds'[c.fd] = fds[c.fd] /\ fds'[r] = fds[c.fd]
        /\ Opens(d) /\ c.nr = "dup2" => r = c.new
        /\ Closes(d) => c.fd \in Fd /\ fds'[c.fd] = 0

LEMMA KernelEffect ==
    ASSUME IoType, NEW t \in Threads, NEW c \in Syscalls, Kernel(t, c)
    PROVE  \E r \in Int : Return(t, c, r) /\ Effect(c, r)
PROOF
<1>1. /\ pos \in Seq(Nat) /\ file \in Seq(Files) /\ Len(file) = Len(pos)
      /\ fds \in [Fd -> 0 .. Len(pos)] /\ Len(pos) \in Nat
  BY DEF IoType
<1>2. /\ Fd \subseteq Int /\ MapAddr \in Int /\ (\A f \in Fd : f >= 0) /\ c \in Calls
      /\ EPERM = 1 /\ EOTHER = 2 /\ (c.nr = "dup2" => c.new \in Fd)
      /\ (c.nr \in {"close", "dup", "dup2"} => c.fd \in Fd)
  BY SyscallType, InputAssumption DEF EPERM, EOTHER
<1>3. Free # {} => LowestFree \in Fd /\ fds[LowestFree] = 0
  BY LowestType DEF Free
<1>d. \A r \in Int : /\ [c EXCEPT !.ret = r].ret = r /\ [c EXCEPT !.ret = r].nr = c.nr
                     /\ [c EXCEPT !.ret = r].fd = c.fd
  BY <1>2 DEF Calls
<1>4. CASE KOpen(t, c)
  <2> DEFINE r == LowestFree
  <2>1. r \in Fd /\ r \in Int /\ r >= 0 /\ fds[r] = 0 /\ Return(t, c, r)
    BY <1>2, <1>3, <1>4 DEF KOpen
  <2>2. /\ file' = Append(file, c.path) /\ fds' = [fds EXCEPT ![r] = Len(pos) + 1]
        /\ c.nr \in {"open", "openat"}
    BY <1>4 DEF KOpen
  <2> HIDE DEF r
  <2>3. \A i \in 1 .. Len(pos) : file'[i] = file[i]
    BY <1>1, <2>2
  <2>4. fds'[r] = Len(pos) + 1 /\ file'[Len(pos) + 1] = c.path
    BY <1>1, <2>1, <2>2
  <2>5. \A f \in Fd : f # r => fds'[f] = fds[f]
    BY <1>1, <2>1, <2>2
  <2>6. Effect(c, r)
    BY <1>1, <1>d, <2>1, <2>2, <2>3, <2>4, <2>5 DEF Effect, Opens, Closes, Alters
  <2> QED BY <2>1, <2>6
<1>5. CASE KDup(t, c)
  <2> DEFINE r == IF c.nr = "dup" THEN LowestFree ELSE c.new
  <2>1. r \in Fd /\ r \in Int /\ r >= 0 /\ c.nr \in {"dup", "dup2"} /\ (c.nr = "dup" => fds[r] = 0)
        /\ (c.nr = "dup2" => r = c.new)
    BY <1>2, <1>3, <1>5 DEF KDup
  <2>2. fds' = [fds EXCEPT ![r] = fds[c.fd]] /\ file' = file /\ Return(t, c, r) /\ fds[c.fd] # 0
        /\ c.fd \in Fd
    BY <1>2, <1>5 DEF KDup, Open
  <2> HIDE DEF r
  <2>3. /\ \A f \in Fd : f # r => fds'[f] = fds[f]
        /\ fds'[r] = fds[c.fd] /\ fds'[c.fd] = fds[c.fd]
    BY <1>1, <2>1, <2>2
  <2>4. Effect(c, r)
    BY <1>d, <2>1, <2>2, <2>3 DEF Effect, Opens, Closes, Alters
  <2> QED BY <2>1, <2>2, <2>4
<1>6. CASE KClose(t, c)
  <2>1. Return(t, c, 0) /\ fds' = [fds EXCEPT ![c.fd] = 0] /\ file' = file /\ c.nr = "close"
    BY <1>6 DEF KClose
  <2>2. c.fd \in Fd
    BY <1>2, <2>1
  <2>3. fds'[c.fd] = 0 /\ \A f \in Fd : f # c.fd => fds'[f] = fds[f]
    BY <1>1, <2>1, <2>2
  <2>4. Effect(c, 0)
    BY <1>d, <2>1, <2>2, <2>3 DEF Effect, Opens, Closes, Alters
  <2> QED BY <2>1, <2>4
<1>7. ASSUME NEW r \in Int, Return(t, c, r), fds' = fds, file' = file,
             c.nr \in {"read", "readv", "pread64", "mmap", "munmap"} \/ r < 0
      PROVE  \E s \in Int : Return(t, c, s) /\ Effect(c, s)
  <2>1. ~Opens([c EXCEPT !.ret = r]) /\ ~Closes([c EXCEPT !.ret = r])
    BY <1>7, <1>d DEF Opens, Closes
  <2>2. Effect(c, r)
    BY <1>7, <2>1 DEF Effect
  <2> QED BY <1>7, <2>2
<1>8. CASE KRead(t, c)
  <2>1. PICK r \in Int : Return(t, c, r)
    BY <1>8, KernelType DEF Kernel
  <2>2. fds' = fds /\ file' = file /\ c.nr \in {"read", "readv", "pread64"}
    BY <1>8 DEF KRead
  <2> QED BY <1>7, <2>1, <2>2
<1>9. CASE KMmap(t, c)
  BY <1>2, <1>7, <1>9 DEF KMmap
<1>10. CASE KMunmap(t, c)
  BY <1>7, <1>10 DEF KMunmap
<1>11. CASE KFail(t, c)
  <2>1. PICK e \in IF Maps(c) THEN {EPERM, EOTHER} ELSE {EOTHER} : Return(t, c, -e)
    BY <1>11 DEF KFail
  <2>2. -e \in Int /\ -e < 0
    BY <1>2, <2>1
  <2> QED BY <1>7, <1>11, <2>1, <2>2 DEF KFail
<1> QED BY <1>4, <1>5, <1>6, <1>8, <1>9, <1>10, <1>11 DEF Kernel

(* A descriptor that the kernel leaves alone still is, or is not, a source. *)
LEMMA SourceKept ==
    ASSUME IoType, NEW f \in Fd, fds' \in [Fd -> Nat], fds'[f] = fds[f], tool' = tool,
           \A i \in 1 .. Len(pos) : file'[i] = file[i]
    PROVE  Source(f)' <=> Source(f)
PROOF
<1>1. DOMAIN fds = Fd /\ DOMAIN fds' = Fd /\ fds[f] \in 0 .. Len(pos) /\ Len(pos) \in Nat
  BY DEF IoType
<1>2. (Tracked)' = Tracked
  BY DEF Tracked
<1>3. Open(f)' <=> Open(f)
  BY <1>1 DEF Open
<1>4. Open(f) => fds[f] \in 1 .. Len(pos)
  BY <1>1 DEF Open
<1>5. Open(f) => file'[fds'[f]] = file[fds[f]]
  BY <1>4
<1> QED BY <1>2, <1>3, <1>5 DEF Source

(* A call alters a descriptor that it names. *)
LEMMA AltersCore ==
    ASSUME NEW c, Between(c), NEW f, Alters(c, f)
    PROVE  f \in Core(c)
BY DEF Between, Alters, Opens, Closes, Core

(* What is known of a call in progress depends on the descriptors it names. *)
LEMMA BetweenKept ==
    ASSUME NEW c, Between(c),
           \A f \in Core(c) \cap Fd : /\ fds'[f] = fds[f]
                                      /\ Source(f)' <=> Source(f)
                                      /\ f \in Followed => (f \in fdset' <=> f \in fdset),
           tool' = tool
    PROVE  Between(c)'
PROOF
<1>1. Opens(c) => c.ret \in Core(c) \cap Fd
  BY DEF Between, Opens, Core
<1>2. c.fd \in Core(c)
  BY DEF Core
<1>3. c.fd \in Fd => (Known(c.fd) => Known(c.fd)')
  BY <1>2 DEF Known, Followed
<1> QED BY <1>1, <1>2, <1>3 DEF Between, Opens, Closes, Followed

(* Calls of two threads of which neither falls between the kernel's step   *)
(* and the callback of the other name different descriptors.               *)
LEMMA CoresApart ==
    ASSUME NEW t \in Threads, NEW u \in Threads \ {t}, NEW c, ~Overlaps(t, c), pc[u] = "exit"
    PROVE  Core(c) \cap Core(ctx[u]) \cap Fd = {}
PROOF
<1>1. \A f : f \in Describe(f)
  BY DEF Describe
<1>2. \A d : Core(d) \subseteq Touches(d)
  BY <1>1 DEF Core, Touches
<1>3. Touches(c) \cap Touches(ctx[u]) \cap Fd = {}
  BY DEF Overlaps
<1> QED BY <1>2, <1>3

LEMMA EnterFds ==
    ASSUME IoType, FdInv, NEW t \in Threads, NEW c \in Syscalls, sysenter_save(t, c)
    PROVE  FdInv'
PROOF
<1> SUFFICES ASSUME ~odd' PROVE FdInv'
  BY DEF FdInv
<1>1. /\ Kernel(t, c) /\ tool' = tool /\ fdset' = fdset /\ pc[t] = "run" /\ c \in Calls
  BY SyscallType DEF sysenter_save
<1>2. PICK r \in Int : Return(t, c, r) /\ Effect(c, r)
  BY <1>1, KernelEffect
<1> DEFINE d == [c EXCEPT !.ret = r]
<1>3. /\ d.ret = r /\ d.nr = c.nr /\ d.fd = c.fd /\ d.new = c.new /\ d.path = c.path
      /\ c.path \in {"input", "other"}
  BY <1>1, SyscallType DEF Calls
<1>4. /\ pc' = [pc EXCEPT ![t] = "exit"] /\ ctx' = [ctx EXCEPT ![t] = d]
      /\ odd' = (odd \/ Overlaps(t, d))
  BY <1>2 DEF Return
<1>e. /\ \A f \in Fd : ~Alters(d, f) => fds'[f] = fds[f]
      /\ \A i \in 1 .. Len(pos) : file'[i] = file[i]
      /\ Opens(d) => r \in Fd
      /\ Opens(d) /\ c.nr # "dup2" => fds[r] = 0
      /\ Opens(d) /\ c.nr \in {"open", "openat"} => fds'[r] # 0 /\ file'[fds'[r]] = c.path
      /\ Opens(d) /\ c.nr \in {"dup", "dup2"} =>
            c.fd \in Fd /\ fds[c.fd] # 0 /\ fds'[c.fd] = fds[c.fd] /\ fds'[r] = fds[c.fd]
      /\ Opens(d) /\ c.nr = "dup2" => r = c.new
      /\ Closes(d) => c.fd \in Fd /\ fds'[c.fd] = 0
  BY <1>2 DEF Effect
<1> HIDE DEF d
<1>5. ~odd /\ ~Overlaps(t, d)
  BY <1>4
<1>6. /\ \A u \in Threads : pc[u] = "exit" => Between(ctx[u])
      /\ \A u, v \in Threads : u # v /\ pc[u] = "exit" /\ pc[v] = "exit" =>
             Core(ctx[u]) \cap Core(ctx[v]) \cap Fd = {}
      /\ \A f \in Fd : \/ Known(f)
                       \/ \E u \in Threads : pc[u] = "exit" /\ Alters(ctx[u], f)
  BY <1>5 DEF FdInv
<1>7. /\ pc'[t] = "exit" /\ ctx'[t] = d
      /\ \A u \in Threads \ {t} : pc'[u] = pc[u] /\ ctx'[u] = ctx[u]
  BY <1>4 DEF IoType
<1>8. \A u \in Threads : pc[u] = "exit" => u # t /\ Core(d) \cap Core(ctx[u]) \cap Fd = {}
  <2> SUFFICES ASSUME NEW u \in Threads, pc[u] = "exit"
               PROVE  u # t /\ Core(d) \cap Core(ctx[u]) \cap Fd = {}
    OBVIOUS
  <2>1. u # t
    BY <1>1
  <2> QED BY <1>5, <2>1, CoresApart
<1>9. \A f \in Fd : Alters(d, f) => f \in Core(d)
  BY <1>3, <1>e DEF Alters, Opens, Closes, Core
<1>10. \A f \in Fd \cap Core(d) : Known(f)
  <2> SUFFICES ASSUME NEW f \in Fd \cap Core(d), NEW u \in Threads, pc[u] = "exit", Alters(ctx[u], f)
               PROVE  FALSE
    BY <1>6
  <2>1. f \in Core(ctx[u])
    BY <1>6, AltersCore
  <2> QED BY <1>8, <2>1
<1>11. fds' \in [Fd -> Nat] /\ fds \in [Fd -> Nat]
  <2>1. fds' \in [Fd -> 0 .. Len(pos')] /\ pos' \in Seq(Nat)
    BY <1>1, KernelType
  <2> QED BY <2>1 DEF IoType
<1>12. \A f \in Fd : fds'[f] = fds[f] => (Source(f)' <=> Source(f))
  BY <1>1, <1>e, <1>11, SourceKept
<1>13. \A f \in Fd : fds'[f] = fds[f] /\ Known(f) => Known(f)'
  BY <1>1, <1>12 DEF Known, Followed
<1>14. \A u \in Threads \ {t} : pc[u] = "exit" => Between(ctx[u])'
  <2> SUFFICES ASSUME NEW u \in Threads \ {t}, pc[u] = "exit"
               PROVE  Between(ctx[u])'
    OBVIOUS
  <2>1. \A f \in Core(ctx[u]) \cap Fd : fds'[f] = fds[f] /\ (Source(f)' <=> Source(f))
    BY <1>8, <1>9, <1>12, <1>e
  <2>2. PICK k \in Calls : k = ctx[u]
    BY DEF IoType
  <2>3. Between(k) /\ \A f \in Core(k) \cap Fd : fds'[f] = fds[f] /\ (Source(f)' <=> Source(f))
    BY <1>6, <2>1, <2>2
  <2>4. ctx'[u] = k
    BY <1>7, <2>2
  <2>5. Between(k)'
    BY <1>1, <2>3, BetweenKept
  <2> QED BY <2>4, <2>5
<1>15. Between(ctx[t])'
  <2>1. PICK k \in Calls : k = d
    <3>1. d \in Calls
      BY <1>1 DEF d, Calls
    <3> QED BY <3>1
  <2>2. Opens(k) => r \in Core(k)
    BY <1>3, <1>e, <2>1 DEF Core, Opens
  <2>3. Opens(k) /\ k.nr # "dup2" /\ r \in Followed' => r \notin fdset'
    <3>1. Opens(k) /\ k.nr # "dup2" => Known(r) /\ ~Source(r)
      BY <1>3, <1>e, <1>10, <2>1, <2>2 DEF Source, Open
    <3> QED BY <1>1, <3>1 DEF Known, Followed
  <2>4. Opens(k) /\ k.nr \in {"open", "openat"} => (Source(k.ret)' <=> k.path = "input")
    <3>1. "input" \in Tracked' /\ "other" \notin Tracked'
      BY DEF Tracked
    <3>2. Opens(k) /\ k.nr \in {"open", "openat"} => Open(k.ret)' /\ file'[fds'[k.ret]] = k.path
      BY <1>3, <1>11, <1>e, <2>1 DEF Open
    <3> QED BY <1>3, <2>1, <3>1, <3>2 DEF Source
  <2>5. Opens(k) /\ k.nr \in {"dup", "dup2"} => Known(k.fd)'
    <3>1. k.fd \in Core(k)
      BY DEF Core
    <3> QED BY <1>3, <1>10, <1>13, <1>e, <2>1, <3>1
  <2>6. Between(k)'
    BY <1>3, <1>e, <2>1, <2>3, <2>4, <2>5 DEF Between, Opens, Closes
  <2> QED BY <1>7, <2>1, <2>6
<1>16. ASSUME NEW f \in Fd
       PROVE  Known(f)' \/ \E u \in Threads : pc'[u] = "exit" /\ Alters(ctx'[u], f)
  <2>1. CASE Alters(d, f)
    BY <1>7, <2>1
  <2>2. CASE \E u \in Threads : pc[u] = "exit" /\ Alters(ctx[u], f)
    BY <1>7, <1>8, <2>2
  <2>3. CASE ~Alters(d, f) /\ Known(f)
    BY <1>13, <1>e, <2>3
  <2> QED BY <1>6, <2>1, <2>2, <2>3
<1>17. \A u \in Threads : pc'[u] = "exit" => Between(ctx[u])'
  BY <1>7, <1>14, <1>15
<1>18. \A u, v \in Threads : u # v /\ pc'[u] = "exit" /\ pc'[v] = "exit" =>
             Core(ctx'[u]) \cap Core(ctx'[v]) \cap Fd = {}
  <2> SUFFICES ASSUME NEW u \in Threads, NEW v \in Threads, u # v, pc'[u] = "exit", pc'[v] = "exit"
               PROVE  Core(ctx'[u]) \cap Core(ctx'[v]) \cap Fd = {}
    OBVIOUS
  <2>1. CASE u # t /\ v # t
    BY <1>6, <1>7, <2>1
  <2>2. CASE u = t
    BY <1>7, <1>8, <2>2
  <2>3. CASE v = t
    BY <1>7, <1>8, <2>3
  <2> QED BY <2>1, <2>2, <2>3
<1> QED BY <1>16, <1>17, <1>18 DEF FdInv

(* What a callback records of the descriptor f.                            *)
Records(c, s, f) ==
    /\ ~Alters(c, f) => (f \in s <=> f \in fdset)
    /\ Opens(c) /\ f = c.ret =>
          /\ c.nr \in {"open", "openat"} => (f \in s <=> f \in fdset \/ c.path = "input")
          /\ c.nr \in {"dup", "dup2"} =>
                IF tool = "mytool" THEN f \in s <=> f \in fdset
                ELSE f \in s <=> f \in fdset \/ is_fuzzing_fd(c.fd)
    /\ Closes(c) /\ f = c.fd => f \notin s

LEMMA MyRecords ==
    ASSUME IoType, NEW c \in Calls, NEW t \in Threads, NEW f \in Fd, tool = "mytool"
    PROVE  Records(c, MyHook(c, t).set, f)
PROOF
<1>1. f \in Int /\ f >= 0 /\ c.ret \in Int
  BY InputAssumption, CallNumbers
<1>2. Nothing.set = fdset /\ \A S : [Nothing EXCEPT !.set = S].set = S
  BY DEF Nothing, Result
<1>3. \A w : [Nothing EXCEPT !.writes = w].set = fdset
  BY DEF Nothing, Result
<1>4. \A o, w : Result(fdset, o, w).set = fdset
  BY DEF Result
<1>5. CASE c.nr = "open"
  <2>1. MyHook(c, t).set = IF c.ret >= 0 /\ c.path = "input" THEN fdset \cup {c.ret} ELSE fdset
    BY <1>2, <1>5 DEF MyHook, my_open, Nothing, Result
  <2> QED BY <1>1, <1>5, <2>1 DEF Records, Alters, Opens, Closes
<1>6. CASE c.nr = "openat"
  <2>1. MyHook(c, t).set = IF c.path = "input" THEN fdset \cup {c.ret} ELSE fdset
    BY <1>2, <1>6 DEF MyHook, my_openat, Nothing, Result
  <2> QED BY <1>1, <1>6, <2>1 DEF Records, Alters, Opens, Closes
<1>7. CASE c.nr = "close"
  <2>1. MyHook(c, t).set = IF c.ret < 0 THEN fdset ELSE fdset \ {c.fd}
    BY <1>2, <1>7 DEF MyHook, my_close, Nothing, Result
  <2> QED BY <1>1, <1>7, <2>1 DEF Records, Alters, Opens, Closes
<1>8. CASE c.nr \notin {"open", "openat", "close"}
  <2>1. MyHook(c, t).set = fdset
    <3>1. my_pread64(c, t).set = fdset /\ my_readv(c, t).set = fdset /\ my_mmap(c).set = fdset
      BY <1>2, <1>3 DEF my_pread64, my_readv, my_mmap
    <3>2. my_read(c, t).set = fdset
      BY <1>1, <1>2, <1>3, <1>4 DEF my_read
    <3> QED BY <1>2, <1>8, <3>1, <3>2 DEF MyHook
  <2> QED BY <1>8, <2>1 DEF Records, Alters, Opens, Closes
<1> QED BY <1>5, <1>6, <1>7, <1>8

LEMMA FileRecords ==
    ASSUME IoType, NEW c \in Calls, NEW t \in Threads, NEW f \in Fd \ {0}, tool # "mytool",
           Between(c)
    PROVE  Records(c, FileHook(c, t).set, f)
PROOF
<1>1. f \in Int /\ f > 0 /\ c.ret \in Int /\ c.new \in Int
  BY InputAssumption, CallNumbers
<1>2. Nothing.set = fdset /\ \A S : [Nothing EXCEPT !.set = S].set = S
  BY DEF Nothing, Result
<1>3. \A w : [Nothing EXCEPT !.writes = w].set = fdset
  BY DEF Nothing, Result
<1>4. \A o, w : Result(fdset, o, w).set = fdset
  BY DEF Result
<1>a. \A g : add_fuzzing_fd(g).set = IF g > 0 THEN fdset \cup {g} ELSE fdset
  BY DEF add_fuzzing_fd, Nothing, Result
<1>5. CASE c.nr = "open"
  <2>1. FileHook(c, t).set = IF c.ret > 0 /\ c.path = "input" THEN fdset \cup {c.ret} ELSE fdset
    BY <1>1, <1>2, <1>a, <1>5 DEF FileHook, hook_open
  <2> QED BY <1>1, <1>5, <2>1 DEF Records, Alters, Opens, Closes
<1>6. CASE c.nr = "openat"
  <2>1. FileHook(c, t).set = IF c.ret > 0 /\ c.path = "input" THEN fdset \cup {c.ret} ELSE fdset
    BY <1>1, <1>2, <1>a, <1>6 DEF FileHook, hook_openat
  <2> QED BY <1>1, <1>6, <2>1 DEF Records, Alters, Opens, Closes
<1>7. CASE c.nr = "dup"
  <2>1. FileHook(c, t).set = IF c.ret > 0 /\ is_fuzzing_fd(c.fd) THEN fdset \cup {c.ret} ELSE fdset
    BY <1>1, <1>2, <1>a, <1>7 DEF FileHook, hook_dup
  <2> QED BY <1>1, <1>7, <2>1 DEF Records, Alters, Opens, Closes
<1>8. CASE c.nr = "dup2"
  <2>1. FileHook(c, t).set = IF c.ret >= 0 /\ c.new > 0 /\ is_fuzzing_fd(c.fd)
                             THEN fdset \cup {c.new} ELSE fdset
    BY <1>1, <1>2, <1>a, <1>8 DEF FileHook, hook_dup2
  <2>2. c.ret >= 0 => c.ret = c.new
    BY <1>8 DEF Between, Opens
  <2> QED BY <1>1, <1>8, <2>1, <2>2 DEF Records, Alters, Opens, Closes
<1>9. CASE c.nr = "close"
  <2>1. FileHook(c, t).set = IF c.ret < 0 THEN fdset ELSE fdset \ {c.fd}
    BY <1>2, <1>9 DEF FileHook, hook_close, Nothing, Result
  <2> QED BY <1>1, <1>9, <2>1 DEF Records, Alters, Opens, Closes
<1>10. CASE c.nr \notin {"open", "openat", "dup", "dup2", "close"}
  <2>1. FileHook(c, t).set = fdset
    <3>1. hook_pread64(c, t).set = fdset /\ default_readv(c, t).set = fdset
          /\ hook_mmap(c).set = fdset /\ hook_munmap(c).set = fdset
      BY <1>2, <1>3 DEF hook_pread64, default_readv, hook_mmap, hook_munmap
    <3>2. hook_read(c, t).set = fdset
      BY <1>2, <1>3, <1>4 DEF hook_read
    <3> QED BY <1>2, <1>10, <3>1, <3>2 DEF FileHook
  <2> QED BY <1>10, <2>1 DEF Records, Alters, Opens, Closes
<1> QED BY <1>5, <1>6, <1>7, <1>8, <1>9, <1>10

(* Once the callback has run, the descriptor is recorded. *)
LEMMA Recorded ==
    ASSUME IoType, NEW c \in Calls, Between(c), NEW f \in Followed, Alters(c, f), NEW s,
           Records(c, s, f), IF tool = "mytool" THEN ~MyOdd(c) ELSE ~FileOdd(c)
    PROVE  f \in s <=> Source(f)
PROOF
<1>1. CASE Closes(c) /\ f = c.fd
  <2>1. f \notin s /\ fds[f] = 0
    BY <1>1 DEF Records, Between
  <2> QED BY <2>1 DEF Source, Open
<1>2. CASE Opens(c) /\ f = c.ret /\ c.nr \in {"open", "openat"}
  BY <1>2 DEF Records, Between
<1>3. CASE Opens(c) /\ f = c.ret /\ c.nr \in {"dup", "dup2"}
  <2>1. c.fd \in Fd /\ fds[c.fd] # 0 /\ fds[f] = fds[c.fd] /\ Known(c.fd) /\ c.ret >= 0
        /\ (c.nr = "dup" => f \notin fdset) /\ DOMAIN fds = Fd /\ f \in Fd
    BY <1>3 DEF Between, IoType, Opens, Followed
  <2>2. Source(f) <=> Source(c.fd)
    BY <2>1 DEF Source, Open
  <2>3. CASE tool = "mytool"
    <3>1. ~Source(c.fd) /\ f \notin fdset
      BY <1>3, <2>1, <2>3 DEF MyOdd
    <3> QED BY <1>3, <2>2, <2>3, <3>1 DEF Records
  <2>4. CASE tool # "mytool"
    <3>1. f \in s <=> f \in fdset \/ is_fuzzing_fd(c.fd)
      BY <1>3, <2>4 DEF Records
    <3>2. is_fuzzing_fd(c.fd) <=> Source(c.fd)
      BY <2>1, <2>4 DEF is_fuzzing_fd, Known, Followed, FileOdd
    <3>3. f \in fdset => is_fuzzing_fd(c.fd)
      BY <1>3, <2>1, <2>4 DEF FileOdd
    <3> QED BY <2>2, <3>1, <3>2, <3>3
  <2> QED BY <2>3, <2>4
<1> QED BY <1>1, <1>2, <1>3 DEF Alters, Opens

LEMMA ExitFds ==
    ASSUME IoType, FdInv, NEW t \in Threads, sysexit_save(t)
    PROVE  FdInv'
PROOF
<1> SUFFICES ASSUME ~odd' PROVE FdInv'
  BY DEF FdInv
<1>1. PICK c \in Calls : c = ctx[t]
  BY DEF IoType
<1> DEFINE r == IF tool = "mytool" THEN MyHook(c, t) ELSE FileHook(c, t)
<1>2. /\ pc[t] = "exit" /\ fdset' = r.set /\ EndOfCall(t, r.writes = <<>>)
      /\ odd' = (odd \/ IF tool = "mytool" THEN MyOdd(c) ELSE FileOdd(c))
      /\ UNCHANGED <<tool, fds, pos, file, mem, mapped>>
  BY <1>1 DEF sysexit_save
<1>3. ~odd /\ (IF tool = "mytool" THEN ~MyOdd(c) ELSE ~FileOdd(c))
  BY <1>2
<1>4. /\ \A u \in Threads : pc[u] = "exit" => Between(ctx[u])
      /\ \A u, v \in Threads : u # v /\ pc[u] = "exit" /\ pc[v] = "exit" =>
             Core(ctx[u]) \cap Core(ctx[v]) \cap Fd = {}
      /\ \A f \in Fd : \/ Known(f)
                       \/ \E u \in Threads : pc[u] = "exit" /\ Alters(ctx[u], f)
  BY <1>3 DEF FdInv
<1>5. Between(c)
  BY <1>1, <1>2, <1>4
<1>6. \A f \in Followed : Records(c, fdset', f)
  BY <1>2, <1>5, MyRecords, FileRecords DEF Followed
<1> HIDE DEF r
<1>7. \A f \in Followed : IF Alters(c, f) THEN f \in fdset' <=> Source(f)
                           ELSE f \in fdset' <=> f \in fdset
  <2> SUFFICES ASSUME NEW f \in Followed
               PROVE  IF Alters(c, f) THEN f \in fdset' <=> Source(f) ELSE f \in fdset' <=> f \in fdset
    OBVIOUS
  <2>1. CASE Alters(c, f)
    BY <1>3, <1>5, <1>6, <2>1, Recorded
  <2>2. CASE ~Alters(c, f)
    BY <1>6, <2>2 DEF Records
  <2> QED BY <2>1, <2>2
<1>8. /\ pc'[t] # "exit"
      /\ \A u \in Threads \ {t} : pc'[u] = pc[u] /\ ctx'[u] = ctx[u]
  BY <1>2 DEF EndOfCall, IoType
<1>9. \A f : Source(f)' <=> Source(f)
  BY <1>2 DEF Source, Open, Tracked
<1>10. \A u \in Threads : pc'[u] = "exit" => Between(ctx[u])'
  <2> SUFFICES ASSUME NEW u \in Threads, pc'[u] = "exit"
               PROVE  Between(ctx[u])'
    OBVIOUS
  <2>1. u # t /\ pc[u] = "exit" /\ ctx'[u] = ctx[u]
    BY <1>8
  <2>2. PICK k \in Calls : k = ctx[u]
    BY DEF IoType
  <2>3. Between(k) /\ Core(c) \cap Core(k) \cap Fd = {}
    BY <1>1, <1>2, <1>4, <2>1, <2>2
  <2>4. \A f \in Core(k) \cap Fd : ~Alters(c, f)
    BY <1>5, <2>3, AltersCore
  <2>5. \A f \in Core(k) \cap Fd : f \in Followed => (f \in fdset' <=> f \in fdset)
    BY <1>7, <2>4
  <2>6. \A f \in Core(k) \cap Fd : fds'[f] = fds[f] /\ (Source(f)' <=> Source(f))
    BY <1>2, <1>9
  <2>7. Between(k)'
    BY <1>2, <2>3, <2>5, <2>6, BetweenKept
  <2> QED BY <2>1, <2>2, <2>7
<1>11. \A u, v \in Threads : u # v /\ pc'[u] = "exit" /\ pc'[v] = "exit" =>
             Core(ctx'[u]) \cap Core(ctx'[v]) \cap Fd = {}
  BY <1>4, <1>8
<1>12. ASSUME NEW f \in Fd
       PROVE  Known(f)' \/ \E u \in Threads : pc'[u] = "exit" /\ Alters(ctx'[u], f)
  <2>1. CASE Alters(c, f)
    BY <1>2, <1>7, <1>9, <2>1 DEF Known, Followed
  <2>2. CASE ~Alters(c, f) /\ Known(f)
    BY <1>2, <1>7, <1>9, <2>2 DEF Known, Followed
  <2>3. CASE ~Alters(c, f) /\ \E u \in Threads : pc[u] = "exit" /\ Alters(ctx[u], f)
    BY <1>1, <1>8, <2>3
  <2> QED BY <1>4, <2>1, <2>2, <2>3
<1> QED BY <1>10, <1>11, <1>12 DEF FdInv

LEMMA TagsFds ==
    ASSUME IoType, FdInv, NEW t \in Threads, SetTags(t)
    PROVE  FdInv'
PROOF
<1> SUFFICES ASSUME ~odd' PROVE FdInv'
  BY DEF FdInv
<1>1. /\ pc[t] = "tags" /\ EndOfCall(t, todo'[t] = <<>>)
      /\ UNCHANGED <<tool, fdset, stdin_read_off, fds, pos, file, mem, mapped, odd>>
  BY DEF SetTags
<1>2. /\ pc'[t] # "exit"
      /\ \A u \in Threads \ {t} : pc'[u] = pc[u] /\ ctx'[u] = ctx[u]
  BY <1>1 DEF EndOfCall, IoType
<1>3. /\ \A u \in Threads : pc[u] = "exit" => Between(ctx[u])
      /\ \A u, v \in Threads : u # v /\ pc[u] = "exit" /\ pc[v] = "exit" =>
             Core(ctx[u]) \cap Core(ctx[v]) \cap Fd = {}
      /\ \A f \in Fd : \/ Known(f)
                       \/ \E u \in Threads : pc[u] = "exit" /\ Alters(ctx[u], f)
  BY <1>1 DEF FdInv
<1>4. \A f : (Source(f)' <=> Source(f)) /\ (Known(f)' <=> Known(f))
  BY <1>1 DEF Source, Open, Tracked, Known, Followed
<1>5. \A u \in Threads : pc'[u] = "exit" => Between(ctx[u])'
  <2> SUFFICES ASSUME NEW u \in Threads, pc'[u] = "exit"
               PROVE  Between(ctx[u])'
    OBVIOUS
  <2>1. PICK k \in Calls : k = ctx[u]
    BY DEF IoType
  <2>2. Between(k) /\ ctx'[u] = k
    BY <1>2, <1>3, <2>1
  <2>3. Between(k)'
    BY <1>1, <1>4, <2>2, BetweenKept
  <2> QED BY <2>2, <2>3
<1>6. \A u, v \in Threads : u # v /\ pc'[u] = "exit" /\ pc'[v] = "exit" =>
             Core(ctx'[u]) \cap Core(ctx'[v]) \cap Fd = {}
  BY <1>2, <1>3
<1>7. \A f \in Fd : Known(f)' \/ \E u \in Threads : pc'[u] = "exit" /\ Alters(ctx'[u], f)
  BY <1>1, <1>2, <1>3, <1>4
<1> QED BY <1>5, <1>6, <1>7 DEF FdInv

LEMMA FdsInitial ==
    ASSUME Init
    PROVE  FdInv
PROOF
<1>1. /\ \A f \in Fd : f # 0 => fds[f] = 0
      /\ fds[0] = 1 /\ file[1] = "stdin" /\ fdset = {}
  BY InputAssumption DEF Init
<1>2. \A f \in Fd : Known(f)
  BY <1>1 DEF Known, Followed, Source, Open, Tracked
<1>3. \A t \in Threads : pc[t] = "run"
  BY DEF Init
<1> QED BY <1>2, <1>3 DEF FdInv

LEMMA FdStep ==
    ASSUME IoType, Sound, FdInv, [Next]_vars
    PROVE  IoType' /\ Sound' /\ FdInv'
PROOF
<1>1. IoType' /\ Sound'
  BY StepKeeps
<1>2. CASE UNCHANGED vars
  <2>1. FdInv'
    BY <1>2 DEF FdInv, Between, Known, Followed, Source, Open, Tracked, Alters, Opens, Closes, Core, vars, iovars
  <2> QED BY <1>1, <2>1
<1>3. ASSUME NEW t \in Threads, NEW c \in Syscalls, sysenter_save(t, c)
      PROVE  FdInv'
  BY <1>3, EnterFds
<1>4. ASSUME NEW t \in Threads, sysexit_save(t) PROVE FdInv'
  BY <1>4, ExitFds
<1>5. ASSUME NEW t \in Threads, SetTags(t) PROVE FdInv'
  BY <1>5, TagsFds
<1> QED BY <1>1, <1>2, <1>3, <1>4, <1>5 DEF Next

(* Between calls the descriptors in fdset of mytool, or fuzzing_fd_set of  *)
(* the library, are the ones open on the input, for any sequence of opens, *)
(* closes and duplications by any number of threads, in which nothing odd  *)
(* happened.                                                               *)
THEOREM DescriptorsExact == Spec => []FdsExact
PROOF
<1>1. Init => IoType /\ Sound /\ FdInv
  BY MapInitial, FdsInitial
<1>2. IoType /\ Sound /\ FdInv /\ [Next]_vars => IoType' /\ Sound' /\ FdInv'
  BY FdStep
<1>3. FdInv => FdsExact
  <2> SUFFICES ASSUME FdInv, ~odd, Quiet
               PROVE  fdset \cap (Fd \ {0}) = {f \in Fd \ {0} : Source(f)}
    BY DEF FdsExact
  <2>1. \A f \in Fd : Known(f)
    BY DEF FdInv, Quiet
  <2> QED BY <2>1 DEF Known, Followed
<1> QED BY <1>1, <1>2, <1>3, PTL DEF Spec

-----------------------------------------------------------------------------
(* The tags.                                                               *)

(* The bytes of a buffer, and the page that a mapping fills.               *)
Buffer(t) == Buf(t) .. Buf(t) + Count - 1
Page == MapAddr .. MapAddr + PAGE_SIZE - 1
Reads(c) == c.nr \in {"read", "readv", "pread64"} /\ c.ret > 0
Remaps(c) == Maps(c) /\ c.ret >= 0

(* A tag is right at a when it is the one the byte should have; memory     *)
(* that is not mapped has no tags, except that mytool does not clear them. *)
Right(a, tag) == IF a \in Page /\ ~mapped THEN tool = "mytool" \/ tag = None ELSE tag = Want(a)

(* What the kernel wrote or unmapped in the call c of t, and where the     *)
(* callback of c may write tags.                                           *)
Filled(t, c) == IF Reads(c) THEN Buf(t) .. Buf(t) + c.ret - 1 ELSE {}
Wrote(t, c) == Filled(t, c) \cup (IF Remaps(c) THEN Page ELSE {})
Place(t, c) == Buffer(t) \cup (IF Maps(c) THEN Area ELSE {})
Listed(w, a) == \E i \in 1 .. Len(w) : w[i][1] = a
(* The tag of a is still to be written by t. *)
Owes(t, a) == \/ pc[t] = "exit" /\ a \in Wrote(t, ctx[t])
              \/ pc[t] = "tags" /\ Listed(todo[t], a)

(* What the kernel put into memory, until the callback has run. *)
Start(c) == IF c.nr = "pread64" THEN c.off ELSE pos[fds[c.fd]] - c.ret
ReadBytes(t, c) ==
    Reads(c) =>
       /\ c.fd \in Fd /\ fds[c.fd] # 0
       /\ c.ret <= Count /\ Start(c) >= 0 /\ Start(c) + c.ret <= FileLen
       /\ \A a \in Addr \cap Filled(t, c) :
             mem[a] = <<file[fds[c.fd]], Start(c) + a - Buf(t)>>
MapBytes(c) ==
    /\ c.nr = "mmap" /\ c.ret >= 0 =>
          /\ c.ret = MapAddr /\ mapped
          /\ c.fd # -1 => c.fd \in Fd /\ fds[c.fd] # 0
          /\ \A a \in Addr \cap Page :
                mem[a] = IF c.fd = -1 \/ c.off + a - MapAddr >= FileLen THEN Foreign
                         ELSE <<file[fds[c.fd]], c.off + a - MapAddr>>
    /\ c.nr = "munmap" /\ c.ret >= 0 => ~mapped
    /\ Maps(c) => c.ret >= 0 \/ c.ret \in {-EPERM, -EOTHER}
(* The library has cleared the tags of the page before it is mapped again. *)
MapClean(c) ==
    c.nr = "mmap" /\ c.ret >= 0 /\ tool # "mytool" => \A a \in Addr \cap Page : flat[a] = None

Shape(c) ==
    /\ c.nr = "mmap" => c.len \in {1, PAGE_SIZE}
    /\ c.nr = "munmap" => c.addr = MapAddr /\ c.len = PAGE_SIZE

(* What holds whatever the callbacks do. *)
DataInv ==
    /\ mem \in [Addr -> Files \X Nat] /\ mapped \in BOOLEAN
    /\ \A a \in Addr \cap (Area \ Page) : mem[a] = Foreign
    /\ \A i \in 1 .. Len(pos) : pos[i] <= FileLen
    /\ tool # "mytool" => -1 \notin fdset
    /\ \A t \in Threads : pc[t] # "run" => Shape(ctx[t])

(* Every tag is right or still to be written, what is to be written is     *)
(* right, and at most one thread changes the mappings.                     *)
TagInv ==
    ~odd =>
       /\ \A a \in Addr : Right(a, flat[a]) \/ \E t \in Threads : Owes(t, a)
       /\ \A t \in Threads : pc[t] = "tags" =>
             \A i \in 1 .. Len(todo[t]) : /\ Right(todo[t][i][1], todo[t][i][2])
                                          /\ todo[t][i][1] \in Place(t, ctx[t])
       /\ \A t \in Threads : pc[t] = "exit" =>
             ReadBytes(t, ctx[t]) /\ MapBytes(ctx[t]) /\ MapClean(ctx[t])
       /\ \A t, u \in Threads : t # u /\ pc[t] # "run" /\ pc[u] # "run" =>
             ~(Maps(ctx[t]) /\ Maps(ctx[u]))

(* Buffers and mappings are apart. *)
LEMMA Apart ==
    /\ \A t, u \in Threads : t # u => Buffer(t) \cap Buffer(u) = {}
    /\ \A t \in Threads : Buffer(t) \cap Area = {}
    /\ Page \subseteq Area
PROOF
<1>1. /\ MapAddr \in Nat /\ PAGE_SIZE \in Nat \ {0} /\ Count \in Nat
      /\ \A t \in Threads : Buf(t) \in Nat
  BY MapAssumption, InputAssumption
<1>2. /\ \A t, u \in Threads : t # u => Buf(t) + Count <= Buf(u) \/ Buf(u) + Count <= Buf(t)
      /\ \A t \in Threads : Buf(t) + Count <= MapAddr \/ MapAddr + 2 * PAGE_SIZE <= Buf(t)
  BY LayoutAssumption
<1> QED BY <1>1, <1>2 DEF Buffer, Area, Page

LEMMA SyscallShape ==
    ASSUME NEW c \in Syscalls, NEW r
    PROVE  Shape([c EXCEPT !.ret = r])
PROOF
<1>8. \/ \E n \in {"open", "openat"}, p \in Files \ {"stdin"} : c = Call(n, -1, -1, p, 0, 0, 0)
      \/ \E n \in {"close", "dup", "read", "readv"}, f \in Fd : c = Call(n, f, -1, "other", 0, 0, 0)
      \/ \E f, g \in Fd : c = Call("dup2", f, g, "other", 0, 0, 0)
      \/ \E f \in Fd : c = Call("pread64", f, -1, "other", 1, 0, 0)
      \/ \E f \in Fd \cup {-1}, n \in {1, PAGE_SIZE}, o \in {0, PAGE_SIZE}, a \in {0, MapAddr},
            g \in MapFlags : c = MapCall(f, o, n, a, g)
      \/ c = Call("munmap", -1, -1, "other", 0, PAGE_SIZE, MapAddr)
  BY DEF Syscalls
<1> USE DEF Call, Shape, MapCall
<1>1. CASE \E n \in {"open", "openat"}, p \in Files \ {"stdin"} : c = Call(n, -1, -1, p, 0, 0, 0)
  BY <1>1
<1>2. CASE \E n \in {"close", "dup", "read", "readv"}, f \in Fd : c = Call(n, f, -1, "other", 0, 0, 0)
  BY <1>2
<1>3. CASE \E f, g \in Fd : c = Call("dup2", f, g, "other", 0, 0, 0)
  BY <1>3
<1>4. CASE \E f \in Fd : c = Call("pread64", f, -1, "other", 1, 0, 0)
  BY <1>4
<1>5. CASE \E f \in Fd \cup {-1}, n \in {1, PAGE_SIZE}, o \in {0, PAGE_SIZE}, a \in {0, MapAddr},
            g \in MapFlags : c = MapCall(f, o, n, a, g)
  BY <1>5
<1>6. CASE c = Call("munmap", -1, -1, "other", 0, PAGE_SIZE, MapAddr)
  BY <1>6
<1> QED BY <1>1, <1>2, <1>3, <1>4, <1>5, <1>6, <1>8

(* What the kernel does to memory and to the positions of files in the     *)
(* call that d becomes once it has returned.                               *)
Data(t, d) ==
    /\ \A i \in 1 .. Len(pos') : pos'[i] <= FileLen
    /\ \A i \in 1 .. Len(pos) : pos'[i] # pos[i] => Reads(d) /\ d.fd \in Fd /\ i = fds[d.fd]
    /\ mem' \in [Addr -> Files \X Nat] /\ mapped' \in BOOLEAN
    /\ \A a \in Addr : mem'[a] # mem[a] =>
          a \in Filled(t, d) \/ (d.nr = "mmap" /\ d.ret >= 0 /\ a \in Page)
    /\ mapped' # mapped => Remaps(d)
    /\ d.nr = "mmap" /\ d.ret >= 0 => ~mapped
    /\ ReadBytes(t, d)' /\ MapBytes(d)'

LEMMA KernelData ==
    ASSUME IoType, DataInv, NEW t \in Threads, NEW c \in Syscalls, Kernel(t, c)
    PROVE  \E r \in Int : Return(t, c, r) /\ Data(t, [c EXCEPT !.ret = r])
PROOF
<1>1. /\ pos \in Seq(Nat) /\ file \in Seq(Files) /\ Len(file) = Len(pos)
      /\ fds \in [Fd -> 0 .. Len(pos)] /\ Len(pos) \in Nat
  BY DEF IoType
<1>2. /\ mem \in [Addr -> Files \X Nat] /\ mapped \in BOOLEAN
      /\ \A i \in 1 .. Len(pos) : pos[i] <= FileLen
  BY DEF DataInv
<1>3. /\ Fd \subseteq Nat /\ MapAddr \in Nat /\ FileLen \in Nat /\ Count \in Nat \ {0} /\ c \in Calls
      /\ c.path \in Files /\ Buf(t) \in Nat /\ PAGE_SIZE \in Nat \ {0}
      /\ EPERM = 1 /\ EOTHER = 2
  BY SyscallType, MapAssumption, InputAssumption DEF Calls, EPERM, EOTHER
<1>4. c.off \in Nat /\ c.fd \in Fd \cup {-1} /\ Shape(c)
  <2>1. Shape([c EXCEPT !.ret = c.ret])
    BY SyscallShape
  <2>2. [c EXCEPT !.ret = c.ret] = c
    BY <1>3 DEF Calls
  <2> QED BY <1>3, <2>1, <2>2 DEF Calls
<1>5. Free # {} => LowestFree \in Fd
  BY LowestType DEF Free
<1>d. \A r \in Int : /\ [c EXCEPT !.ret = r].ret = r /\ [c EXCEPT !.ret = r].nr = c.nr
                     /\ [c EXCEPT !.ret = r].fd = c.fd /\ [c EXCEPT !.ret = r].off = c.off
  BY <1>3 DEF Calls
<1> DEFINE Does(r) == Return(t, c, r) /\ Data(t, [c EXCEPT !.ret = r])
           Still == /\ mem' = mem /\ mapped' = mapped
                    /\ \A i \in 1 .. Len(pos) : pos'[i] = pos[i]
                    /\ \A i \in 1 .. Len(pos') : pos'[i] <= FileLen
           Keeps(r) == \/ c.nr \in {"open", "openat", "close", "dup", "dup2"}
                       \/ r < 0 /\ (Maps(c) => r \in {-EPERM, -EOTHER})
<1> SUFFICES \E r \in Int : Does(r)
  OBVIOUS
<1>u. pos' = pos /\ mem' = mem /\ mapped' = mapped => Still
  BY <1>2
(* A call that leaves memory alone. *)
<1>6. ASSUME NEW r \in Int, Return(t, c, r), Still, Keeps(r)
      PROVE  Does(r)
  <2> DEFINE d == [c EXCEPT !.ret = r]
  <2>1. d.ret = r /\ d.nr = c.nr
    BY <1>d
  <2> HIDE DEF d
  <2>2. ~Reads(d) /\ (c.nr \in {"mmap", "munmap"} => r < 0 /\ r \in {-EPERM, -EOTHER})
    BY <1>6, <2>1 DEF Reads, Maps
  <2>3. ReadBytes(t, d)' /\ MapBytes(d)'
    BY <2>1, <2>2 DEF ReadBytes, MapBytes, Maps
  <2>4. Data(t, d)
    BY <1>2, <1>6, <2>1, <2>2, <2>3 DEF Data
  <2> QED BY <1>6, <2>4 DEF d
<1> HIDE DEF Does, Still
<1>7. CASE KOpen(t, c)
  <2>f. LowestFree \in Fd
    BY <1>5, <1>7 DEF KOpen
  <2>0. LowestFree \in Int
    BY <1>3, <2>f
  <2>1. /\ Return(t, c, LowestFree) /\ pos' = Append(pos, 0)
        /\ mem' = mem /\ mapped' = mapped /\ c.nr \in {"open", "openat"}
    BY <1>7 DEF KOpen
  <2>2. /\ pos' \in Seq(Nat) /\ Len(pos') = Len(pos) + 1 /\ pos'[Len(pos) + 1] = 0
        /\ \A i \in 1 .. Len(pos) : pos'[i] = pos[i]
    BY <1>1, <2>1
  <2>3. ASSUME NEW i \in 1 .. Len(pos') PROVE pos'[i] <= FileLen
    <3>1. i = Len(pos) + 1 \/ i \in 1 .. Len(pos)
      BY <1>1, <2>2
    <3> QED BY <1>2, <1>3, <2>2, <3>1
  <2>4. Still
    BY <2>1, <2>2, <2>3 DEF Still
  <2> QED BY <1>6, <2>0, <2>1, <2>4
<1>8. CASE KDup(t, c)
  <2> DEFINE new == IF c.nr = "dup" THEN LowestFree ELSE c.new
  <2>1. /\ new \in Int /\ Return(t, c, new) /\ pos' = pos /\ mem' = mem /\ mapped' = mapped
        /\ c.nr \in {"dup", "dup2"}
    BY <1>3, <1>5, <1>8, SyscallType DEF KDup
  <2> HIDE DEF new
  <2> QED BY <1>6, <1>u, <2>1
<1>9. CASE KClose(t, c)
  <2>1. /\ Return(t, c, 0) /\ pos' = pos /\ mem' = mem /\ mapped' = mapped /\ c.nr = "close"
    BY <1>9 DEF KClose
  <2> QED BY <1>6, <1>u, <2>1
<1>10. CASE KFail(t, c)
  <2>1. PICK e \in IF Maps(c) THEN {EPERM, EOTHER} ELSE {EOTHER} : Return(t, c, -e)
    BY <1>10 DEF KFail
  <2>2. -e \in Int /\ -e < 0 /\ pos' = pos /\ mem' = mem /\ mapped' = mapped
    BY <1>3, <1>10, <2>1 DEF KFail
  <2> DEFINE r == -e
  <2>3. r \in Int /\ r < 0 /\ Return(t, c, r) /\ Still /\ (Maps(c) => r \in {-EPERM, -EOTHER})
    BY <1>u, <2>1, <2>2
  <2> HIDE DEF r
  <2> QED BY <1>6, <2>3
<1>11. CASE KMunmap(t, c)
  <2> DEFINE d == [c EXCEPT !.ret = 0]
  <2>1. /\ Return(t, c, 0) /\ pos' = pos /\ mem' = mem /\ mapped' = FALSE /\ c.nr = "munmap"
        /\ d.ret = 0 /\ d.nr = "munmap"
    BY <1>d, <1>11 DEF KMunmap
  <2> HIDE DEF d
  <2>2. ReadBytes(t, d)' /\ MapBytes(d)' /\ Remaps(d)
    BY <2>1 DEF ReadBytes, Reads, MapBytes, Remaps, Maps
  <2>3. Data(t, d)
    BY <1>1, <1>2, <2>1, <2>2 DEF Data
  <2> QED BY <2>1, <2>3 DEF d, Does
<1>12. CASE KMmap(t, c)
  <2> DEFINE d == [c EXCEPT !.ret = MapAddr]
             n == PAGE_SIZE * ((c.len + PAGE_SIZE - 1) \div PAGE_SIZE)
             e == IF Open(c.fd) THEN fds[c.fd] ELSE 0
  <2>1. /\ Return(t, c, MapAddr) /\ pos' = pos /\ fds' = fds /\ file' = file /\ mapped' = TRUE /\ ~mapped
        /\ c.nr = "mmap" /\ (Open(c.fd) \/ c.fd = -1)
        /\ d.ret = MapAddr /\ d.nr = "mmap" /\ d.fd = c.fd /\ d.off = c.off
    BY <1>d, <1>3, <1>12 DEF KMmap
  <2>2. mem' = [a \in Addr |-> IF a \notin MapAddr .. MapAddr + n - 1 THEN mem[a]
                               ELSE IF e = 0 \/ c.off + a - MapAddr >= FileLen THEN Foreign
                               ELSE <<file[e], c.off + a - MapAddr>>]
    BY <1>12 DEF KMmap
  <2>3. n = PAGE_SIZE
    <3>1. c.len \in {1, PAGE_SIZE}
      BY <1>4, <2>1 DEF Shape
    <3>2. (c.len + PAGE_SIZE - 1) \div PAGE_SIZE = 1
      <4>1. c.len + PAGE_SIZE - 1 \in PAGE_SIZE .. PAGE_SIZE + PAGE_SIZE - 1
        BY <1>3, <3>1
      <4> DEFINE x == c.len + PAGE_SIZE - 1
      <4>2. x \in PAGE_SIZE .. PAGE_SIZE + PAGE_SIZE - 1
        BY <4>1
      <4> HIDE DEF x
      <4>3. x \div PAGE_SIZE = 1
        BY <1>3, <4>2, DivMono, DivMod
      <4> QED BY <4>3 DEF x
    <3> QED BY <1>3, <3>2
  <2>4. e \in 0 .. Len(pos) /\ (e # 0 => file[e] \in Files)
    BY <1>1 DEF Open
  <2>5. e = 0 <=> c.fd = -1
    BY <1>1, <1>3, <2>1 DEF Open
  <2>6. c.fd # -1 => c.fd \in Fd /\ fds[c.fd] # 0 /\ e = fds[c.fd]
    BY <1>1, <2>1 DEF Open
  <2> HIDE DEF d, n, e
  <2>7. mem' = [a \in Addr |-> IF a \notin Page THEN mem[a]
                               ELSE IF e = 0 \/ c.off + a - MapAddr >= FileLen THEN Foreign
                               ELSE <<file[e], c.off + a - MapAddr>>]
    BY <2>2, <2>3 DEF Page
  <2>8. mem' \in [Addr -> Files \X Nat]
    <3>1. Foreign \in Files \X Nat
      BY DEF Foreign, Files
    <3>2. \A a \in Addr : a \in Page => c.off + a - MapAddr \in Nat
      BY <1>3, <1>4 DEF Page, Addr
    <3>3. \A a \in Addr : mem[a] \in Files \X Nat
      BY <1>2
    <3> QED BY <2>4, <2>7, <3>1, <3>2, <3>3
  <2>9. ReadBytes(t, d)'
    BY <2>1 DEF ReadBytes, Reads
  <2>10. MapBytes(d)'
    <3>1. \A a \in Addr \cap Page :
             mem'[a] = IF c.fd = -1 \/ c.off + a - MapAddr >= FileLen THEN Foreign
                       ELSE <<file[fds[c.fd]], c.off + a - MapAddr>>
      BY <2>5, <2>6, <2>7
    <3> QED BY <1>3, <2>1, <2>6, <3>1 DEF MapBytes
  <2>11. \A a \in Addr : mem'[a] # mem[a] => a \in Page
    BY <2>7
  <2>12. Data(t, d)
    <3>1. /\ \A i \in 1 .. Len(pos') : pos'[i] <= FileLen
          /\ \A i \in 1 .. Len(pos) : pos'[i] = pos[i]
      BY <1>2, <2>1
    <3>2. mapped' \in BOOLEAN /\ Remaps(d) /\ d.nr = "mmap" /\ d.ret >= 0 /\ ~mapped
      BY <1>3, <2>1 DEF Remaps, Maps
    <3> QED BY <2>8, <2>9, <2>10, <2>11, <3>1, <3>2 DEF Data
  <2> QED BY <1>3, <2>1, <2>12 DEF d, Does
<1>13. CASE KRead(t, c)
  <2> DEFINE i == fds[c.fd]
             p == IF c.nr = "pread64" THEN c.off ELSE pos[i]
  <2>1. /\ c.fd \in Fd /\ i \in 1 .. Len(pos) /\ i # 0 /\ fds' = fds /\ file' = file /\ mapped' = mapped
        /\ c.nr \in {"read", "readv", "pread64"}
    BY <1>1, <1>13 DEF KRead, Open
  <2> HIDE DEF i
  <2>2. p \in Nat /\ (c.nr # "pread64" => p = pos[i] /\ p <= FileLen) /\ (c.nr = "pread64" => p = c.off)
    BY <1>1, <1>2, <1>4, <2>1
  <2>3. PICK n \in {Least(Count, Avail(p)), Least(1, Avail(p))} :
           /\ mem' = Fill(Buf(t), n, file[i], p)
           /\ pos' = IF c.nr = "pread64" THEN pos ELSE [pos EXCEPT ![i] = @ + n]
           /\ Return(t, c, n)
    BY <1>13 DEF KRead, i
  <2> DEFINE d == [c EXCEPT !.ret = n]
  <2>4. file[i] \in Files
    BY <1>1, <2>1
  <2> HIDE DEF p
  <2>5. n \in Nat /\ n <= Count /\ (n > 0 => p + n <= FileLen)
    <3>1. Avail(p) \in Nat /\ (Avail(p) > 0 => p + Avail(p) = FileLen)
      BY <1>3, <2>2 DEF Avail
    <3> QED BY <1>3, <2>2, <3>1 DEF Least
  <2>6. d.ret = n /\ d.nr = c.nr /\ d.fd = c.fd /\ d.off = c.off
    BY <1>d, <2>5
  <2> HIDE DEF d
  <2>7. Reads(d) <=> n > 0
    BY <2>1, <2>6 DEF Reads
  <2>8. mem' = [b \in Addr |-> IF b \in Buf(t) .. Buf(t) + n - 1 THEN <<file[i], p + b - Buf(t)>> ELSE mem[b]]
    BY <2>3 DEF Fill
  <2>9. mem' \in [Addr -> Files \X Nat]
    <3>1. \A b \in Addr : b \in Buf(t) .. Buf(t) + n - 1 => p + b - Buf(t) \in Nat
      BY <1>3, <2>2, <2>5 DEF Addr
    <3>2. \A b \in Addr : mem[b] \in Files \X Nat
      BY <1>2
    <3> QED BY <2>4, <2>8, <3>1, <3>2
  <2>10. \A b \in Addr : mem'[b] # mem[b] => b \in Filled(t, d)
    <3>1. ASSUME NEW b \in Addr, mem'[b] # mem[b] PROVE b \in Buf(t) .. Buf(t) + n - 1
      BY <2>8, <3>1
    <3>2. ASSUME NEW b, b \in Buf(t) .. Buf(t) + n - 1 PROVE n > 0
      BY <1>3, <2>5, <3>2
    <3> QED BY <2>6, <2>7, <3>1, <3>2 DEF Filled
  <2>11. /\ \A k \in 1 .. Len(pos) : k # i => pos'[k] = pos[k]
         /\ c.nr # "pread64" => pos'[i] = p + n
         /\ c.nr = "pread64" => pos' = pos
         /\ Len(pos') = Len(pos)
    BY <1>1, <2>1, <2>2, <2>3, <2>5
  <2>12. \A k \in 1 .. Len(pos') : pos'[k] <= FileLen
    <3>1. c.nr # "pread64" => p + n <= FileLen
      BY <1>3, <2>2, <2>5
    <3> QED BY <1>2, <2>11, <3>1
  <2>13. \A k \in 1 .. Len(pos) : pos'[k] # pos[k] => Reads(d) /\ d.fd \in Fd /\ k = fds[d.fd]
    <3>1. ASSUME NEW k \in 1 .. Len(pos), pos'[k] # pos[k] PROVE k = i /\ n > 0
      <4>1. k = i /\ c.nr # "pread64" /\ pos[k] = p
        BY <2>2, <2>11, <3>1
      <4> QED BY <2>2, <2>5, <2>11, <3>1, <4>1
    <3> QED BY <2>1, <2>6, <2>7, <3>1 DEF i
  <2>14. ReadBytes(t, d)'
    <3> SUFFICES ASSUME Reads(d)
                 PROVE  /\ d.fd \in Fd /\ fds'[d.fd] # 0
                        /\ d.ret <= Count /\ Start(d)' >= 0 /\ Start(d)' + d.ret <= FileLen
                        /\ \A a \in Addr \cap Filled(t, d) :
                              mem'[a] = <<file'[fds'[d.fd]], Start(d)' + a - Buf(t)>>
      BY DEF ReadBytes, Reads, Filled
    <3>1. Start(d)' = p
      <4>1. CASE c.nr = "pread64"
        BY <2>2, <2>6, <4>1 DEF Start
      <4>2. CASE c.nr # "pread64"
        <5>1. Start(d)' = pos'[i] - n
          BY <2>1, <2>6, <4>2 DEF Start, i
        <5> QED BY <2>2, <2>5, <2>11, <4>2, <5>1
      <4> QED BY <4>1, <4>2
    <3>2. \A a \in Addr \cap Filled(t, d) : mem'[a] = <<file[i], p + a - Buf(t)>>
      BY <2>6, <2>8 DEF Filled
    <3>3. d.fd \in Fd /\ fds'[d.fd] = i
      BY <2>1, <2>6 DEF i
    <3> QED BY <2>1, <2>2, <2>5, <2>6, <2>7, <3>1, <3>2, <3>3
  <2>15. MapBytes(d)'
    BY <2>1, <2>6 DEF MapBytes, Maps
  <2>16. Data(t, d)
    BY <1>2, <2>1, <2>6, <2>9, <2>10, <2>12, <2>13, <2>14, <2>15 DEF Data
  <2> QED BY <2>3, <2>5, <2>16 DEF d, Does
<1> QED BY <1>7, <1>8, <1>9, <1>10, <1>11, <1>12, <1>13 DEF Kernel


(* A call that is between the kernel's step and its callback keeps what    *)
(* the kernel did for it while the kernel serves another call.             *)
LEMMA OthersKept ==
    ASSUME IoType, NEW t \in Threads, NEW u \in Threads \ {t}, NEW d \in Calls, NEW k \in Calls,
           ctx[u] = k, pc[u] = "exit", ~Overlaps(t, d), Data(t, d), tool' = tool, flat' = flat,
           \A f \in Fd : fds'[f] = fds[f] \/ f \in Core(d),
           \A i \in 1 .. Len(pos) : file'[i] = file[i],
           ReadBytes(u, k), MapBytes(k), MapClean(k)
    PROVE  ReadBytes(u, k)' /\ MapBytes(k)' /\ MapClean(k)'
PROOF
<1>1. /\ fds \in [Fd -> 0 .. Len(pos)] /\ Len(pos) \in Nat /\ DOMAIN fds = Fd
  BY DEF IoType
<1>2. /\ \A f : f \in Describe(f)
      /\ Touches(d) \cap Touches(k) \cap Fd = {} /\ ~(Maps(d) /\ Maps(k))
  BY DEF Overlaps, Describe
<1>3. Core(d) \cap Core(k) \cap Fd = {}
  BY CoresApart
<1>4. k.fd \in Fd => fds'[k.fd] = fds[k.fd] /\ k.fd \in Touches(k)
  BY <1>2, <1>3 DEF Core, Touches
<1>5. /\ Buf(t) \in Nat /\ Buf(u) \in Nat /\ Count \in Nat /\ k.ret \in Int /\ d.ret \in Int
  BY InputAssumption DEF Calls
<1>6. Filled(t, d) \subseteq Buffer(t)
  BY <1>5 DEF Data, ReadBytes, Filled, Buffer
<1>7. Filled(u, k) \subseteq Buffer(u)
  BY <1>5 DEF ReadBytes, Filled, Buffer
<1>8. /\ \A a \in Addr \cap Filled(u, k) : mem'[a] = mem[a]
      /\ Maps(k) => \A a \in Addr \cap Page : mem'[a] = mem[a]
  <2>1. \A a \in Addr : mem'[a] # mem[a] => a \in Filled(t, d) \/ (Maps(d) /\ a \in Page)
    BY DEF Data, Maps
  <2>2. Buffer(t) \cap Buffer(u) = {} /\ Buffer(t) \cap Page = {} /\ Buffer(u) \cap Page = {}
    BY Apart
  <2> QED BY <1>2, <1>6, <1>7, <2>1, <2>2
<1>9. ReadBytes(u, k)'
  <2> SUFFICES ASSUME Reads(k)
               PROVE  /\ k.fd \in Fd /\ fds'[k.fd] # 0
                      /\ k.ret <= Count /\ Start(k)' >= 0 /\ Start(k)' + k.ret <= FileLen
                      /\ \A a \in Addr \cap Filled(u, k) :
                            mem'[a] = <<file'[fds'[k.fd]], Start(k)' + a - Buf(u)>>
    BY DEF ReadBytes, Reads, Filled
  <2>1. /\ k.fd \in Fd /\ fds[k.fd] # 0
        /\ k.ret <= Count /\ Start(k) >= 0 /\ Start(k) + k.ret <= FileLen
        /\ \A a \in Addr \cap Filled(u, k) : mem[a] = <<file[fds[k.fd]], Start(k) + a - Buf(u)>>
    BY DEF ReadBytes
  <2>2. fds[k.fd] \in 1 .. Len(pos) /\ fds'[k.fd] = fds[k.fd]
    BY <1>1, <1>4, <2>1
  <2>3. pos'[fds[k.fd]] = pos[fds[k.fd]]
    <3> SUFFICES ASSUME pos'[fds[k.fd]] # pos[fds[k.fd]] PROVE FALSE
      OBVIOUS
    <3>1. d.fd \in Fd /\ fds[d.fd] = fds[k.fd]
      BY <2>2 DEF Data
    <3>2. k.fd \in Describe(d.fd)
      BY <1>1, <2>1, <3>1 DEF Describe, Open
    <3> QED BY <1>2, <1>4, <2>1, <3>2 DEF Touches
  <2>4. Start(k)' = Start(k) /\ file'[fds'[k.fd]] = file[fds[k.fd]]
    BY <2>2, <2>3 DEF Start
  <2> QED BY <1>8, <2>1, <2>2, <2>4
<1>10. MapBytes(k)'
  <2>1. Maps(k) => mapped' = mapped
    BY <1>2 DEF Data, Remaps
  <2>2. CASE k.nr = "mmap" /\ k.ret >= 0
    <3>1. Maps(k)
      BY <2>2 DEF Maps
    <3>2. /\ k.ret = MapAddr /\ mapped /\ (k.fd # -1 => k.fd \in Fd /\ fds[k.fd] # 0)
          /\ \A a \in Addr \cap Page :
                mem[a] = IF k.fd = -1 \/ k.off + a - MapAddr >= FileLen THEN Foreign
                         ELSE <<file[fds[k.fd]], k.off + a - MapAddr>>
      BY <2>2 DEF MapBytes
    <3>3. k.fd # -1 => fds'[k.fd] = fds[k.fd] /\ file'[fds'[k.fd]] = file[fds[k.fd]]
      BY <1>1, <1>4, <3>2
    <3>4. \A a \in Addr \cap Page :
                mem'[a] = IF k.fd = -1 \/ k.off + a - MapAddr >= FileLen THEN Foreign
                          ELSE <<file'[fds'[k.fd]], k.off + a - MapAddr>>
      BY <1>8, <3>1, <3>2, <3>3, ZenonT(60)
    <3> QED BY <2>1, <2>2, <3>1, <3>2, <3>3, <3>4 DEF MapBytes
  <2>3. CASE k.nr = "munmap" /\ k.ret >= 0
    BY <2>1, <2>3 DEF MapBytes, Maps
  <2>4. CASE ~(Maps(k) /\ k.ret >= 0)
    BY <2>4 DEF MapBytes, Maps
  <2> QED BY <2>2, <2>3, <2>4 DEF Maps
<1> QED BY <1>9, <1>10 DEF MapClean

(* Bytes that a thread still has to write, and bytes it may write, are     *)
(* bytes of its buffer or, for the thread that changes the mappings, of    *)
(* the place for mappings.                                                 *)
LEMMA OwesPlace ==
    ASSUME IoType, NEW t \in Threads, NEW k \in Calls, ReadBytes(t, k)
    PROVE  Wrote(t, k) \subseteq Place(t, k)
PROOF
<1>1. Buf(t) \in Nat /\ Count \in Nat /\ k.ret \in Int
  BY InputAssumption DEF Calls
<1>2. Filled(t, k) \subseteq Buffer(t)
  BY <1>1 DEF ReadBytes, Filled, Buffer
<1> QED BY <1>2, Apart DEF Wrote, Place, Remaps

LEMMA PlacesApart ==
    ASSUME NEW t \in Threads, NEW u \in Threads \ {t}, NEW c, NEW d, ~(Maps(c) /\ Maps(d))
    PROVE  Place(t, c) \cap Place(u, d) = {}
BY Apart DEF Place

LEMMA EnterTags ==
    ASSUME IoType, Sound, FdInv, DataInv, TagInv, NEW t \in Threads, NEW c \in Syscalls,
           sysenter_save(t, c)
    PROVE  DataInv' /\ TagInv'
PROOF
<1>1. /\ Kernel(t, c) /\ tool' = tool /\ fdset' = fdset /\ pc[t] = "run" /\ c \in Calls
      /\ todo' = todo /\ flat' = flat
  BY SyscallType DEF sysenter_save, mapvars
<1>2. PICK r \in Int : Return(t, c, r) /\ Data(t, [c EXCEPT !.ret = r])
  BY <1>1, KernelData
<1> DEFINE d == [c EXCEPT !.ret = r]
<1>3. /\ d.ret = r /\ d.nr = c.nr /\ d.fd = c.fd /\ d \in Calls /\ Shape(d)
  BY <1>1, SyscallShape DEF Calls
<1>4. /\ pc' = [pc EXCEPT ![t] = "exit"] /\ ctx' = [ctx EXCEPT ![t] = d]
      /\ odd' = (odd \/ Overlaps(t, d)) /\ Data(t, d)
  BY <1>2 DEF Return
<1>5. Effect(c, r)
  <2>1. PICK s \in Int : Return(t, c, s) /\ Effect(c, s)
    BY <1>1, KernelEffect
  <2>2. [c EXCEPT !.ret = s] = d
    <3>1. ctx'[t] = [c EXCEPT !.ret = s] /\ ctx'[t] = d
      BY <1>4, <2>1 DEF Return, IoType
    <3> QED BY <3>1
  <2>3. s = r
    BY <1>1, <1>3, <2>2 DEF Calls
  <2> QED BY <2>1, <2>3
<1>6. /\ \A f \in Fd : fds'[f] = fds[f] \/ f \in Core(d)
      /\ \A i \in 1 .. Len(pos) : file'[i] = file[i]
  <2>1. /\ \A f \in Fd : ~Alters(d, f) => fds'[f] = fds[f]
        /\ \A i \in 1 .. Len(pos) : file'[i] = file[i]
        /\ Opens(d) /\ d.nr = "dup2" => d.ret = d.new
    BY <1>1, <1>3, <1>5 DEF Effect, Calls
  <2>2. \A f \in Fd : Alters(d, f) => f \in Core(d)
    BY <2>1 DEF Alters, Opens, Closes, Core
  <2> QED BY <2>1, <2>2
<1> HIDE DEF d
<1>7. /\ pc'[t] = "exit" /\ ctx'[t] = d
      /\ \A u \in Threads \ {t} : pc'[u] = pc[u] /\ ctx'[u] = ctx[u]
  BY <1>4 DEF IoType
<1>8. Filled(t, d) \subseteq Buffer(t)
  <2>1. Buf(t) \in Nat /\ Count \in Nat /\ d.ret \in Int
    BY <1>3, InputAssumption DEF Calls
  <2> QED BY <1>4, <2>1 DEF Data, ReadBytes, Filled, Buffer
<1>9. Wrote(t, d) \subseteq Place(t, d)
  BY <1>8, Apart DEF Wrote, Place, Remaps
<1>10. /\ \A a \in Addr \ Wrote(t, d) : mem'[a] = mem[a]
       /\ \A a \in Page \ Wrote(t, d) : mapped' = mapped
  <2>1. \A a \in Addr : mem'[a] # mem[a] => a \in Filled(t, d) \/ (Remaps(d) /\ a \in Page)
    BY <1>4 DEF Data, Remaps, Maps
  <2>2. mapped' # mapped => Remaps(d)
    BY <1>4 DEF Data
  <2> QED BY <2>1, <2>2 DEF Wrote
<1>11. \A a \in Addr \ Wrote(t, d) : \A x : Right(a, x) => Right(a, x)'
  <2> SUFFICES ASSUME NEW a \in Addr \ Wrote(t, d), NEW x, Right(a, x) PROVE Right(a, x)'
    OBVIOUS
  <2>1. mem'[a] = mem[a] /\ (a \in Page => mapped' = mapped)
    BY <1>10
  <2>2. Want(a)' = Want(a)
    BY <1>1, <2>1 DEF Want, Tracked
  <2> QED BY <1>1, <2>1, <2>2 DEF Right
<1>12. DataInv'
  <2>1. mem' \in [Addr -> Files \X Nat] /\ mapped' \in BOOLEAN
        /\ \A i \in 1 .. Len(pos') : pos'[i] <= FileLen
    BY <1>4 DEF Data
  <2>2. \A a \in Addr \cap (Area \ Page) : mem'[a] = Foreign
    <3>1. \A a \in Area \ Page : a \notin Wrote(t, d)
      BY <1>8, Apart DEF Wrote
    <3> QED BY <1>10, <3>1 DEF DataInv
  <2>3. \A u \in Threads : pc'[u] # "run" => Shape(ctx'[u])
    BY <1>3, <1>7 DEF DataInv
  <2> QED BY <1>1, <2>1, <2>2, <2>3, Zenon DEF DataInv, Shape
<1>13. TagInv'
  <2> SUFFICES ASSUME ~odd' PROVE TagInv'
    BY DEF TagInv
  <2>1. ~odd /\ ~Overlaps(t, d)
    BY <1>4
  <2>2. /\ \A a \in Addr : Right(a, flat[a]) \/ \E u \in Threads : Owes(u, a)
        /\ \A u \in Threads : pc[u] = "tags" =>
             \A i \in 1 .. Len(todo[u]) : /\ Right(todo[u][i][1], todo[u][i][2])
                                          /\ todo[u][i][1] \in Place(u, ctx[u])
        /\ \A u \in Threads : pc[u] = "exit" =>
             ReadBytes(u, ctx[u]) /\ MapBytes(ctx[u]) /\ MapClean(ctx[u])
        /\ \A u, v \in Threads : u # v /\ pc[u] # "run" /\ pc[v] # "run" =>
             ~(Maps(ctx[u]) /\ Maps(ctx[v]))
    BY <2>1 DEF TagInv
  <2>3. \A u \in Threads : pc[u] # "run" => u # t /\ ~(Maps(d) /\ Maps(ctx[u]))
    BY <1>1, <2>1 DEF Overlaps
  <2>4. \A u \in Threads : pc[u] # "run" => Place(u, ctx[u]) \cap Wrote(t, d) = {}
    BY <1>9, <2>3, PlacesApart
  <2>5. \A a \in Addr : Right(a, flat[a])' \/ \E u \in Threads : Owes(u, a)'
    <3> SUFFICES ASSUME NEW a \in Addr
                 PROVE  Right(a, flat[a])' \/ \E u \in Threads : Owes(u, a)'
      OBVIOUS
    <3>1. CASE a \in Wrote(t, d)
      <4>1. Owes(t, a)'
        <5>1. a \in Wrote(t, ctx'[t])
          BY <1>7, <3>1
        <5> QED BY <1>7, <5>1 DEF Owes, Wrote, Filled, Reads, Remaps
      <4> QED BY <4>1
    <3>2. CASE a \notin Wrote(t, d) /\ Right(a, flat[a])
      <4>1. PICK x : x = flat[a]
        OBVIOUS
      <4>2. Right(a, x)' /\ flat'[a] = x
        BY <1>1, <1>11, <3>2, <4>1
      <4> QED BY <4>2
    <3>3. ASSUME NEW u \in Threads, Owes(u, a) PROVE Owes(u, a)'
      <4>1. u # t
        BY <1>1, <3>3 DEF Owes
      <4>2. ctx'[u] = ctx[u] /\ pc'[u] = pc[u] /\ todo'[u] = todo[u]
        BY <1>1, <1>7, <4>1
      <4> QED BY <3>3, <4>2 DEF Owes, Wrote, Filled, Reads, Remaps, Listed
    <3> QED BY <2>2, <3>1, <3>2, <3>3
  <2>6. ASSUME NEW u \in Threads, pc'[u] = "tags", NEW i \in 1 .. Len(todo'[u])
        PROVE  Right(todo[u][i][1], todo[u][i][2])' /\ todo'[u][i][1] \in Place(u, ctx'[u])
    <3>1. u # t /\ pc[u] = "tags" /\ ctx'[u] = ctx[u] /\ i \in 1 .. Len(todo[u])
      BY <1>1, <1>7, <2>6
    <3>2. todo[u][i][1] \in Addr
      <4>1. todo[u] \in Seq(Addr \X Int)
        BY DEF Sound, MapType
      <4> QED BY <3>1, <4>1
    <3>3. Right(todo[u][i][1], todo[u][i][2]) /\ todo[u][i][1] \in Place(u, ctx[u])
      BY <2>2, <3>1
    <3>4. PICK a, x : a = todo[u][i][1] /\ x = todo[u][i][2]
      OBVIOUS
    <3>5. a \notin Wrote(t, d)
      BY <2>4, <3>1, <3>3, <3>4
    <3>6. Right(a, x)' /\ todo'[u][i][1] = a /\ todo'[u][i][2] = x
      BY <1>1, <1>11, <3>2, <3>3, <3>4, <3>5
    <3> QED BY <3>1, <3>3, <3>4, <3>6
  <2>7. ASSUME NEW u \in Threads \ {t}, pc'[u] = "exit"
        PROVE  ReadBytes(u, ctx[u])' /\ MapBytes(ctx[u])' /\ MapClean(ctx[u])'
    <3>1. PICK k \in Calls : k = ctx[u]
      BY DEF IoType
    <3>2. pc[u] = "exit" /\ ctx'[u] = k
      BY <1>7, <2>7, <3>1
    <3>3. ReadBytes(u, k) /\ MapBytes(k) /\ MapClean(k)
      BY <2>2, <3>1, <3>2
    <3>4. ReadBytes(u, k)' /\ MapBytes(k)' /\ MapClean(k)'
      BY <1>1, <1>3, <1>4, <1>6, <2>1, <3>1, <3>2, <3>3, OthersKept
    <3> QED BY <3>2, <3>4
  <2>8. ReadBytes(t, ctx[t])' /\ MapBytes(ctx[t])' /\ MapClean(ctx[t])'
    <3>1. ReadBytes(t, d)' /\ MapBytes(d)'
      BY <1>4 DEF Data
    <3>2. MapClean(d)'
      <4> SUFFICES ASSUME d.nr = "mmap", d.ret >= 0, tool # "mytool", NEW a \in Addr \cap Page
                   PROVE  flat[a] = None
        BY <1>1 DEF MapClean
      <4>1. ~mapped /\ Maps(d) /\ Remaps(d)
        BY <1>4 DEF Data, Remaps, Maps
      <4>2. a \in Wrote(t, d)
        BY <4>1 DEF Wrote
      <4>3. ASSUME NEW u \in Threads, Owes(u, a) PROVE FALSE
        <5>1. pc[u] # "run" /\ u # t
          BY <1>1, <4>3 DEF Owes
        <5>2. a \in Place(u, ctx[u])
          <6>1. CASE pc[u] = "exit"
            <7>1. ctx[u] \in Calls /\ ReadBytes(u, ctx[u])
              BY <2>2, <6>1 DEF IoType
            <7> QED BY <4>3, <6>1, <7>1, OwesPlace DEF Owes
          <6>2. CASE pc[u] = "tags"
            BY <2>2, <4>3, <6>2 DEF Owes, Listed
          <6> QED BY <4>3, <6>1, <6>2 DEF Owes
        <5> QED BY <2>4, <4>2, <5>1, <5>2
      <4>4. Right(a, flat[a])
        BY <2>2, <4>3
      <4> QED BY <4>1, <4>4 DEF Right
    <3>3. PICK k : k = d
      OBVIOUS
    <3>4. ctx'[t] = k /\ ReadBytes(t, k)' /\ MapBytes(k)' /\ MapClean(k)'
      BY <1>7, <3>1, <3>2, <3>3
    <3> QED BY <3>4
  <2>9. \A u, v \in Threads : u # v /\ pc'[u] # "run" /\ pc'[v] # "run" =>
             ~(Maps(ctx'[u]) /\ Maps(ctx'[v]))
    BY <1>7, <2>2, <2>3
  <2>10. \A u \in Threads : pc'[u] = "tags" =>
             \A i \in 1 .. Len(todo'[u]) : /\ Right(todo[u][i][1], todo[u][i][2])'
                                           /\ todo'[u][i][1] \in Place(u, ctx'[u])
    BY <2>6
  <2>11. \A u \in Threads : pc'[u] = "exit" =>
             ReadBytes(u, ctx[u])' /\ MapBytes(ctx[u])' /\ MapClean(ctx[u])'
    BY <2>7, <2>8
  <2> QED BY <2>5, <2>9, <2>10, <2>11 DEF TagInv, Maps, Place
<1> QED BY <1>12, <1>13

(* The writes of tagmap_setb in a loop: one for each address that the      *)
(* directory has, with its tag.                                            *)
LEMMA SetnWrites ==
    ASSUME NEW a \in Nat, NEW tags \in Seq(Int)
    PROVE  /\ \A i \in 1 .. Len(Setn(a, tags)) :
                 /\ Setn(a, tags)[i][1] \in Addr \cap (a .. a + Len(tags) - 1)
                 /\ Setn(a, tags)[i][2] = tags[Setn(a, tags)[i][1] - a + 1]
           /\ \A b \in Addr \cap (a .. a + Len(tags) - 1) : Listed(Setn(a, tags), b)
PROOF
<1> DEFINE fit == Limit - a + 1
           m == IF Len(tags) <= fit THEN Len(tags) ELSE IF fit > 0 THEN fit ELSE 0
           w == Setn(a, tags)
<1>1. Limit \in Nat /\ Len(tags) \in Nat /\ fit \in Int
  BY MapAssumption
<1>2. m \in Nat /\ m <= Len(tags) /\ (m > 0 => m <= fit)
  BY <1>1
<1>3. \A b \in Addr \cap (a .. a + Len(tags) - 1) : b - a + 1 \in 1 .. m
  BY <1>1 DEF Addr
<1>4. w = [i \in 1 .. m |-> <<a + i - 1, tags[i]>>]
  BY DEF Setn
<1> HIDE DEF m, w
<1>5. Len(w) = m /\ \A i \in 1 .. m : w[i] = <<a + i - 1, tags[i]>>
  BY <1>2, <1>4
<1>6. ASSUME NEW i \in 1 .. m
      PROVE  w[i][1] \in Addr \cap (a .. a + Len(tags) - 1) /\ w[i][2] = tags[w[i][1] - a + 1]
  <2>1. w[i][1] = a + i - 1 /\ w[i][2] = tags[i]
    BY <1>5
  <2>2. i \in Nat /\ i >= 1 /\ i <= m /\ (a + i - 1) - a + 1 = i
    BY <1>2
  <2>3. a + i - 1 \in Addr
    BY <1>1, <1>2, <2>2 DEF Addr
  <2>4. a + i - 1 \in a .. a + Len(tags) - 1
    BY <1>1, <1>2, <2>2
  <2> QED BY <2>1, <2>2, <2>3, <2>4
<1>7. ASSUME NEW b \in Addr \cap (a .. a + Len(tags) - 1) PROVE Listed(w, b)
  <2>1. b - a + 1 \in 1 .. m /\ b \in Int
    BY <1>1, <1>3 DEF Addr
  <2>2. w[b - a + 1][1] = b
    BY <1>5, <2>1
  <2> QED BY <1>5, <2>1, <2>2 DEF Listed
<1> QED BY <1>5, <1>6, <1>7 DEF w

(* What a callback has to write after the call c of t: tags that are right, *)
(* at places of its own, and one for every byte whose tag is wrong.        *)
Good(t, c, w) ==
    /\ \A i \in 1 .. Len(w) : Right(w[i][1], w[i][2]) /\ w[i][1] \in Place(t, c)
    /\ \A b \in Addr \cap Wrote(t, c) : Listed(w, b) \/ Right(b, flat[b])

LEMMA GoodWrites ==
    ASSUME NEW t \in Threads, NEW c, NEW a \in Nat, NEW tags \in Seq(Int),
           \A b \in Addr \cap (a .. a + Len(tags) - 1) :
              Right(b, tags[b - a + 1]) /\ b \in Place(t, c),
           \A b \in Addr \cap Wrote(t, c) : b \in a .. a + Len(tags) - 1 \/ Right(b, flat[b])
    PROVE  Good(t, c, Setn(a, tags))
PROOF
<1>1. PICK w : w = Setn(a, tags)
  OBVIOUS
<1>2. /\ \A i \in 1 .. Len(w) : /\ w[i][1] \in Addr \cap (a .. a + Len(tags) - 1)
                                /\ w[i][2] = tags[w[i][1] - a + 1]
      /\ \A b \in Addr \cap (a .. a + Len(tags) - 1) : Listed(w, b)
  BY <1>1, SetnWrites, Zenon
<1>3. \A i \in 1 .. Len(w) : Right(w[i][1], w[i][2]) /\ w[i][1] \in Place(t, c)
  BY <1>2
<1>4. Good(t, c, w)
  BY <1>2, <1>3 DEF Good
<1> QED BY <1>1, <1>4

LEMMA GoodLabels ==
    ASSUME NEW t \in Threads, NEW c, NEW a \in Nat, NEW x \in Int, NEW n \in Nat,
           \A b \in Addr \cap (a .. a + n - 1) : Right(b, U(x + b - a)) /\ b \in Place(t, c),
           \A b \in Addr \cap Wrote(t, c) : b \in a .. a + n - 1 \/ Right(b, flat[b])
    PROVE  Good(t, c, Setn(a, Labels(x, n)))
PROOF
<1>1. PICK tags : tags = Labels(x, n)
  OBVIOUS
<1>2. tags \in Seq(Int) /\ Len(tags) = n /\ \A i \in 1 .. n : tags[i] = U(x + i - 1)
  <2>1. tags \in Seq(Int)
    BY <1>1, LabelsType
  <2>2. Len(tags) = n /\ \A i \in 1 .. n : tags[i] = U(x + i - 1)
    BY <1>1 DEF Labels
  <2> QED BY <2>1, <2>2
<1>3. ASSUME NEW b \in Addr \cap (a .. a + Len(tags) - 1) PROVE tags[b - a + 1] = U(x + b - a)
  <2>1. b \in Int /\ b - a + 1 \in 1 .. n /\ x + (b - a + 1) - 1 = x + b - a
    BY <1>2 DEF Addr
  <2> QED BY <1>2, <2>1
<1>4. Good(t, c, Setn(a, tags))
  BY <1>2, <1>3, GoodWrites
<1> QED BY <1>1, <1>4

LEMMA GoodClear ==
    ASSUME NEW t \in Threads, NEW c, NEW a \in Nat, NEW n \in Nat,
           \A b \in Addr \cap (a .. a + n - 1) : Right(b, None) /\ b \in Place(t, c),
           \A b \in Addr \cap Wrote(t, c) : b \in a .. a + n - 1 \/ Right(b, flat[b])
    PROVE  Good(t, c, tagmap_clrn(a, n))
PROOF
<1>1. PICK tags : tags = [i \in 1 .. n |-> None]
  OBVIOUS
<1>2. tags \in Seq(Int) /\ Len(tags) = n /\ \A i \in 1 .. n : tags[i] = None
  BY <1>1 DEF None
<1>3. ASSUME NEW b \in Addr \cap (a .. a + Len(tags) - 1) PROVE tags[b - a + 1] = None
  <2>1. b \in Int /\ b - a + 1 \in 1 .. n
    BY <1>2 DEF Addr
  <2> QED BY <1>2, <2>1
<1>4. Good(t, c, Setn(a, tags))
  BY <1>2, <1>3, GoodWrites
<1> QED BY <1>1, <1>4 DEF tagmap_clrn

LEMMA GoodNothing ==
    ASSUME NEW t \in Threads, NEW c, \A b \in Addr \cap Wrote(t, c) : Right(b, flat[b])
    PROVE  Good(t, c, <<>>)
BY DEF Good

(* The tags of the bytes a read has returned, and of a page just mapped.   *)
LEMMA ReadTags ==
    ASSUME IoType, DataInv, NEW t \in Threads, NEW c \in Calls, ReadBytes(t, c), Reads(c)
    PROVE  /\ Wrote(t, c) = Buf(t) .. Buf(t) + c.ret - 1 /\ Wrote(t, c) \subseteq Place(t, c)
           /\ c.ret \in 1 .. Count /\ c.fd \in Fd /\ Start(c) \in Nat
           /\ Start(c) = IF c.nr = "pread64" THEN c.off ELSE Seek(c.fd) - c.ret
           /\ \A b \in Addr \cap Wrote(t, c) :
                 IF Source(c.fd) THEN Right(b, U(Start(c) + b - Buf(t))) ELSE Right(b, None)
PROOF
<1>1. /\ c.ret \in Int /\ c.ret > 0 /\ c.off \in Nat /\ ~Maps(c)
      /\ Buf(t) \in Nat /\ Count \in Nat /\ FileLen \in Nat /\ Word \in Nat \ {0} /\ FileLen <= Word
  BY InputAssumption, LayoutAssumption DEF Calls, Reads, Maps
<1>2. /\ c.fd \in Fd /\ fds[c.fd] # 0 /\ c.ret <= Count
      /\ Start(c) >= 0 /\ Start(c) + c.ret <= FileLen
      /\ \A a \in Addr \cap Filled(t, c) :
            mem[a] = <<file[fds[c.fd]], Start(c) + a - Buf(t)>>
  BY DEF ReadBytes
<1>3. Open(c.fd) /\ fds[c.fd] \in 1 .. Len(pos)
  BY <1>2 DEF Open, IoType
<1>4. Start(c) = IF c.nr = "pread64" THEN c.off ELSE Seek(c.fd) - c.ret
  BY <1>3 DEF Start, Seek
<1>5. Start(c) \in Nat
  <2>1. Seek(c.fd) \in Int
    BY CallNumbers
  <2> QED BY <1>1, <1>2, <1>4, <2>1
<1>6. Wrote(t, c) = Buf(t) .. Buf(t) + c.ret - 1 /\ Filled(t, c) = Wrote(t, c)
  BY <1>1 DEF Wrote, Filled, Remaps
<1>7. Wrote(t, c) \subseteq Buffer(t)
  BY <1>1, <1>2, <1>6 DEF Buffer
<1>8. ASSUME NEW b \in Addr \cap Wrote(t, c)
      PROVE  IF Source(c.fd) THEN Right(b, U(Start(c) + b - Buf(t))) ELSE Right(b, None)
  <2>1. b \notin Page
    BY <1>7, Apart
  <2>2. mem[b] = <<file[fds[c.fd]], Start(c) + b - Buf(t)>>
    BY <1>2, <1>6
  <2>3. Want(b) = IF Source(c.fd) THEN Start(c) + b - Buf(t) ELSE None
    BY <1>3, <2>2 DEF Want, Source
  <2>4. U(Start(c) + b - Buf(t)) = Start(c) + b - Buf(t)
    <3>1. b \in Buf(t) .. Buf(t) + c.ret - 1
      BY <1>6
    <3> DEFINE x == Start(c)
    <3>2. x \in Nat /\ x + c.ret <= Word
      BY <1>1, <1>2, <1>5
    <3> HIDE DEF x
    <3>3. x + b - Buf(t) \in 0 .. Word - 1
      BY <1>1, <3>1, <3>2
    <3> QED BY <1>1, <3>3 DEF U, x
  <2> QED BY <2>1, <2>3, <2>4 DEF Right
<1> QED BY <1>1, <1>2, <1>4, <1>5, <1>6, <1>7, <1>8 DEF Place

LEMMA MapTags ==
    ASSUME IoType, DataInv, NEW c \in Calls, MapBytes(c), c.nr = "mmap", c.ret >= 0
    PROVE  /\ \A b \in Addr \cap Page :
                 IF c.fd # -1 /\ Source(c.fd)
                 THEN c.off + b - MapAddr < FileLen => Right(b, U(c.off + b - MapAddr))
                 ELSE Right(b, None)
           /\ \A b \in Addr \cap (Area \ Page) : Right(b, None)
PROOF
<1>1. /\ c.off \in Nat /\ MapAddr \in Nat /\ FileLen \in Nat /\ Word \in Nat \ {0} /\ FileLen <= Word
      /\ "other" \notin Tracked
  BY InputAssumption, LayoutAssumption DEF Calls, Tracked
<1>2. /\ mapped /\ (c.fd # -1 => c.fd \in Fd /\ fds[c.fd] # 0)
      /\ \A a \in Addr \cap Page :
            mem[a] = IF c.fd = -1 \/ c.off + a - MapAddr >= FileLen THEN Foreign
                     ELSE <<file[fds[c.fd]], c.off + a - MapAddr>>
  BY DEF MapBytes
<1>3. \A b : mem[b] = Foreign => Want(b) = None
  BY <1>1 DEF Want, Foreign
<1>4. c.fd # -1 => Open(c.fd)
  BY <1>2 DEF Open, IoType
<1>5. ASSUME NEW b \in Addr \cap Page
      PROVE  IF c.fd # -1 /\ Source(c.fd)
             THEN c.off + b - MapAddr < FileLen => Right(b, U(c.off + b - MapAddr))
             ELSE Right(b, None)
  <2>1. CASE c.fd = -1 \/ c.off + b - MapAddr >= FileLen
    <3>1. mem[b] = Foreign
      BY <1>2, <2>1
    <3>2. Right(b, None)
      BY <1>2, <1>3, <3>1 DEF Right
    <3>3. c.fd = -1 \/ ~(c.off + b - MapAddr < FileLen)
      BY <1>1, <2>1 DEF Addr
    <3> QED BY <3>2, <3>3
  <2>2. CASE ~(c.fd = -1 \/ c.off + b - MapAddr >= FileLen)
    <3>1. mem[b] = <<file[fds[c.fd]], c.off + b - MapAddr>>
      BY <1>2, <2>2
    <3>2. Want(b) = IF Source(c.fd) THEN c.off + b - MapAddr ELSE None
      BY <1>4, <2>2, <3>1 DEF Want, Source
    <3>3. c.off + b - MapAddr \in 0 .. Word - 1
      BY <1>1, <2>2 DEF Addr, Page
    <3>4. U(c.off + b - MapAddr) = c.off + b - MapAddr
      BY <1>1, <3>3 DEF U
    <3> QED BY <1>2, <2>2, <3>2, <3>4 DEF Right
  <2> QED BY <2>1, <2>2
<1>6. \A b \in Addr \cap (Area \ Page) : Right(b, None)
  BY <1>3 DEF DataInv, Right
<1> QED BY <1>5, <1>6

(* The sizes mytool rounds a mapping to. *)
LEMMA Rounded ==
    ASSUME NEW len \in {1, PAGE_SIZE}
    PROVE  /\ MapRounded(len) \in {PAGE_SIZE, 2 * PAGE_SIZE}
           /\ len % PAGE_SIZE # 0 => MapRounded(len) = PAGE_SIZE
PROOF
<1>1. PAGE_SIZE \in Nat \ {0} /\ len \in Nat
  BY MapAssumption
<1>2. CASE len < PAGE_SIZE
  BY <1>1, <1>2 DEF MapRounded
<1>3. CASE ~(len < PAGE_SIZE)
  <2>1. len = PAGE_SIZE
    BY <1>1, <1>3
  <2>2. len % PAGE_SIZE = 0
    BY <1>1, <2>1
  <2> QED BY <1>1, <1>3, <2>1, <2>2 DEF MapRounded
<1> QED BY <1>2, <1>3

LEMMA MyGood ==
    ASSUME IoType, DataInv, NEW t \in Threads, NEW c \in Calls, Shape(c),
           Reads(c) \/ Maps(c) => Known(c.fd),
           ReadBytes(t, c), MapBytes(c), tool = "mytool", ~MyOdd(c)
    PROVE  Good(t, c, MyHook(c, t).writes)
PROOF
<1>1. /\ Buf(t) \in Nat /\ MapAddr \in Nat /\ PAGE_SIZE \in Nat \ {0} /\ c.ret \in Int /\ c.off \in Nat
      /\ stdin_read_off \in Int /\ Seek(c.fd) \in Int
  BY CallNumbers, InputAssumption, MapAssumption
<1>2. /\ Nothing.writes = <<>> /\ \A S : [Nothing EXCEPT !.set = S].writes = <<>>
      /\ \A w : [Nothing EXCEPT !.writes = w].writes = w
      /\ \A s, o, w : Result(s, o, w).writes = w
  BY DEF Nothing, Result
<1>3. CASE ~Reads(c) /\ ~Remaps(c)
  <2>1. Wrote(t, c) = {}
    BY <1>3 DEF Wrote, Filled
  <2>2. MyHook(c, t).writes = <<>>
    <3>1. my_open(c).writes = <<>> /\ my_openat(c).writes = <<>> /\ my_close(c).writes = <<>>
      BY <1>2 DEF my_open, my_openat, my_close
    <3>2. c.nr \in {"read", "readv", "pread64"} => c.ret <= 0
      BY <1>1, <1>3 DEF Reads
    <3>3. c.nr = "mmap" => c.ret \in {-EPERM, -EOTHER} /\ c.ret < 0
      BY <1>1, <1>3 DEF MapBytes, Remaps, Maps
    <3>4. /\ c.nr = "read" => my_read(c, t) = Nothing
          /\ c.nr = "pread64" => my_pread64(c, t) = Nothing
          /\ c.nr = "readv" => my_readv(c, t) = Nothing
      BY <1>1, <3>2 DEF my_read, my_pread64, my_readv
    <3>5. c.nr = "mmap" => my_mmap(c).writes = <<>>
      <4> SUFFICES ASSUME c.nr = "mmap", c.ret # -EPERM PROVE my_mmap(c).writes = <<>>
        BY <1>2 DEF my_mmap
      <4>1. c.ret = -EOTHER /\ c.ret < 0 /\ c.fd \notin fdset
        BY <3>3 DEF MyOdd
      <4>2. PICK n \in Nat : n = MapRounded(c.len)
        BY CallNumbers
      <4> DEFINE a == c.ret - (IF "MAP_GROWSDOWN" \in c.flags THEN n ELSE 0)
      <4>3. ~(a >= 0)
        BY <1>1, <4>1
      <4> HIDE DEF a
      <4>4. ClearFrom(a, n) = <<>>
        BY <4>3 DEF ClearFrom
      <4>5. my_mmap(c) = [Nothing EXCEPT !.writes = ClearFrom(a, n)]
        BY <4>1, <4>2 DEF my_mmap, a
      <4> QED BY <1>2, <4>4, <4>5
    <3> QED BY <1>2, <3>1, <3>4, <3>5 DEF MyHook
  <2> QED BY <2>1, <2>2, GoodNothing
<1>4. CASE Reads(c)
  <2> DEFINE x == IF c.nr = "pread64" THEN c.off ELSE IF c.nr = "readv" THEN 0
                  ELSE IF c.fd = 0 THEN stdin_read_off ELSE Seek(c.fd) - c.ret
  <2>1. /\ Wrote(t, c) = Buf(t) .. Buf(t) + c.ret - 1 /\ Wrote(t, c) \subseteq Place(t, c)
        /\ c.ret \in 1 .. Count /\ c.fd \in Fd /\ Start(c) \in Nat
        /\ Start(c) = IF c.nr = "pread64" THEN c.off ELSE Seek(c.fd) - c.ret
        /\ \A b \in Addr \cap Wrote(t, c) :
              IF Source(c.fd) THEN Right(b, U(Start(c) + b - Buf(t))) ELSE Right(b, None)
    BY <1>4, ReadTags
  <2>2. c.fd \in fdset <=> Source(c.fd)
    BY <1>4, <2>1 DEF Known, Followed
  <2>3. c.ret \in Nat /\ c.ret > 0 /\ c.nr \in {"read", "readv", "pread64"}
    BY <1>4, <2>1 DEF Reads
  <2>4. c.fd \in fdset => x = Start(c)
    BY <1>1, <2>1, <2>3 DEF MyOdd
  <2> HIDE DEF x
  <2>5. CASE c.fd \notin fdset
    <3>1. Good(t, c, tagmap_clrn(Buf(t), c.ret))
      BY <1>1, <2>1, <2>2, <2>3, <2>5, GoodClear
    <3>2. MyHook(c, t).writes = tagmap_clrn(Buf(t), c.ret)
      BY <1>2, <2>3, <2>5 DEF MyHook, my_read, my_pread64, my_readv
    <3> QED BY <3>1, <3>2
  <2>6. CASE c.fd \in fdset
    <3>0. /\ x \in Int
          /\ \A b \in Addr \cap (Buf(t) .. Buf(t) + c.ret - 1) :
                Right(b, U(x + b - Buf(t))) /\ b \in Place(t, c)
          /\ \A b \in Addr \cap Wrote(t, c) : b \in Buf(t) .. Buf(t) + c.ret - 1
      BY <2>1, <2>2, <2>4, <2>6
    <3>1. Good(t, c, Setn(Buf(t), Labels(x, c.ret)))
      BY <1>1, <2>3, <3>0, GoodLabels
    <3>2. MyHook(c, t).writes = Setn(Buf(t), Labels(x, c.ret))
      BY <1>2, <2>3, <2>6 DEF MyHook, my_read, my_pread64, my_readv, x
    <3> QED BY <3>1, <3>2
  <2> QED BY <2>5, <2>6
<1>5. CASE Remaps(c) /\ c.nr = "mmap"
  <2> DEFINE n == MapRounded(c.len)
  <2>1. /\ c.ret = MapAddr /\ c.ret >= 0 /\ ~Reads(c) /\ Maps(c)
        /\ c.fd # -1 => c.fd \in Fd
    BY <1>5 DEF MapBytes, Remaps, Reads, Maps
  <2>2. /\ \A b \in Addr \cap Page :
              IF c.fd # -1 /\ Source(c.fd)
              THEN c.off + b - MapAddr < FileLen => Right(b, U(c.off + b - MapAddr))
              ELSE Right(b, None)
        /\ \A b \in Addr \cap (Area \ Page) : Right(b, None)
    BY <1>5, <2>1, MapTags
  <2>3. n \in {PAGE_SIZE, 2 * PAGE_SIZE} /\ (c.len % PAGE_SIZE # 0 => n = PAGE_SIZE)
    BY <1>5, Rounded DEF Shape
  <2>4. c.fd # -1 => (c.fd \in fdset <=> Source(c.fd))
    BY <2>1 DEF Known, Followed
  <2>5. Wrote(t, c) = Page
    BY <1>5, <2>1 DEF Wrote, Filled
  <2>6. MyHook(c, t).writes = IF c.fd \in fdset THEN Setn(MapAddr, Labels(0, n))
                              ELSE tagmap_clrn(MapAddr, n)
    <3>1. MyHook(c, t) = my_mmap(c)
      BY <1>5 DEF MyHook
    <3> DEFINE w == IF c.fd \in fdset THEN Setn(c.ret, Labels(0, n)) ELSE tagmap_clrn(c.ret, n)
    <3>a. c.ret # -EPERM /\ (c.fd \notin fdset => "MAP_GROWSDOWN" \notin c.flags)
      BY <1>1, <1>5, <2>1 DEF MyOdd, EPERM
    <3>b. TagFrom(c.ret, n) = Setn(c.ret, Labels(0, n)) /\ ClearFrom(c.ret, n) = tagmap_clrn(c.ret, n)
      BY <2>1 DEF TagFrom, ClearFrom
    <3>c. c.ret - 0 = c.ret
      BY <1>1
    <3>2. my_mmap(c) = [Nothing EXCEPT !.writes = w]
      BY <3>a, <3>b, <3>c DEF my_mmap
    <3> HIDE DEF w
    <3>3. my_mmap(c).writes = w
      BY <1>2, <3>2
    <3> QED BY <2>1, <3>1, <3>3 DEF w
  <2>7. c.fd \in fdset => c.fd # -1 /\ c.off = 0 /\ c.len % PAGE_SIZE # 0 /\ n <= FileLen
    <3>1. n \in Int /\ FileLen \in Int
      BY <1>1, <2>3, InputAssumption
    <3> QED BY <1>5, <2>1, <3>1 DEF MyOdd
  <2> HIDE DEF n
  <2>8. n \in Nat /\ MapAddr .. MapAddr + n - 1 \subseteq Area /\ Page \subseteq MapAddr .. MapAddr + n - 1
    BY <1>1, <2>3 DEF Area, Page
  <2>9. Area \subseteq Place(t, c)
    BY <2>1 DEF Place
  <2>10. CASE c.fd \notin fdset
    <3>1. \A b \in Addr \cap Area : Right(b, None)
      BY <2>2, <2>4, <2>10
    <3>2. Good(t, c, tagmap_clrn(MapAddr, n))
      BY <1>1, <2>5, <2>8, <2>9, <3>1, GoodClear
    <3> QED BY <2>6, <2>10, <3>2
  <2>11. CASE c.fd \in fdset
    <3>1. n = PAGE_SIZE /\ Page = MapAddr .. MapAddr + n - 1
      BY <2>3, <2>7, <2>11 DEF Page
    <3>o. PICK x \in Int : x = 0
      OBVIOUS
    <3>2. ASSUME NEW b \in Addr \cap Page PROVE Right(b, U(x + b - MapAddr))
      <4>1. b \in Nat /\ c.off = 0 /\ n <= FileLen
        BY <2>7, <2>11, MapAssumption DEF Addr
      <4>2. c.off + b - MapAddr < FileLen /\ c.off + b - MapAddr = x + b - MapAddr
        BY <1>1, <3>o, <3>1, <4>1, InputAssumption DEF Page
      <4>3. Right(b, U(c.off + b - MapAddr))
        BY <2>2, <2>4, <2>7, <2>11, <4>2
      <4> QED BY <4>2, <4>3
    <3>3. /\ \A b \in Addr \cap (MapAddr .. MapAddr + n - 1) :
                Right(b, U(x + b - MapAddr)) /\ b \in Place(t, c)
          /\ \A b \in Addr \cap Wrote(t, c) : b \in MapAddr .. MapAddr + n - 1
      BY <2>5, <2>8, <2>9, <3>1, <3>2
    <3>4. Good(t, c, Setn(MapAddr, Labels(x, n)))
      BY <1>1, <2>8, <3>3, GoodLabels
    <3> QED BY <2>6, <2>11, <3>o, <3>4
  <2> QED BY <2>10, <2>11
(* mytool has no callback for munmap: the tags of the page stay.           *)
<1>6. CASE Remaps(c) /\ c.nr = "munmap"
  <2>1. MyHook(c, t).writes = <<>>
    BY <1>2, <1>6 DEF MyHook
  <2>2. Wrote(t, c) = Page /\ ~mapped
    BY <1>6 DEF Wrote, Filled, Reads, Remaps, MapBytes
  <2>3. \A b \in Addr \cap Wrote(t, c) : Right(b, flat[b])
    BY <2>2 DEF Right
  <2> QED BY <2>1, <2>3, GoodNothing
<1> QED BY <1>3, <1>4, <1>5, <1>6 DEF Remaps, Maps

LEMMA FileGood ==
    ASSUME IoType, DataInv, NEW t \in Threads, NEW c \in Calls, Shape(c),
           Reads(c) \/ Maps(c) => Known(c.fd),
           ReadBytes(t, c), MapBytes(c), MapClean(c), tool # "mytool", ~FileOdd(c)
    PROVE  Good(t, c, FileHook(c, t).writes)
PROOF
<1>1. /\ Buf(t) \in Nat /\ MapAddr \in Nat /\ PAGE_SIZE \in Nat \ {0} /\ c.ret \in Int /\ c.off \in Nat
      /\ stdin_read_off \in Int /\ Seek(c.fd) \in Int /\ Count \in Nat \ {0} /\ FileLen \in Nat
      /\ Word \in Nat \ {0} /\ Count + 32 < Word
  BY CallNumbers, InputAssumption, MapAssumption, LayoutAssumption DEF Slack
<1>2. /\ Nothing.writes = <<>> /\ \A S : [Nothing EXCEPT !.set = S].writes = <<>>
      /\ \A w : [Nothing EXCEPT !.writes = w].writes = w
      /\ \A s, o, w : Result(s, o, w).writes = w
      /\ \A f : add_fuzzing_fd(f).writes = <<>>
  BY DEF Nothing, Result, add_fuzzing_fd
<1>3. \A x \in 0 .. Count + 32 : U(x) = x
  BY <1>1 DEF U
<1>4. (Reads(c) \/ Maps(c)) /\ c.fd \in Fd => (is_fuzzing_fd(c.fd) <=> Source(c.fd))
  BY DEF Known, Followed, is_fuzzing_fd, FileOdd
<1>5. c.fd = -1 => ~is_fuzzing_fd(c.fd)
  BY DEF DataInv, is_fuzzing_fd
<1>6. CASE ~Reads(c) /\ ~Remaps(c)
  <2>1. Wrote(t, c) = {}
    BY <1>6 DEF Wrote, Filled
  <2>2. FileHook(c, t).writes = <<>>
    <3>1. /\ hook_open(c).writes = <<>> /\ hook_openat(c).writes = <<>> /\ hook_close(c).writes = <<>>
          /\ hook_dup(c).writes = <<>> /\ hook_dup2(c).writes = <<>>
      BY <1>2 DEF hook_open, hook_openat, hook_close, hook_dup, hook_dup2
    <3>2. c.nr \in {"read", "pread64"} => c.ret = 0
      BY <1>1, <1>6 DEF Reads, FileOdd
    <3>3. U(0) = 0
      BY <1>1, <1>3
    <3>4. /\ c.nr = "read" => hook_read(c, t) = Nothing
          /\ c.nr = "pread64" => hook_pread64(c, t) = Nothing
      BY <3>2, <3>3 DEF hook_read, hook_pread64
    <3>5. c.nr = "readv" => default_readv(c, t) = Nothing
      BY <1>1, <1>6 DEF Reads, default_readv
    <3>6. /\ c.nr = "mmap" => c.ret = -EPERM \/ "PROT_READ" \notin c.flags
          /\ c.nr = "munmap" => c.ret = -EPERM
      <4>1. Maps(c) => c.ret \in {-EPERM, -EOTHER}
        BY <1>6 DEF MapBytes, Remaps
      <4> QED BY <4>1 DEF Maps, FileOdd
    <3>7. /\ c.nr = "mmap" => hook_mmap(c) = Nothing
          /\ c.nr = "munmap" => hook_munmap(c) = Nothing
      BY <3>6 DEF hook_mmap, hook_munmap
    <3> QED BY <1>2, <3>1, <3>4, <3>5, <3>7 DEF FileHook
  <2> QED BY <2>1, <2>2, GoodNothing
<1>7. CASE Reads(c)
  <2>1. /\ Wrote(t, c) = Buf(t) .. Buf(t) + c.ret - 1 /\ Wrote(t, c) \subseteq Place(t, c)
        /\ c.ret \in 1 .. Count /\ c.fd \in Fd /\ Start(c) \in Nat
        /\ Start(c) = IF c.nr = "pread64" THEN c.off ELSE Seek(c.fd) - c.ret
        /\ \A b \in Addr \cap Wrote(t, c) :
              IF Source(c.fd) THEN Right(b, U(Start(c) + b - Buf(t))) ELSE Right(b, None)
    BY <1>7, ReadTags
  <2>2. c.ret \in Nat /\ c.ret > 0 /\ c.ret # 0 /\ c.nr \in {"read", "readv", "pread64"}
    BY <1>7, <2>1 DEF Reads
  <2>3. /\ c.nr = "pread64" => c.ret = Count
        /\ c.nr = "read" /\ is_fuzzing_fd(c.fd) => c.ret = Count
        /\ c.nr = "readv" => ~Source(c.fd)
        /\ c.nr = "read" /\ c.fd = 0 => stdin_read_off = Start(c)
    BY <1>1, <2>1, <2>2, SMTT(60) DEF FileOdd
  <2>4. U(c.ret) = c.ret /\ (c.ret = Count => Upto(c.ret) = c.ret)
    <3>1. c.ret \in 0 .. Count + 32 /\ Count + 32 \in 0 .. Count + 32
      BY <1>1, <2>1
    <3>2. U(c.ret) = c.ret /\ U(Count + 32) = Count + 32
      BY <1>3, <3>1
    <3> QED BY <1>1, <3>2 DEF Upto, Slack, Least
  <2>5. CASE ~Source(c.fd)
    <3>1. /\ \A b \in Addr \cap (Buf(t) .. Buf(t) + c.ret - 1) : Right(b, None) /\ b \in Place(t, c)
          /\ \A b \in Addr \cap Wrote(t, c) : b \in Buf(t) .. Buf(t) + c.ret - 1
      BY <2>1, <2>5
    <3>2. Good(t, c, tagmap_clrn(Buf(t), c.ret))
      BY <1>1, <2>2, <3>1, GoodClear
    <3>3. ~is_fuzzing_fd(c.fd)
      BY <1>4, <1>7, <2>1, <2>5
    <3>4. FileHook(c, t).writes = tagmap_clrn(Buf(t), c.ret)
      <4>1. c.nr = "read" => hook_read(c, t).writes = tagmap_clrn(Buf(t), c.ret)
        <5>1. hook_read(c, t) = [Nothing EXCEPT !.writes = tagmap_clrn(Buf(t), U(c.ret))]
          BY <2>2, <2>4, <3>3 DEF hook_read, is_fuzzing_fd
        <5>2. hook_read(c, t).writes = tagmap_clrn(Buf(t), U(c.ret))
          BY <1>2, <5>1
        <5> QED BY <2>4, <5>2
      <4>2. c.nr = "pread64" => hook_pread64(c, t).writes = tagmap_clrn(Buf(t), c.ret)
        BY <1>2, <2>2, <2>3, <2>4, <3>3 DEF hook_pread64
      <4>3. c.nr = "readv" => default_readv(c, t).writes = tagmap_clrn(Buf(t), c.ret)
        BY <1>1, <1>2, <2>2 DEF default_readv
      <4> QED BY <2>2, <4>1, <4>2, <4>3 DEF FileHook
    <3> QED BY <3>2, <3>4
  <2>6. CASE Source(c.fd)
    <3>1. PICK x \in Int : x = Start(c)
      BY <2>1
    <3>2. /\ \A b \in Addr \cap (Buf(t) .. Buf(t) + c.ret - 1) :
                Right(b, U(x + b - Buf(t))) /\ b \in Place(t, c)
          /\ \A b \in Addr \cap Wrote(t, c) : b \in Buf(t) .. Buf(t) + c.ret - 1
      BY <2>1, <2>6, <3>1
    <3>3. Good(t, c, Setn(Buf(t), Labels(x, c.ret)))
      BY <1>1, <2>2, <3>2, GoodLabels
    <3>4. is_fuzzing_fd(c.fd) /\ c.nr \in {"read", "pread64"} /\ Upto(c.ret) = c.ret
      BY <1>4, <1>7, <2>1, <2>2, <2>3, <2>4, <2>6
    <3>5. FileHook(c, t).writes = Setn(Buf(t), Labels(x, c.ret))
      <4>1. c.nr = "read" /\ c.fd = 0 => hook_read(c, t).writes = Setn(Buf(t), Labels(x, c.ret))
        BY <1>2, <2>2, <2>3, <2>4, <3>1, <3>4 DEF hook_read
      <4>2. c.nr = "read" /\ c.fd # 0 => hook_read(c, t).writes = Setn(Buf(t), Labels(x, c.ret))
        <5> SUFFICES ASSUME c.nr = "read", c.fd # 0
                     PROVE  hook_read(c, t).writes = Setn(Buf(t), Labels(x, c.ret))
          OBVIOUS
        <5>1. hook_read(c, t) = [Nothing EXCEPT !.writes =
                                   Setn(Buf(t), Labels(Seek(c.fd) - U(c.ret), Upto(U(c.ret))))]
          BY <2>2, <2>4, <3>4 DEF hook_read
        <5>2. hook_read(c, t).writes = Setn(Buf(t), Labels(Seek(c.fd) - U(c.ret), Upto(U(c.ret))))
          BY <1>2, <5>1
        <5>3. x = Seek(c.fd) - U(c.ret) /\ Upto(U(c.ret)) = c.ret
          BY <2>1, <2>4, <3>1, <3>4
        <5> QED BY <5>2, <5>3
      <4>3. c.nr = "pread64" => hook_pread64(c, t).writes = Setn(Buf(t), Labels(x, c.ret))
        BY <1>2, <2>1, <2>2, <2>4, <3>1, <3>4 DEF hook_pread64
      <4> QED BY <3>4, <4>1, <4>2, <4>3 DEF FileHook
    <3> QED BY <3>3, <3>5
  <2> QED BY <2>5, <2>6
<1>8. CASE Remaps(c) /\ c.nr = "mmap"
  <2>1. /\ c.ret = MapAddr /\ c.ret >= 0 /\ ~Reads(c) /\ Maps(c) /\ c.ret # -EPERM
        /\ c.fd # -1 => c.fd \in Fd
    BY <1>8 DEF MapBytes, Remaps, Reads, Maps, EPERM
  <2>2. "PROT_READ" \in c.flags => c.addr = MapAddr
    BY <1>8, <2>1 DEF FileOdd
  <2>3. /\ \A b \in Addr \cap Page :
              IF c.fd # -1 /\ Source(c.fd)
              THEN c.off + b - MapAddr < FileLen => Right(b, U(c.off + b - MapAddr))
              ELSE Right(b, None)
    BY <1>8, <2>1, MapTags
  <2>4. Wrote(t, c) = Page /\ Page \subseteq Place(t, c)
    BY <1>8, <2>1, Apart DEF Wrote, Filled, Place
  <2>5. c.len \in {1, PAGE_SIZE} /\ c.len \in Nat
    BY <1>1, <1>8 DEF Shape
  <2>6. ASSUME "PROT_READ" \in c.flags
        PROVE  FileHook(c, t).writes = IF is_fuzzing_fd(c.fd) THEN Setn(MapAddr, Labels(c.off, c.len))
                                       ELSE tagmap_clrn(MapAddr, c.len)
    <3>1. FileHook(c, t) = hook_mmap(c)
      BY <1>8 DEF FileHook
    <3> DEFINE w == IF is_fuzzing_fd(c.fd) THEN Setn(c.addr, Labels(c.off, c.len))
                    ELSE tagmap_clrn(c.addr, c.len)
    <3>2. hook_mmap(c) = [Nothing EXCEPT !.writes = w]
      BY <2>1, <2>6 DEF hook_mmap
    <3> HIDE DEF w
    <3>3. hook_mmap(c).writes = w
      BY <1>2, <3>2
    <3> QED BY <2>2, <2>6, <3>1, <3>3 DEF w
  <2>7. CASE is_fuzzing_fd(c.fd)
    <3>0. "PROT_READ" \in c.flags
      BY <1>8, <2>1, <2>7 DEF FileOdd
    <3>1. c.fd # -1 /\ Source(c.fd)
      BY <1>4, <1>5, <2>1, <2>7
    <3>2. c.len % PAGE_SIZE = 0 /\ c.len <= Avail(c.off)
      <4>1. Avail(c.off) \in Nat
        BY <1>1 DEF Avail
      <4> QED BY <1>8, <2>1, <2>5, <2>7, <4>1 DEF FileOdd
    <3>3. c.len = PAGE_SIZE
      <4>1. CASE PAGE_SIZE > 1
        BY <1>1, <2>5, <3>2, <4>1
      <4> QED BY <1>1, <2>5, <4>1
    <3>4. c.off + PAGE_SIZE <= FileLen
      BY <1>1, <3>2, <3>3 DEF Avail
    <3>5. Page = MapAddr .. MapAddr + c.len - 1
      BY <3>3 DEF Page
    <3>6. ASSUME NEW b \in Addr \cap Page PROVE Right(b, U(c.off + b - MapAddr))
      <4>1. c.off + b - MapAddr < FileLen
        BY <1>1, <3>4 DEF Page, Addr
      <4> QED BY <2>3, <3>1, <4>1
    <3>7. Good(t, c, Setn(MapAddr, Labels(c.off, c.len)))
      <4>1. PICK x \in Int, n \in Nat : x = c.off /\ n = c.len
        BY <1>1, <2>5
      <4>2. /\ \A b \in Addr \cap (MapAddr .. MapAddr + n - 1) :
                  Right(b, U(x + b - MapAddr)) /\ b \in Place(t, c)
            /\ \A b \in Addr \cap Wrote(t, c) : b \in MapAddr .. MapAddr + n - 1
        BY <2>4, <3>5, <3>6, <4>1
      <4>3. Good(t, c, Setn(MapAddr, Labels(x, n)))
        BY <1>1, <4>2, GoodLabels
      <4> QED BY <4>1, <4>3
    <3> QED BY <2>6, <2>7, <3>0, <3>7
  <2>8. CASE ~is_fuzzing_fd(c.fd)
    <3>1. \A b \in Addr \cap Page : Right(b, None)
      BY <1>4, <2>1, <2>3, <2>8
    <3>2. \A b \in Addr \cap Page : Right(b, flat[b])
      BY <1>8, <2>1, <3>1 DEF MapClean
    <3>3. MapAddr .. MapAddr + c.len - 1 \subseteq Page
      BY <1>1, <2>5 DEF Page
    <3>4. Good(t, c, tagmap_clrn(MapAddr, c.len))
      <4>1. PICK n \in Nat : n = c.len
        BY <2>5
      <4>2. /\ \A b \in Addr \cap (MapAddr .. MapAddr + n - 1) : Right(b, None) /\ b \in Place(t, c)
            /\ \A b \in Addr \cap Wrote(t, c) : Right(b, flat[b])
        BY <2>4, <3>1, <3>2, <3>3, <4>1
      <4>3. Good(t, c, tagmap_clrn(MapAddr, n))
        BY <1>1, <4>2, GoodClear
      <4> QED BY <4>1, <4>3
    <3>5. "PROT_READ" \notin c.flags => Good(t, c, FileHook(c, t).writes)
      <4>1. "PROT_READ" \notin c.flags => FileHook(c, t).writes = <<>>
        BY <1>2, <1>8 DEF FileHook, hook_mmap
      <4>2. Good(t, c, <<>>)
        BY <2>4, <3>2, GoodNothing
      <4> QED BY <4>1, <4>2
    <3> QED BY <2>6, <2>8, <3>4, <3>5
  <2> QED BY <2>7, <2>8
<1>9. CASE Remaps(c) /\ c.nr = "munmap"
  <2>1. /\ c.ret >= 0 /\ c.ret # -EPERM /\ c.addr = MapAddr /\ c.len = PAGE_SIZE /\ Maps(c) /\ ~Reads(c)
        /\ ~mapped
    BY <1>9 DEF Remaps, EPERM, Shape, Maps, Reads, MapBytes
  <2>2. Wrote(t, c) = Page /\ Page \subseteq Place(t, c)
    BY <1>9, <2>1, Apart DEF Wrote, Filled, Place
  <2>3. FileHook(c, t).writes = tagmap_clrn(MapAddr, PAGE_SIZE)
    <3>1. FileHook(c, t) = hook_munmap(c)
      BY <1>9 DEF FileHook
    <3>2. hook_munmap(c) = [Nothing EXCEPT !.writes = tagmap_clrn(MapAddr, PAGE_SIZE)]
      BY <2>1 DEF hook_munmap
    <3> QED BY <1>2, <3>1, <3>2
  <2>4. /\ \A b \in Addr \cap (MapAddr .. MapAddr + PAGE_SIZE - 1) :
              Right(b, None) /\ b \in Place(t, c)
        /\ \A b \in Addr \cap Wrote(t, c) : b \in MapAddr .. MapAddr + PAGE_SIZE - 1
    BY <2>1, <2>2 DEF Page, Right
  <2>5. Good(t, c, tagmap_clrn(MapAddr, PAGE_SIZE))
    BY <1>1, <2>4, GoodClear
  <2> QED BY <2>3, <2>5
<1> QED BY <1>6, <1>7, <1>8, <1>9 DEF Remaps, Maps

(* The library never tracks a negative descriptor. *)
LEMMA NoNegative ==
    ASSUME NEW c, NEW t, -1 \notin fdset
    PROVE  -1 \notin FileHook(c, t).set
PROOF
<1>1. /\ Nothing.set = fdset
      /\ \A w : [Nothing EXCEPT !.writes = w].set = fdset
      /\ \A o, w : Result(fdset, o, w).set = fdset
  BY DEF Nothing, Result
<1>2. \A f : -1 \notin add_fuzzing_fd(f).set
  BY <1>1 DEF add_fuzzing_fd, Nothing, Result
<1>3. -1 \notin hook_close(c).set
  BY <1>1 DEF hook_close, Nothing, Result
<1>4. /\ hook_pread64(c, t).set = fdset /\ default_readv(c, t).set = fdset
      /\ hook_mmap(c).set = fdset /\ hook_munmap(c).set = fdset
  BY <1>1 DEF hook_pread64, default_readv, hook_mmap, hook_munmap
<1>5. hook_read(c, t).set = fdset
  BY <1>1 DEF hook_read
<1>6. /\ -1 \notin hook_open(c).set /\ -1 \notin hook_openat(c).set
      /\ -1 \notin hook_dup(c).set /\ -1 \notin hook_dup2(c).set
  BY <1>1, <1>2 DEF hook_open, hook_openat, hook_dup, hook_dup2
<1> QED BY <1>1, <1>3, <1>4, <1>5, <1>6 DEF FileHook

(* At its callback a call knows whether its descriptor is tracked. *)
LEMMA ExitKnown ==
    ASSUME IoType, FdInv, ~odd, NEW t \in Threads, pc[t] = "exit", NEW c \in Calls, c = ctx[t],
           Reads(c) \/ Maps(c)
    PROVE  Known(c.fd)
PROOF
<1> SUFFICES ASSUME c.fd \in Followed, ~Known(c.fd) PROVE FALSE
  BY DEF Known
<1>1. c.fd \in Fd
  BY DEF Followed
<1>2. PICK u \in Threads : pc[u] = "exit" /\ Alters(ctx[u], c.fd)
  BY <1>1 DEF FdInv
<1>3. ~Alters(c, c.fd)
  BY DEF Alters, Opens, Closes, Reads, Maps
<1>4. u # t
  BY <1>2, <1>3
<1>5. c.fd \in Core(ctx[u])
  <2>1. Between(ctx[u])
    BY <1>2 DEF FdInv
  <2> QED BY <1>2, <2>1, AltersCore
<1>6. c.fd \in Core(ctx[t])
  BY DEF Core
<1> QED BY <1>1, <1>2, <1>4, <1>5, <1>6 DEF FdInv

LEMMA ExitTags ==
    ASSUME IoType, Sound, FdInv, DataInv, TagInv, NEW t \in Threads, sysexit_save(t)
    PROVE  DataInv' /\ TagInv'
PROOF
<1>1. PICK c \in Calls : c = ctx[t]
  BY DEF IoType
<1> DEFINE r == IF tool = "mytool" THEN MyHook(c, t) ELSE FileHook(c, t)
<1>2. /\ pc[t] = "exit" /\ fdset' = r.set /\ EndOfCall(t, r.writes = <<>>)
      /\ todo' = [todo EXCEPT ![t] = r.writes]
      /\ odd' = (odd \/ IF tool = "mytool" THEN MyOdd(c) ELSE FileOdd(c))
      /\ UNCHANGED <<tool, fds, pos, file, mem, mapped>> /\ flat' = flat
  BY <1>1 DEF sysexit_save
<1>3. /\ pc'[t] = IF r.writes = <<>> THEN "run" ELSE "tags"
      /\ r.writes # <<>> => ctx'[t] = c
      /\ todo'[t] = r.writes
      /\ \A u \in Threads \ {t} : pc'[u] = pc[u] /\ ctx'[u] = ctx[u] /\ todo'[u] = todo[u]
  BY <1>1, <1>2 DEF EndOfCall, IoType, Sound, MapType
<1>4. tool # "mytool" => -1 \notin fdset'
  BY <1>2, NoNegative DEF DataInv
<1>5. ASSUME ~odd'
      PROVE  Good(t, c, r.writes)
  <2>1. ~odd /\ (IF tool = "mytool" THEN ~MyOdd(c) ELSE ~FileOdd(c))
    BY <1>2, <1>5
  <2>2. Shape(c) /\ ReadBytes(t, c) /\ MapBytes(c) /\ MapClean(c)
    BY <1>1, <1>2, <2>1 DEF DataInv, TagInv
  <2>3. Reads(c) \/ Maps(c) => Known(c.fd)
    BY <1>1, <1>2, <2>1, ExitKnown
  <2>4. CASE tool = "mytool"
    BY <2>1, <2>2, <2>3, <2>4, MyGood
  <2>5. CASE tool # "mytool"
    BY <2>1, <2>2, <2>3, <2>5, FileGood
  <2> QED BY <2>4, <2>5
<1> HIDE DEF r
<1>6. DataInv'
  <2>1. \A u \in Threads : pc'[u] # "run" => Shape(ctx'[u])
    BY <1>1, <1>2, <1>3 DEF DataInv
  <2> QED BY <1>2, <1>4, <2>1, Zenon DEF DataInv, Shape
<1>7. TagInv'
  <2> SUFFICES ASSUME ~odd' PROVE TagInv'
    BY DEF TagInv
  <2>1. Good(t, c, r.writes) /\ ~odd
    BY <1>2, <1>5
  <2>2. /\ \A a \in Addr : Right(a, flat[a]) \/ \E u \in Threads : Owes(u, a)
        /\ \A u \in Threads : pc[u] = "tags" =>
             \A i \in 1 .. Len(todo[u]) : /\ Right(todo[u][i][1], todo[u][i][2])
                                          /\ todo[u][i][1] \in Place(u, ctx[u])
        /\ \A u \in Threads : pc[u] = "exit" =>
             ReadBytes(u, ctx[u]) /\ MapBytes(ctx[u]) /\ MapClean(ctx[u])
        /\ \A u, v \in Threads : u # v /\ pc[u] # "run" /\ pc[v] # "run" =>
             ~(Maps(ctx[u]) /\ Maps(ctx[v]))
    BY <2>1 DEF TagInv
  <2>3. \A a, x : Right(a, x)' <=> Right(a, x)
    BY <1>2 DEF Right, Want, Tracked
  <2>4. ASSUME NEW a \in Addr
        PROVE  Right(a, flat[a])' \/ \E u \in Threads : Owes(u, a)'
    <3>1. CASE Right(a, flat[a])
      BY <1>2, <2>3, <3>1
    <3>2. ASSUME NEW u \in Threads \ {t}, Owes(u, a) PROVE Owes(u, a)'
      <4>1. ctx'[u] = ctx[u] /\ pc'[u] = pc[u] /\ todo'[u] = todo[u]
        BY <1>3
      <4> QED BY <3>2, <4>1 DEF Owes, Wrote, Filled, Reads, Remaps, Listed
    <3>3. CASE Owes(t, a)
      <4>1. a \in Wrote(t, c)
        BY <1>1, <1>2, <3>3 DEF Owes
      <4>2. CASE Right(a, flat[a])
        BY <3>1, <4>2
      <4>3. CASE Listed(r.writes, a)
        <5>1. r.writes # <<>>
          BY <4>3 DEF Listed
        <5> QED BY <1>3, <4>3, <5>1 DEF Owes, Listed
      <4> QED BY <2>1, <4>1, <4>2, <4>3 DEF Good
    <3> QED BY <2>2, <3>1, <3>2, <3>3
  <2>5. ASSUME NEW u \in Threads, pc'[u] = "tags", NEW i \in 1 .. Len(todo'[u])
        PROVE  Right(todo[u][i][1], todo[u][i][2])' /\ todo'[u][i][1] \in Place(u, ctx'[u])
    <3>1. PICK a, x : a = todo'[u][i][1] /\ x = todo'[u][i][2]
      OBVIOUS
    <3>2. Right(a, x) /\ a \in Place(u, ctx'[u])
      <4>1. CASE u = t
        <5>1. ctx'[u] = c /\ todo'[u] = r.writes
          BY <1>3, <2>5, <4>1
        <5> QED BY <2>1, <2>5, <3>1, <4>1, <5>1 DEF Good
      <4>2. CASE u # t
        BY <1>3, <2>2, <2>5, <3>1, <4>2
      <4> QED BY <4>1, <4>2
    <3>3. Right(a, x)'
      BY <2>3, <3>2
    <3> QED BY <3>1, <3>2, <3>3
  <2>6. ASSUME NEW u \in Threads, pc'[u] = "exit"
        PROVE  ReadBytes(u, ctx[u])' /\ MapBytes(ctx[u])' /\ MapClean(ctx[u])'
    <3>1. u # t /\ pc[u] = "exit" /\ ctx'[u] = ctx[u]
      BY <1>3, <2>6
    <3>2. PICK k : k = ctx[u]
      OBVIOUS
    <3>3. ReadBytes(u, k) /\ MapBytes(k) /\ MapClean(k)
      BY <2>2, <3>1, <3>2
    <3>4. ReadBytes(u, k)' /\ MapBytes(k)' /\ MapClean(k)'
      BY <1>2, <3>3 DEF ReadBytes, Reads, Start, Filled, MapBytes, MapClean
    <3> QED BY <3>1, <3>2, <3>4
  <2>7. \A u, v \in Threads : u # v /\ pc'[u] # "run" /\ pc'[v] # "run" =>
             ~(Maps(ctx'[u]) /\ Maps(ctx'[v]))
    <3>1. \A u \in Threads : pc'[u] # "run" => ctx'[u] = ctx[u] /\ pc[u] # "run"
      BY <1>1, <1>2, <1>3
    <3> QED BY <2>2, <3>1
  <2> QED BY <2>4, <2>5, <2>6, <2>7 DEF TagInv, Maps, Place
<1> QED BY <1>6, <1>7

LEMMA WriteTags ==
    ASSUME IoType, Sound, DataInv, TagInv, NEW t \in Threads, SetTags(t)
    PROVE  DataInv' /\ TagInv'
PROOF
<1>1. /\ pc[t] = "tags" /\ todo[t] # <<>> /\ EndOfCall(t, todo'[t] = <<>>)
      /\ UNCHANGED <<tool, fdset, stdin_read_off, fds, pos, file, mem, mapped, odd>>
      /\ Done(t) \/ (todo' = todo /\ flat' = flat)
  BY DEF SetTags, tag_dir_setb_save_mem, TestTable, InstallTable, TestPage, InstallPage,
         WriteTag, GoTo
<1>2. /\ todo \in [Threads -> Seq(Addr \X Int)] /\ flat \in [Addr -> Int]
  BY DEF Sound, MapType
<1>3. /\ pc'[t] = IF todo'[t] = <<>> THEN "run" ELSE "tags"
      /\ todo'[t] # <<>> => ctx'[t] = ctx[t]
      /\ \A u \in Threads \ {t} : pc'[u] = pc[u] /\ ctx'[u] = ctx[u] /\ todo'[u] = todo[u]
  BY <1>1, <1>2 DEF EndOfCall, IoType, Done
<1>4. \A u \in Threads : pc'[u] # "run" => ctx'[u] = ctx[u] /\ pc[u] # "run"
  BY <1>1, <1>3
<1>5. DataInv'
  <2>1. \A u \in Threads : pc'[u] # "run" => Shape(ctx'[u])
    BY <1>4 DEF DataInv
  <2> QED BY <1>1, <2>1, Zenon DEF DataInv, Shape
<1>6. TagInv'
  <2> SUFFICES ASSUME ~odd' PROVE TagInv'
    BY DEF TagInv
  <2>1. ~odd
    BY <1>1
  <2>2. /\ \A a \in Addr : Right(a, flat[a]) \/ \E u \in Threads : Owes(u, a)
        /\ \A u \in Threads : pc[u] = "tags" =>
             \A i \in 1 .. Len(todo[u]) : /\ Right(todo[u][i][1], todo[u][i][2])
                                          /\ todo[u][i][1] \in Place(u, ctx[u])
        /\ \A u \in Threads : pc[u] = "exit" =>
             ReadBytes(u, ctx[u]) /\ MapBytes(ctx[u]) /\ MapClean(ctx[u])
        /\ \A u, v \in Threads : u # v /\ pc[u] # "run" /\ pc[v] # "run" =>
             ~(Maps(ctx[u]) /\ Maps(ctx[v]))
    BY <2>1 DEF TagInv
  <2>3. \A a, x : Right(a, x)' <=> Right(a, x)
    BY <1>1 DEF Right, Want, Tracked
  (* What is written is right, and the rest of the list stays. *)
  <2>4. /\ \A a \in Addr : flat'[a] = flat[a] \/ (Right(a, flat'[a]) /\ a \in Place(t, ctx[t]))
        /\ \A a \in Addr : Listed(todo[t], a) => Listed(todo'[t], a) \/ Right(a, flat'[a])
        /\ \A i \in 1 .. Len(todo'[t]) : \E j \in 1 .. Len(todo[t]) : todo'[t][i] = todo[t][j]
    <3>1. CASE todo' = todo /\ flat' = flat
      BY <3>1
    <3>2. CASE Done(t)
      <4>1. PICK w \in Seq(Addr \X Int) : w = todo[t]
        BY <1>2
      <4>2. /\ todo'[t] = Tail(w) /\ w # <<>>
            /\ flat' = [flat EXCEPT ![w[1][1]] = w[1][2]]
        BY <1>1, <1>2, <3>2, <4>1 DEF Done, Byte, Tag
      <4>3. /\ Len(w) \in Nat /\ Len(w) > 0 /\ Len(Tail(w)) = Len(w) - 1
            /\ \A i \in 1 .. Len(w) - 1 : Tail(w)[i] = w[i + 1]
            /\ w[1] \in Addr \X Int
        BY <4>2
      <4>4. Right(w[1][1], w[1][2]) /\ w[1][1] \in Place(t, ctx[t])
        BY <1>1, <2>2, <4>1, <4>3
      <4>5. w[1][1] \in Addr /\ \A a \in Addr : flat'[a] = IF a = w[1][1] THEN w[1][2] ELSE flat[a]
        BY <1>2, <4>2, <4>3
      <4>6. \A a \in Addr : flat'[a] = flat[a] \/ (Right(a, flat'[a]) /\ a \in Place(t, ctx[t]))
        BY <4>4, <4>5
      <4>7. ASSUME NEW a \in Addr, Listed(w, a) PROVE Listed(Tail(w), a) \/ Right(a, flat'[a])
        <5>1. PICK i \in 1 .. Len(w) : w[i][1] = a
          BY <4>7 DEF Listed
        <5>2. CASE i = 1
          BY <4>4, <4>5, <5>1, <5>2
        <5>3. CASE i # 1
          <6>1. i - 1 \in 1 .. Len(w) - 1 /\ (i - 1) + 1 = i
            BY <4>3, <5>3
          <6>2. Tail(w)[i - 1] = w[i]
            BY <4>3, <6>1
          <6> QED BY <4>3, <5>1, <6>1, <6>2 DEF Listed
        <5> QED BY <5>2, <5>3
      <4>8. \A i \in 1 .. Len(Tail(w)) : i + 1 \in 1 .. Len(w) /\ Tail(w)[i] = w[i + 1]
        BY <4>3
      <4> QED BY <4>1, <4>2, <4>6, <4>7, <4>8
    <3> QED BY <1>1, <3>1, <3>2
  <2>5. ASSUME NEW a \in Addr
        PROVE  Right(a, flat[a])' \/ \E u \in Threads : Owes(u, a)'
    <3>1. CASE Right(a, flat'[a])
      <4>1. PICK x : x = flat'[a]
        OBVIOUS
      <4>2. Right(a, x)'
        BY <2>3, <3>1, <4>1
      <4> QED BY <4>1, <4>2
    <3>2. CASE Right(a, flat[a])
      BY <2>4, <3>1, <3>2
    <3>3. ASSUME NEW u \in Threads \ {t}, Owes(u, a) PROVE Owes(u, a)'
      <4>1. ctx'[u] = ctx[u] /\ pc'[u] = pc[u] /\ todo'[u] = todo[u]
        BY <1>3
      <4> QED BY <3>3, <4>1 DEF Owes, Wrote, Filled, Reads, Remaps, Listed
    <3>4. CASE Owes(t, a)
      <4>1. Listed(todo[t], a)
        BY <1>1, <3>4 DEF Owes
      <4>2. CASE Listed(todo'[t], a)
        <5>1. todo'[t] # <<>>
          BY <4>2 DEF Listed
        <5> QED BY <1>3, <4>2, <5>1 DEF Owes, Listed
      <4> QED BY <2>4, <3>1, <4>1, <4>2
    <3> QED BY <2>2, <3>2, <3>3, <3>4
  <2>6. ASSUME NEW u \in Threads, pc'[u] = "tags", NEW i \in 1 .. Len(todo'[u])
        PROVE  Right(todo[u][i][1], todo[u][i][2])' /\ todo'[u][i][1] \in Place(u, ctx'[u])
    <3>1. PICK a, x : a = todo'[u][i][1] /\ x = todo'[u][i][2]
      OBVIOUS
    <3>2. Right(a, x) /\ a \in Place(u, ctx'[u])
      <4>1. CASE u = t
        <5>1. ctx'[t] = ctx[t]
          BY <1>4, <2>6, <4>1
        <5> QED BY <1>1, <2>2, <2>4, <2>6, <3>1, <4>1, <5>1
      <4>2. CASE u # t
        BY <1>3, <2>2, <2>6, <3>1, <4>2
      <4> QED BY <4>1, <4>2
    <3>3. Right(a, x)'
      BY <2>3, <3>2
    <3> QED BY <3>1, <3>2, <3>3
  <2>7. ASSUME NEW u \in Threads, pc'[u] = "exit"
        PROVE  ReadBytes(u, ctx[u])' /\ MapBytes(ctx[u])' /\ MapClean(ctx[u])'
    <3>1. u # t /\ pc[u] = "exit" /\ ctx'[u] = ctx[u]
      BY <1>3, <2>7
    <3>2. PICK k : k = ctx[u]
      OBVIOUS
    <3>3. ReadBytes(u, k) /\ MapBytes(k) /\ MapClean(k)
      BY <2>2, <3>1, <3>2
    <3>4. ReadBytes(u, k)' /\ MapBytes(k)'
      BY <1>1, <3>3 DEF ReadBytes, Reads, Start, Filled, MapBytes
    <3>5. MapClean(k)'
      <4> SUFFICES ASSUME k.nr = "mmap", k.ret >= 0, tool # "mytool", NEW a \in Addr \cap Page
                   PROVE  flat'[a] = None
        BY <1>1 DEF MapClean
      <4>1. flat[a] = None
        BY <3>3 DEF MapClean
      <4>2. ~Maps(ctx[t])
        BY <1>1, <2>2, <3>1, <3>2 DEF Maps
      <4>3. a \notin Place(t, ctx[t])
        BY <4>2, Apart DEF Place
      <4> QED BY <2>4, <4>1, <4>3
    <3> QED BY <3>1, <3>2, <3>4, <3>5
  <2>8. \A u, v \in Threads : u # v /\ pc'[u] # "run" /\ pc'[v] # "run" =>
             ~(Maps(ctx'[u]) /\ Maps(ctx'[v]))
    BY <1>4, <2>2
  <2> QED BY <2>5, <2>6, <2>7, <2>8 DEF TagInv, Maps, Place
<1> QED BY <1>5, <1>6

LEMMA TagsInitial ==
    ASSUME Init
    PROVE  DataInv /\ TagInv
PROOF
<1>1. /\ pos = <<0>> /\ mem = [a \in Addr |-> Foreign] /\ mapped = FALSE /\ fdset = {}
      /\ flat = [a \in Addr |-> None] /\ pc = [t \in Threads |-> "run"]
  BY DEF Init, MapInit
<1>2. Foreign \in Files \X Nat
  BY DEF Foreign, Files
<1>3. DataInv
  <2>1. \A i \in 1 .. Len(pos) : pos[i] <= FileLen
    BY <1>1, InputAssumption
  <2>2. mem \in [Addr -> Files \X Nat] /\ \A a \in Addr : mem[a] = Foreign
    BY <1>1, <1>2
  <2>3. mapped \in BOOLEAN
    BY <1>1, Zenon
  <2> QED BY <1>1, <2>1, <2>2, <2>3 DEF DataInv
<1>4. \A a \in Addr : Right(a, flat[a])
  <2>1. \A a \in Addr : mem[a][1] = "other" /\ flat[a] = None
    BY <1>1 DEF Foreign
  <2>2. "other" \notin Tracked
    BY DEF Tracked
  <2> QED BY <2>1, <2>2 DEF Right, Want
<1> QED BY <1>1, <1>3, <1>4 DEF TagInv

(* Every byte that a tracked file gave to the program carries the offset   *)
(* it was read from, and no other byte carries a tag, whatever calls any   *)
(* number of threads have made in any order, in none of which something    *)
(* odd happened: the callbacks of mytool and of hook_file_syscall, run     *)
(* between the steps of other threads, tag what the kernel has written,    *)
(* and set_tags leaves nothing behind.                                     *)
THEOREM OffsetsExact == Spec => []TagsExact
PROOF
<1> DEFINE Inv == IoType /\ Sound /\ FdInv /\ DataInv /\ TagInv
<1>1. Init => Inv
  BY MapInitial, FdsInitial, TagsInitial
<1>2. Inv /\ [Next]_vars => Inv'
  <2> SUFFICES ASSUME Inv, [Next]_vars PROVE Inv'
    OBVIOUS
  <2>1. IoType' /\ Sound' /\ FdInv'
    BY FdStep
  <2>2. CASE UNCHANGED vars
    <3>1. DataInv'
      BY <2>2, SMTT(60) DEF DataInv, Shape, vars, iovars
    <3>2. TagInv'
      BY <2>2 DEF TagInv, Right, Want, Tracked, Owes, Wrote, Filled, Reads, Remaps, Maps, Listed,
                  Place, ReadBytes, Start, MapBytes, MapClean, vars, iovars, mapvars
    <3> QED BY <2>1, <3>1, <3>2
  <2>3. ASSUME NEW t \in Threads, NEW c \in Syscalls, sysenter_save(t, c)
        PROVE  DataInv' /\ TagInv'
    BY <2>3, EnterTags
  <2>4. ASSUME NEW t \in Threads, sysexit_save(t) PROVE DataInv' /\ TagInv'
    BY <2>4, ExitTags
  <2>5. ASSUME NEW t \in Threads, SetTags(t) PROVE DataInv' /\ TagInv'
    BY <2>5, WriteTags
  <2> QED BY <2>1, <2>2, <2>3, <2>4, <2>5 DEF Next
<1>3. Inv => TagsExact
  <2> SUFFICES ASSUME Inv, ~odd, ~lost, NEW a \in Addr \ Busy
               PROVE  tagmap_getb(a) = Want(a)
    BY DEF TagsExact
  <2>1. tagmap_getb(a) = flat[a]
    BY DEF Sound, FlatMap
  <2>2. \A u \in Threads : pc[u] # "run" => a \notin Place(u, ctx[u])
    BY DEF Busy, Mapping, Place, Buffer
  <2>3. ASSUME NEW u \in Threads, Owes(u, a) PROVE FALSE
    <3>1. CASE pc[u] = "exit"
      <4>1. ctx[u] \in Calls /\ ReadBytes(u, ctx[u])
        BY <3>1 DEF IoType, TagInv
      <4> QED BY <2>2, <2>3, <3>1, <4>1, OwesPlace DEF Owes
    <3>2. CASE pc[u] = "tags"
      <4>1. \A i \in 1 .. Len(todo[u]) : todo[u][i][1] \in Place(u, ctx[u])
        BY <3>2 DEF TagInv
      <4> QED BY <2>2, <2>3, <3>2, <4>1 DEF Owes, Listed
    <3> QED BY <2>3, <3>1, <3>2 DEF Owes
  <2>4. Right(a, flat[a])
    BY <2>3 DEF TagInv
  <2>5. a \in Page => mapped
    BY Apart DEF Busy
  <2> QED BY <2>1, <2>4, <2>5 DEF Right
<1> QED BY <1>1, <1>2, <1>3, PTL DEF Spec
=============================================================================
