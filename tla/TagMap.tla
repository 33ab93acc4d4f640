------------------------------- MODULE TagMap -------------------------------
(***************************************************************************)
(* The shadow memory of src/tagmap.cpp: a directory of tables of pages of  *)
(* tags, allocated when the first tag that is not empty is written.  One   *)
(* step is one access to a pointer or tag that threads share; nothing is   *)
(* locked.  todo[t] is the list of bytes thread t has still to write, in   *)
(* the order of the loops around tagmap_setb; at[t] is the place in        *)
(* tag_dir_setb_save_mem.                                                  *)
(***************************************************************************)
EXTENDS Integers, Sequences
CONSTANTS Threads,
          PAGE_SIZE,      \* tags in a page
          PAGETABLE_SZ,   \* pages in a table
          Limit           \* the highest address of the directory
ASSUME MapAssumption ==
    PAGE_SIZE \in Nat \ {0} /\ PAGETABLE_SZ \in Nat \ {0} /\ Limit \in Nat
VARIABLES dir,       \* tag_dir.table: index of a table, or 0
          tables,    \* the tables allocated: indices of pages, or 0
          pages,     \* the pages allocated
          todo, at,
          table, page,    \* the local pointers of tag_dir_setb_save_mem
          flat,      \* the tags last written, as if memory were an array
          lost       \* an allocated table or page has been overwritten
mapvars == <<dir, tables, pages, todo, at, table, page, flat, lost>>

Addr == 0 .. Limit
None == -1                     \* tag_traits::cleared_val
VIRT2PAGETABLE(a) == a \div (PAGE_SIZE * PAGETABLE_SZ)
(* Mutant: the shift of the table is used for the page. *)
ShiftTooFar(a) == VIRT2PAGETABLE(a) % PAGETABLE_SZ
VIRT2PAGE(a) == (a \div PAGE_SIZE) % PAGETABLE_SZ
VIRT2OFFSET(a) == a % PAGE_SIZE

MapInit ==
    /\ dir = [i \in 0 .. VIRT2PAGETABLE(Limit) |-> 0]
    /\ tables = <<>> /\ pages = <<>>
    /\ todo = [t \in Threads |-> <<>>]
    /\ at = [t \in Threads |-> "table"]
    /\ table = [t \in Threads |-> 0] /\ page = [t \in Threads |-> 0]
    /\ flat = [a \in Addr |-> None]
    /\ lost = FALSE

(* What tagmap_getb returns. *)
tagmap_getb(a) ==
    LET tb == dir[VIRT2PAGETABLE(a)]
        pg == IF tb = 0 THEN 0 ELSE tables[tb][VIRT2PAGE(a)]
    IN  IF pg = 0 THEN None ELSE pages[pg][VIRT2OFFSET(a)]

(* The writes of tagmap_setb and tagmap_clrn; addresses beyond the limit   *)
(* are dropped.                                                            *)
Setn(a, tags) == [i \in 1 .. LET fit == Limit - a + 1
                            IN  IF Len(tags) <= fit THEN Len(tags)
                                ELSE IF fit > 0 THEN fit ELSE 0
                  |-> <<a + i - 1, tags[i]>>]
tagmap_clrn(a, n) == Setn(a, [i \in 1 .. n |-> None])

Byte(t) == todo[t][1][1]
Tag(t) == todo[t][1][2]
GoTo(t, l) == at' = [at EXCEPT ![t] = l] /\ UNCHANGED <<todo, flat>>
Done(t) == /\ todo' = [todo EXCEPT ![t] = Tail(@)]
           /\ at' = [at EXCEPT ![t] = "table"]
           /\ table' = [table EXCEPT ![t] = 0] /\ page' = [page EXCEPT ![t] = 0]
           /\ flat' = [flat EXCEPT ![Byte(t)] = Tag(t)]

TestTable(t) ==
    LET tb == dir[VIRT2PAGETABLE(Byte(t))]
    IN  /\ at[t] = "table"
        /\ \/ /\ tb = 0 /\ Tag(t) = None
              /\ Done(t)
           \/ /\ tb = 0 /\ Tag(t) # None
              /\ GoTo(t, "newtable") /\ UNCHANGED <<table, page>>
           \/ /\ tb # 0
              /\ GoTo(t, "page")
              /\ table' = [table EXCEPT ![t] = tb] /\ UNCHANGED page
        /\ UNCHANGED <<dir, tables, pages, lost>>

(* The table is read again after it has been installed. *)
InstallTable(t) ==
    LET i == VIRT2PAGETABLE(Byte(t))
    IN  /\ at[t] = "newtable"
        /\ tables' = Append(tables, [p \in 0 .. PAGETABLE_SZ - 1 |-> 0])
        /\ dir' = [dir EXCEPT ![i] = Len(tables) + 1]
        /\ lost' = (lost \/ dir[i] # 0)
        /\ GoTo(t, "table")
        /\ UNCHANGED <<pages, table, page>>

TestPage(t) ==
    LET pg == tables[table[t]][VIRT2PAGE(Byte(t))]
    IN  /\ at[t] = "page"
        /\ \/ /\ pg = 0 /\ Tag(t) = None
              /\ Done(t)
           \/ /\ pg = 0 /\ Tag(t) # None
              /\ GoTo(t, "newpage") /\ UNCHANGED <<table, page>>
           \/ /\ pg # 0
              /\ GoTo(t, "write")
              /\ page' = [page EXCEPT ![t] = pg] /\ UNCHANGED table
        /\ UNCHANGED <<dir, tables, pages, lost>>

InstallPage(t) ==
    LET tb == table[t]  i == VIRT2PAGE(Byte(t))
    IN  /\ at[t] = "newpage"
        /\ pages' = Append(pages, [o \in 0 .. PAGE_SIZE - 1 |-> None])
        /\ tables' = [tables EXCEPT ![tb][i] = Len(pages) + 1]
        /\ lost' = (lost \/ tables[tb][i] # 0)
        /\ GoTo(t, "page")
        /\ UNCHANGED <<dir, table, page>>

WriteTag(t) ==
    /\ at[t] = "write"
    /\ pages' = [pages EXCEPT ![page[t]][VIRT2OFFSET(Byte(t))] = Tag(t)]
    /\ Done(t)
    /\ UNCHANGED <<dir, tables, lost>>

tag_dir_setb_save_mem(t) ==
    /\ todo[t] # <<>>
    /\ \/ TestTable(t) \/ InstallTable(t) \/ TestPage(t) \/ InstallPage(t)
       \/ WriteTag(t)
=============================================================================
