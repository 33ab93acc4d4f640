---------------------------- MODULE Lace_proofs -----------------------------
(***************************************************************************)
(* Theorems about Lace for any number of threads and workers.  The stacks  *)
(* of steps are reasoned about through one relation: which step may lie    *)
(* under which (Under), the call graph of the code.                        *)
(***************************************************************************)
EXTENDS Lace, SequenceTheorems, FiniteSetTheorems, TLAPS

-----------------------------------------------------------------------------
(* What may lie under a step: the continuations of its callers.            *)
Frame == {"copy", "read", "add", "spin", "reset", "flip", "leave", "steal", "mark", "help"}
Run   == {"set_steal", "set_together", "clear", "collect", "done"}
Mail  == {"answer", "reply", "loop"}
Oper  == {"retry", "work"} \cup Mail
Ends  == {"release", "leave_alive", "xunlock"}
Names == Frame \cup Run \cup Oper \cup Ends
         \cup {"init", "ready", "xlock", "gc", "gc_off", "glock", "gunlock", "await"}
Step  == Names \X Int

Under(n) ==
    CASE n = "init" -> {"ready", "loop"}
      [] n = "ready" -> {"loop"}
      [] n = "loop" -> {}
      [] n = "reply" -> {"loop"}
      [] n = "answer" -> {"reply", "loop"}
      [] n = "work" -> Mail
      [] n = "retry" -> {"work"} \cup Mail
      [] n \in {"gc", "gc_off"} -> Oper
      [] n = "gunlock" -> {"gc_off"} \cup Oper
      [] n = "await" -> {"copy"} \cup Oper
      [] n \in Run \cup {"glock"} -> Frame \cup Run \cup {"gunlock", "gc_off"} \cup Oper
      [] n \in Frame -> Frame \cup Run \cup {"gunlock", "gc_off", "xlock"} \cup Oper \cup Ends
      [] n = "xlock" -> Ends
      [] n = "release" -> {"leave_alive", "xunlock"}
      [] n = "leave_alive" -> {"xunlock"}
      [] n = "xunlock" -> {}

Name(w, i) == st[w][i][1]
OrderedStack(w) == \A i, j \in DOMAIN st[w] : i < j => Name(w, j) \in Under(Name(w, i))
Ordered == \A w \in Id : OrderedStack(w)

TypeInv ==
    /\ app \in [Threads -> {"off", "lock", "spawn", "idle", "wait", "quit"}]
    /\ mine \in [Threads -> Id \cup {NULL}] /\ quit \in [Threads -> {0, 1}]
    /\ task_type \in [Id -> {0, 1}] /\ arg \in [Id -> Int] /\ res \in [Id -> Int]
    /\ owner \in [Id -> Threads \cup {NULL}]
    /\ spawn_exit_lock \in {0, 1} /\ nid \in Nat /\ wait \in Int
    /\ st \in [Id -> Seq(Step)]

(* spawn_exit_lock is set while there is a holder, and there is one. *)
LockInv ==
    /\ spawn_exit_lock = 0 => Holders = {}
    /\ spawn_exit_lock = 1 => \E x : Holders = {x}

(* The steps that are there together: what is to be locked is still to be  *)
(* unlocked, and a worker that has not ended is in its loop or about to    *)
(* release its thread.                                                     *)
StackOf(w) ==
    /\ Has(w, {"xlock"}) => Has(w, {"xunlock"})
    /\ Has(w, {"glock"}) => Has(w, {"gunlock"})
    /\ Has(w, {"init"}) => Has(w, {"ready"}) /\ w = nid
    /\ Has(w, Names \ {"leave_alive", "xunlock"}) => Has(w, {"loop", "release"})
    /\ w >= nid /\ ~Has(w, {"init"}) => ~Has(w, Names)

(* The mailbox: a request is open while its thread waits for it, and the   *)
(* worker works on open requests only.                                     *)
MailOf(w) ==
    /\ Has(w, {"work", "answer", "reply"}) => task_type[w] = 1
    /\ Has(w, {"reply"}) /\ ~Has(w, {"answer"}) => res[w] = arg[w]
    /\ task_type[w] = 0 => res[w] = arg[w]
    /\ task_type[w] = 1 => \E t \in Threads : app[t] = "wait" /\ mine[t] = w

(* A thread and its worker know each other until the worker acknowledges   *)
(* the end of the thread.                                                  *)
Served == {"idle", "wait", "quit"}
ThreadOf(t) ==
    /\ app[t] \in Served => /\ mine[t] \in Id /\ owner[mine[t]] = t
                            /\ mine[t] < nid \/ Has(mine[t], {"init"})
    /\ quit[t] # 0 => app[t] = "quit"
    /\ app[t] = "quit" /\ quit[t] = 0 => ~Has(mine[t], {"loop", "release"})
OwnerOf(w) ==
    /\ Has(w, {"loop", "release"}) => /\ owner[w] \in Threads
                                      /\ app[owner[w]] \in Served /\ mine[owner[w]] = w
    /\ Has(w, {"release"}) => quit[owner[w]] = 1

StopInv == state = "stopped" => \A t \in Threads : app[t] = "off"

IInv == /\ TypeInv /\ Ordered /\ LockInv /\ StopInv
        /\ \A w \in Id : StackOf(w) /\ MailOf(w) /\ OwnerOf(w)
        /\ \A t \in Threads : ThreadOf(t)

-----------------------------------------------------------------------------
(* Stacks.                                                                 *)

(* The names of a sequence of steps. *)
NamesOf(seq) == {seq[i][1] : i \in DOMAIN seq}

(* The sequence new takes the place of the top step of w: seen through     *)
(* Has, the names below the top stay and those of new come on top.         *)
Replaces(w, new) == st[w] # <<>> /\ st' = [st EXCEPT ![w] = new \o Tail(@)]
Fits(w, new) ==
    /\ new \in Seq(Step)
    /\ \A i, j \in DOMAIN new : i < j => new[j][1] \in Under(new[i][1])
    /\ \A i \in DOMAIN new : Under(Top(w)) \subseteq Under(new[i][1])

LEMMA ReplaceStack ==
    ASSUME TypeInv, Ordered, NEW w \in Id, NEW new, Replaces(w, new), Fits(w, new)
    PROVE  /\ st' \in [Id -> Seq(Step)] /\ Ordered'
           /\ \A v \in Id \ {w} : st'[v] = st[v]
           /\ Top(w) \in Names
           /\ \E B \in SUBSET Under(Top(w)) :
                 \A M : /\ Has(w, M) <=> Top(w) \in M \/ B \cap M # {}
                        /\ Has(w, M)' <=> NamesOf(new) \cap M # {} \/ B \cap M # {}
PROOF
<1> DEFINE s == st[w]
           t == Tail(s)
           r == st'[w]
           B == NamesOf(t)
<1>1. s \in Seq(Step) /\ s # <<>> /\ new \in Seq(Step)
  BY DEF TypeInv, Replaces, Fits
<1>2. /\ Len(s) \in Nat /\ Len(s) >= 1 /\ DOMAIN s = 1 .. Len(s)
      /\ t \in Seq(Step) /\ Len(t) = Len(s) - 1 /\ DOMAIN t = 1 .. Len(s) - 1
      /\ \A i \in DOMAIN t : t[i] = s[i + 1]
  BY <1>1
<1>3. Head(s) = s[1] /\ s[1] \in Step /\ Top(w) = s[1][1] /\ Top(w) \in Names
  BY <1>1, <1>2 DEF Top, Step
<1>4. r = new \o t /\ st' = [st EXCEPT ![w] = r]
  BY DEF Replaces, TypeInv
<1>5. /\ r \in Seq(Step) /\ Len(new) \in Nat /\ DOMAIN new = 1 .. Len(new)
      /\ Len(r) = Len(new) + Len(t) /\ DOMAIN r = 1 .. Len(new) + Len(t)
      /\ \A i \in DOMAIN new : i \in DOMAIN r /\ r[i] = new[i]
      /\ \A i \in DOMAIN t : i + Len(new) \in DOMAIN r /\ r[i + Len(new)] = t[i]
  BY <1>1, <1>2, <1>4, SMTT(60)
<1>6. \A k \in DOMAIN r : k \in DOMAIN new \/ \E i \in DOMAIN t : k = i + Len(new)
  <2> SUFFICES ASSUME NEW k \in DOMAIN r, k \notin DOMAIN new
               PROVE  \E i \in DOMAIN t : k = i + Len(new)
    OBVIOUS
  <2>1. k - Len(new) \in DOMAIN t /\ k = (k - Len(new)) + Len(new)
    BY <1>2, <1>5
  <2> QED BY <2>1
<1>7. \A i, j \in DOMAIN s : i < j => s[j][1] \in Under(s[i][1])
  BY DEF Ordered, OrderedStack, Name
<1>8. B \subseteq Under(Top(w))
  <2>1. ASSUME NEW i \in DOMAIN t
        PROVE  t[i][1] \in Under(s[1][1])
    <3>1. 1 \in DOMAIN s /\ i + 1 \in DOMAIN s /\ 1 < i + 1
      BY <1>2
    <3> QED BY <1>2, <1>7, <3>1
  <2> QED BY <1>3, <2>1 DEF NamesOf
<1> HIDE DEF s, t, r
<1>9. \A v \in Id \ {w} : st'[v] = st[v]
  BY <1>4 DEF TypeInv
<1>10. st' \in [Id -> Seq(Step)]
  BY <1>4, <1>5 DEF TypeInv
<1>11. OrderedStack(w)'
  <2> SUFFICES ASSUME NEW i \in DOMAIN r, NEW j \in DOMAIN r, i < j
               PROVE  r[j][1] \in Under(r[i][1])
    BY DEF OrderedStack, Name, r
  <2>1. CASE i \in DOMAIN new /\ j \in DOMAIN new
    BY <1>5, <2>1 DEF Fits
  <2>2. ASSUME i \in DOMAIN new, NEW k \in DOMAIN t, j = k + Len(new)
        PROVE  r[j][1] \in Under(r[i][1])
    <3>1. r[j] = t[k] /\ r[i] = new[i] /\ t[k][1] \in B
      BY <1>5, <2>2 DEF NamesOf
    <3> QED BY <1>8, <2>2, <3>1 DEF Fits
  <2>3. ASSUME NEW m \in DOMAIN t, i = m + Len(new), NEW k \in DOMAIN t, j = k + Len(new)
        PROVE  r[j][1] \in Under(r[i][1])
    <3>1. m < k /\ m + 1 \in DOMAIN s /\ k + 1 \in DOMAIN s /\ m + 1 < k + 1
      BY <1>2, <1>5, <2>3, SMTT(60)
    <3>2. r[j] = s[k + 1] /\ r[i] = s[m + 1]
      BY <1>2, <1>5, <2>3
    <3> QED BY <1>7, <3>1, <3>2
  <2>4. ASSUME NEW m \in DOMAIN t, i = m + Len(new), j \in DOMAIN new
        PROVE  FALSE
    BY <1>2, <1>5, <2>4, SMTT(60)
  <2> QED BY <1>6, <2>1, <2>2, <2>3, <2>4
<1>12. Ordered'
  <2>1. ASSUME NEW v \in Id, v # w
        PROVE  OrderedStack(v)'
    BY <1>9, <2>1 DEF Ordered, OrderedStack, Name
  <2> QED BY <1>11, <2>1 DEF Ordered
<1>13. ASSUME NEW M
       PROVE  Has(w, M) <=> Top(w) \in M \/ B \cap M # {}
  <2>1. ASSUME NEW i \in DOMAIN s, s[i][1] \in M
        PROVE  Top(w) \in M \/ B \cap M # {}
    <3>1. CASE i = 1
      BY <1>3, <2>1, <3>1
    <3>2. CASE i # 1
      <4>1. i - 1 \in DOMAIN t /\ t[i - 1] = s[i]
        BY <1>2, <3>2
      <4> QED BY <2>1, <4>1 DEF NamesOf
    <3> QED BY <3>1, <3>2
  <2>2. ASSUME Top(w) \in M
        PROVE  \E i \in DOMAIN s : s[i][1] \in M
    <3>1. 1 \in DOMAIN s
      BY <1>2
    <3> QED BY <1>3, <2>2, <3>1
  <2>3. ASSUME B \cap M # {}
        PROVE  \E i \in DOMAIN s : s[i][1] \in M
    <3>1. PICK i \in DOMAIN t : t[i][1] \in M
      BY <2>3 DEF NamesOf
    <3>2. i + 1 \in DOMAIN s /\ s[i + 1][1] \in M
      BY <1>2, <3>1
    <3> QED BY <3>2
  <2> QED BY <2>1, <2>2, <2>3 DEF Has, s
<1>14. ASSUME NEW M
       PROVE  Has(w, M)' <=> NamesOf(new) \cap M # {} \/ B \cap M # {}
  <2>1. ASSUME NEW k \in DOMAIN r, r[k][1] \in M
        PROVE  NamesOf(new) \cap M # {} \/ B \cap M # {}
    BY <1>5, <1>6, <2>1 DEF NamesOf
  <2>2. ASSUME NamesOf(new) \cap M # {}
        PROVE  \E k \in DOMAIN r : r[k][1] \in M
    BY <1>5, <2>2 DEF NamesOf
  <2>3. ASSUME B \cap M # {}
        PROVE  \E k \in DOMAIN r : r[k][1] \in M
    <3>1. PICK i \in DOMAIN t : t[i][1] \in M
      BY <2>3 DEF NamesOf
    <3> QED BY <1>5, <3>1
  <2> QED BY <2>1, <2>2, <2>3 DEF Has, r
<1> HIDE DEF B
<1> QED BY <1>3, <1>8, <1>9, <1>10, <1>12, <1>13, <1>14

(* The relation, name by name. *)
LEMMA UnderFacts ==
    /\ Under("init") = {"ready", "loop"}
    /\ Under("ready") = {"loop"}
    /\ Under("loop") = {}
    /\ Under("reply") = {"loop"}
    /\ Under("answer") = {"reply", "loop"}
    /\ Under("work") = {"answer", "reply", "loop"}
    /\ Under("retry") = {"work", "answer", "reply", "loop"}
    /\ Under("gc") = Oper /\ Under("gc_off") = Oper
    /\ Under("gunlock") = {"gc_off"} \cup Oper
    /\ Under("await") = {"copy"} \cup Oper
    /\ \A n \in Run \cup {"glock"} :
          Under(n) = Frame \cup Run \cup {"gunlock", "gc_off"} \cup Oper
    /\ \A n \in Frame :
          Under(n) = Frame \cup Run \cup {"gunlock", "gc_off", "xlock"} \cup Oper \cup Ends
    /\ Under("xlock") = {"release", "leave_alive", "xunlock"}
    /\ Under("release") = {"leave_alive", "xunlock"}
    /\ Under("leave_alive") = {"xunlock"}
    /\ Under("xunlock") = {}
PROOF
<1> USE DEF Under, Frame, Run, Mail, Oper, Ends
<1>1. /\ Under("init") = {"ready", "loop"}
      /\ Under("ready") = {"loop"} /\ Under("loop") = {} /\ Under("reply") = {"loop"}
      /\ Under("answer") = {"reply", "loop"} /\ Under("work") = {"answer", "reply", "loop"}
      /\ Under("retry") = {"work", "answer", "reply", "loop"}
  OBVIOUS
<1>2. /\ Under("gc") = Oper /\ Under("gc_off") = Oper
      /\ Under("gunlock") = {"gc_off"} \cup Oper
      /\ Under("await") = {"copy"} \cup Oper
  OBVIOUS
<1>3. \A n \in Run \cup {"glock"} :
         Under(n) = Frame \cup Run \cup {"gunlock", "gc_off"} \cup Oper
  OBVIOUS
<1>4. \A n \in Frame :
         Under(n) = Frame \cup Run \cup {"gunlock", "gc_off", "xlock"} \cup Oper \cup Ends
  OBVIOUS
<1>5. /\ Under("xlock") = {"release", "leave_alive", "xunlock"}
      /\ Under("release") = {"leave_alive", "xunlock"}
      /\ Under("leave_alive") = {"xunlock"} /\ Under("xunlock") = {}
  OBVIOUS
<1> QED BY <1>1, <1>2, <1>3, <1>4, <1>5

(* Replacements that fit. *)
LEMMA PopFits ==
    ASSUME NEW w \in Id, st[w] # <<>>, Pop(w), TypeInv
    PROVE  Replaces(w, <<>>) /\ Fits(w, <<>>) /\ NamesOf(<<>>) = {}
PROOF
<1>1. <<>> \o Tail(st[w]) = Tail(st[w])
  BY DEF TypeInv
<1> QED BY <1>1 DEF Pop, Replaces, Fits, NamesOf

LEMMA StepsFit ==
    ASSUME NEW w \in Id, NEW names \in Seq(Names),
           \A i, j \in DOMAIN names : i < j => names[j] \in Under(names[i]),
           \A i \in DOMAIN names : Under(Top(w)) \subseteq Under(names[i])
    PROVE  Fits(w, Steps(names)) /\ NamesOf(Steps(names)) = {names[i] : i \in DOMAIN names}
PROOF
<1>1. DOMAIN names = 1 .. Len(names) /\ Len(names) \in Nat /\ \A i \in DOMAIN names : names[i] \in Names
  OBVIOUS
<1>2. Steps(names) = [i \in 1 .. Len(names) |-> <<names[i], 0>>]
  BY <1>1 DEF Steps, S
<1>3. Steps(names) \in Seq(Step) /\ DOMAIN Steps(names) = DOMAIN names
  BY <1>1, <1>2 DEF Step
<1>4. \A i \in DOMAIN names : Steps(names)[i][1] = names[i]
  BY <1>1, <1>2
<1> QED BY <1>3, <1>4 DEF Fits, NamesOf

LEMMA FrameFits ==
    ASSUME NEW w \in Id, NEW new \in Seq((Frame \cup Run) \X Int),
           \/ Top(w) \in Run
           \/ Top(w) \in Frame /\ \A i \in DOMAIN new : new[i][1] \in Frame
    PROVE  Fits(w, new) /\ NamesOf(new) \subseteq Frame \cup Run
PROOF
<1>1. \A i \in DOMAIN new : new[i] \in Step /\ new[i][1] \in Frame \cup Run
  BY DEF Step, Names
<1>2. new \in Seq(Step)
  BY <1>1
<1>3. ASSUME NEW i \in DOMAIN new, NEW j \in DOMAIN new
      PROVE  new[j][1] \in Under(new[i][1])
  BY <1>1, UnderFacts
<1>4. ASSUME NEW i \in DOMAIN new
      PROVE  Under(Top(w)) \subseteq Under(new[i][1])
  <2> DEFINE R == Frame \cup Run \cup {"gunlock", "gc_off"} \cup Oper
  <2>1. \A n \in Run : Under(n) = R
    BY UnderFacts
  <2>2. \A n \in Frame : R \subseteq Under(n)
    BY UnderFacts
  <2>3. \A n, m \in Frame : Under(n) = Under(m)
    BY UnderFacts
  <2> HIDE DEF R
  <2> QED BY <1>1, <2>1, <2>2, <2>3
<1> QED BY <1>1, <1>2, <1>3, <1>4 DEF Fits, NamesOf

(* The names that a sequence of steps is made from. *)
Rng(p) == {p[i] : i \in DOMAIN p}
Ord(p) == p \in Seq(Names) /\ \A i, j \in DOMAIN p : i < j => p[j] \in Under(p[i])

LEMMA ConcatOrd ==
    ASSUME NEW p, NEW q, Ord(p), Ord(q), \A n \in Rng(p) : \A m \in Rng(q) : m \in Under(n)
    PROVE  Ord(p \o q) /\ Rng(p \o q) = Rng(p) \cup Rng(q)
PROOF
<1> DEFINE r == p \o q
<1>1. p \in Seq(Names) /\ q \in Seq(Names)
  BY DEF Ord
<1>2. /\ r \in Seq(Names) /\ Len(p) \in Nat /\ Len(q) \in Nat
      /\ DOMAIN p = 1 .. Len(p) /\ DOMAIN q = 1 .. Len(q) /\ DOMAIN r = 1 .. Len(p) + Len(q)
      /\ \A i \in DOMAIN p : i \in DOMAIN r /\ r[i] = p[i]
      /\ \A i \in DOMAIN q : i + Len(p) \in DOMAIN r /\ r[i + Len(p)] = q[i]
  BY <1>1
<1> HIDE DEF r
<1>3. \A k \in DOMAIN r : k \notin DOMAIN p => k - Len(p) \in DOMAIN q /\ r[k] = q[k - Len(p)]
  <2> SUFFICES ASSUME NEW k \in DOMAIN r, k \notin DOMAIN p
               PROVE  k - Len(p) \in DOMAIN q /\ r[k] = q[k - Len(p)]
    OBVIOUS
  <2>1. k - Len(p) \in DOMAIN q /\ k = (k - Len(p)) + Len(p)
    BY <1>2
  <2> QED BY <1>2, <2>1
<1>4. ASSUME NEW i \in DOMAIN r, NEW j \in DOMAIN r, i < j
      PROVE  r[j] \in Under(r[i])
  <2>1. CASE i \in DOMAIN p /\ j \in DOMAIN p
    BY <1>2, <1>4, <2>1 DEF Ord
  <2>2. CASE i \in DOMAIN p /\ j \notin DOMAIN p
    BY <1>2, <1>3, <2>2 DEF Rng
  <2>3. CASE i \notin DOMAIN p
    <3>1. j \notin DOMAIN p /\ i - Len(p) < j - Len(p)
      BY <1>2, <1>4, <2>3
    <3> QED BY <1>3, <2>3, <3>1 DEF Ord
  <2> QED BY <2>1, <2>2, <2>3
<1>5. Rng(r) = Rng(p) \cup Rng(q)
  <2>1. \A x \in Rng(r) : x \in Rng(p) \cup Rng(q)
    BY <1>2, <1>3 DEF Rng
  <2>2. \A x \in Rng(p) \cup Rng(q) : x \in Rng(r)
    BY <1>2 DEF Rng
  <2> QED BY <2>1, <2>2
<1> QED BY <1>2, <1>4, <1>5 DEF Ord, r

(* YIELD_NEWFRAME: the copy comes on top of the step that yields. *)
LEMMA YieldFits ==
    ASSUME TypeInv, NEW w \in Id, Push(w, <<"copy">>),
           Top(w) \in {"loop", "work", "xlock", "set_steal", "set_together", "steal", "help"}
    PROVE  LET new == <<S("copy"), Head(st[w])>>
           IN  Replaces(w, new) /\ Fits(w, new) /\ NamesOf(new) = {"copy", Top(w)}
PROOF
<1> DEFINE h == Head(st[w])
<1>1. st[w] # <<>> /\ st[w] \in Seq(Step) /\ h \in Step /\ Top(w) = h[1]
  BY DEF Top, TypeInv
<1>2. Steps(<<"copy">>) = <<S("copy")>>
  BY DEF Steps
<1>3. <<S("copy")>> \o st[w] = <<S("copy"), h>> \o Tail(st[w])
  BY <1>1
<1>4. Replaces(w, <<S("copy"), h>>)
  BY <1>1, <1>2, <1>3 DEF Push, Replaces
<1>5. S("copy") \in Step /\ S("copy")[1] = "copy" /\ "copy" \in Frame
  BY DEF S, Step, Names, Frame
<1>6. Top(w) \in Under("copy") /\ Under(Top(w)) \subseteq Under("copy")
  BY <1>5, UnderFacts DEF Frame, Run, Oper, Mail, Ends
<1> HIDE DEF h
<1>7. <<S("copy"), h>> \in Seq(Step)
  BY <1>1, <1>5
<1>8. Fits(w, <<S("copy"), h>>)
  BY <1>1, <1>5, <1>6, <1>7 DEF Fits
<1>9. NamesOf(<<S("copy"), h>>) = {"copy", Top(w)}
  BY <1>1, <1>5 DEF NamesOf
<1> QED BY <1>4, <1>8, <1>9 DEF h

-----------------------------------------------------------------------------
(* Steps that concern neither the lock nor the mailbox nor the life of the *)
(* worker: they leave the names in Key where they are.                     *)
Key == {"init", "ready", "loop", "answer", "reply", "xlock", "xunlock", "glock", "gunlock",
        "release"}
Still == UNCHANGED <<app, mine, quit, task_type, arg, res, owner, spawn_exit_lock, nid>>

(* All that the invariant says of the stacks, from what Has says of them.  *)
LEMMA SameKeys ==
    ASSUME IInv, Still, wait' \in Int, state' = "stopped" => state = "stopped",
           st' \in [Id -> Seq(Step)], Ordered',
           \A v \in Id : \A M \in SUBSET Key : Has(v, M)' <=> Has(v, M),
           \A v \in Id : /\ Has(v, {"work", "answer", "reply"})'
                               => Has(v, {"work", "answer", "reply"})
                         /\ Has(v, Names \ {"leave_alive", "xunlock"})'
                               => Has(v, Names \ {"leave_alive", "xunlock"})
                         /\ Has(v, Names)' => Has(v, Names)
    PROVE  IInv'
PROOF
<1> USE DEF IInv, Still
<1>1. ASSUME NEW v \in Id
      PROVE  /\ Has(v, {"xlock"})' <=> Has(v, {"xlock"})
             /\ Has(v, {"xunlock"})' <=> Has(v, {"xunlock"})
             /\ Has(v, {"glock"})' <=> Has(v, {"glock"})
             /\ Has(v, {"gunlock"})' <=> Has(v, {"gunlock"})
             /\ Has(v, {"init"})' <=> Has(v, {"init"})
             /\ Has(v, {"ready"})' <=> Has(v, {"ready"})
             /\ Has(v, {"reply"})' <=> Has(v, {"reply"})
             /\ Has(v, {"answer"})' <=> Has(v, {"answer"})
             /\ Has(v, {"release"})' <=> Has(v, {"release"})
             /\ Has(v, {"loop", "release"})' <=> Has(v, {"loop", "release"})
             /\ Has(v, {"ready", "xunlock", "gunlock"})' <=> Has(v, {"ready", "xunlock", "gunlock"})
             /\ Has(v, {"xlock", "glock"})' <=> Has(v, {"xlock", "glock"})
  BY DEF Key
<1>2. TypeInv' /\ StopInv'
  BY DEF TypeInv, StopInv
<1>3. LockInv'
  <2>1. Holders' = Holders
    BY <1>1 DEF Holders, Holds
  <2> QED BY <2>1 DEF LockInv
<1>4. ASSUME NEW v \in Id
      PROVE  StackOf(v)' /\ MailOf(v)' /\ OwnerOf(v)'
  <2>1. StackOf(v)'
    BY <1>1 DEF StackOf
  <2>2. MailOf(v)'
    BY <1>1 DEF MailOf
  <2>3. OwnerOf(v)'
    BY <1>1 DEF OwnerOf
  <2> QED BY <2>1, <2>2, <2>3
<1>5. ASSUME NEW t \in Threads
      PROVE  ThreadOf(t)'
  <2>1. CASE app[t] \in Served
    <3>1. mine[t] \in Id
      BY <2>1 DEF ThreadOf
    <3>2. PICK v \in Id : v = mine[t]
      BY <3>1
    <3> QED BY <1>1, <2>1, <3>2 DEF ThreadOf
  <2>2. CASE app[t] \notin Served
    BY <2>2 DEF ThreadOf, Served
  <2> QED BY <2>1, <2>2
<1> QED BY <1>2, <1>3, <1>4, <1>5

LEMMA Quiet ==
    ASSUME IInv, Still, wait' \in Int, state' = "stopped" => state = "stopped",
           NEW w \in Id, NEW new, Replaces(w, new), Fits(w, new),
           NamesOf(new) \cap Key = {Top(w)} \cap Key,
           "work" \in NamesOf(new) => Top(w) = "work",
           NamesOf(new) = {} \/ Top(w) \notin {"leave_alive", "xunlock"}
    PROVE  IInv'
PROOF
<1> DEFINE N == NamesOf(new)
<1>1. /\ st' \in [Id -> Seq(Step)] /\ Ordered' /\ Top(w) \in Names
      /\ \A v \in Id \ {w} : st'[v] = st[v]
  BY ReplaceStack DEF IInv
<1>2. PICK B \in SUBSET Under(Top(w)) :
         \A M : /\ Has(w, M) <=> Top(w) \in M \/ B \cap M # {}
                /\ Has(w, M)' <=> N \cap M # {} \/ B \cap M # {}
  BY ReplaceStack DEF IInv
<1> HIDE DEF N
<1>3. N \cap Key = {Top(w)} \cap Key /\ ("work" \in N => Top(w) = "work")
      /\ (N = {} \/ Top(w) \notin {"leave_alive", "xunlock"})
  BY DEF N
<1>4. ASSUME NEW v \in Id, v # w, NEW M
      PROVE  Has(v, M)' <=> Has(v, M)
  BY <1>1, <1>4 DEF Has
<1>5. ASSUME NEW M \in SUBSET Key
      PROVE  Has(w, M)' <=> Has(w, M)
  <2>1. N \cap M # {} <=> Top(w) \in M
    BY <1>3
  <2> QED BY <1>2, <2>1
<1>6. Has(w, {"work", "answer", "reply"})' => Has(w, {"work", "answer", "reply"})
  BY <1>2, <1>3 DEF Key
<1>7. Has(w, Names \ {"leave_alive", "xunlock"})' => Has(w, Names \ {"leave_alive", "xunlock"})
  BY <1>1, <1>2, <1>3
<1>8. Has(w, Names)
  BY <1>1, <1>2
<1> QED BY <1>1, <1>4, <1>5, <1>6, <1>7, <1>8, SameKeys

LEMMA TopStack ==
    ASSUME NEW w, NEW n, At(w, n), n # "none"
    PROVE  st[w] # <<>> /\ Top(w) = n /\ up
BY DEF At, Top

LEMMA PopQuiet ==
    ASSUME IInv, Still, wait' \in Int, state' # "stopped", NEW w \in Id,
           NEW n \in Names \ Key, At(w, n), Pop(w)
    PROVE  IInv'
PROOF
<1>1. n # "none"
  BY DEF Names, Frame, Run, Oper, Mail, Ends
<1>2. st[w] # <<>> /\ Top(w) = n
  BY <1>1, TopStack
<1>3. Replaces(w, <<>>) /\ Fits(w, <<>>) /\ NamesOf(<<>>) = {}
  BY <1>2, PopFits DEF IInv
<1>4. NamesOf(<<>>) \cap Key = {Top(w)} \cap Key
  BY <1>2, <1>3
<1> QED BY <1>2, <1>3, <1>4, Quiet

LEMMA YieldQuiet ==
    ASSUME IInv, up, NEW w \in Id, YIELD_NEWFRAME(w),
           Top(w) \in {"loop", "work", "xlock", "set_steal", "set_together", "steal", "help"}
    PROVE  IInv'
PROOF
<1> DEFINE new == <<S("copy"), Head(st[w])>>
<1>1. Replaces(w, new) /\ Fits(w, new) /\ NamesOf(new) = {"copy", Top(w)}
  BY YieldFits DEF IInv, YIELD_NEWFRAME
<1>2. Still /\ wait' \in Int /\ state' = "up"
  BY DEF YIELD_NEWFRAME, Still, appVars, mailVars, barVars, IInv, TypeInv, up
<1> HIDE DEF new
<1>3. /\ NamesOf(new) \cap Key = {Top(w)} \cap Key
      /\ "work" \in NamesOf(new) => Top(w) = "work"
      /\ Top(w) \notin {"leave_alive", "xunlock"}
  BY <1>1 DEF Key
<1> QED BY <1>1, <1>2, <1>3, Quiet

LEMMA FrameQuiet ==
    ASSUME IInv, Still, wait' \in Int, state' # "stopped", NEW w \in Id, NEW n, At(w, n),
           NEW new \in Seq((Frame \cup Run) \X Int),
           \/ n \in Run
           \/ n \in Frame /\ \A i \in DOMAIN new : new[i][1] \in Frame,
           st' = [st EXCEPT ![w] = new \o Tail(@)]
    PROVE  IInv'
PROOF
<1>1. n # "none" /\ n \notin Key /\ n \notin {"leave_alive", "xunlock"}
  BY DEF Frame, Run, Key
<1>2. st[w] # <<>> /\ Top(w) = n
  BY <1>1, TopStack
<1>3. Fits(w, new) /\ NamesOf(new) \subseteq Frame \cup Run
  BY <1>2, FrameFits
<1>4. Replaces(w, new)
  BY <1>2 DEF Replaces
<1>5. /\ NamesOf(new) \cap Key = {} /\ {Top(w)} \cap Key = {}
      /\ "work" \notin NamesOf(new)
  BY <1>1, <1>2, <1>3 DEF Key, Frame, Run
<1> QED BY <1>1, <1>2, <1>3, <1>4, <1>5, Quiet

(* The sequences of steps of a frame. *)
LEMMA FrameSeqs ==
    /\ \A k : Steps(Yielded(k)) \in Seq((Frame \cup Run) \X Int)
    /\ \A k : \A i \in DOMAIN Steps(Yielded(k)) : Steps(Yielded(k))[i][1] \in Frame
    /\ Steps(lace_wrap_together) \in Seq((Frame \cup Run) \X Int)
PROOF
<1>1. ASSUME NEW T \in SUBSET (Frame \cup Run), NEW names \in Seq(T)
      PROVE  /\ Steps(names) \in Seq((Frame \cup Run) \X Int)
             /\ \A i \in DOMAIN Steps(names) : Steps(names)[i][1] \in T
  <2>1. DOMAIN names = 1 .. Len(names) /\ Len(names) \in Nat /\ \A i \in DOMAIN names : names[i] \in T
    OBVIOUS
  <2>2. Steps(names) = [i \in 1 .. Len(names) |-> <<names[i], 0>>]
    BY <2>1 DEF Steps, S
  <2> QED BY <2>1, <2>2
<1>2. <<"read">> \in Seq(Frame) /\ <<"steal">> \in Seq(Frame) /\ <<"mark", "help">> \in Seq(Frame)
  BY DEF Frame
<1>3. ASSUME NEW k PROVE Yielded(k) \in Seq(Frame)
  BY <1>2 DEF Yielded, lace_exec_in_new_frame, lace_barrier, lace_together_root
<1>4. lace_wrap_together \in Seq(Frame \cup Run)
  <2>1. /\ <<"read">> \in Seq(Frame \cup Run) /\ <<"mark", "help">> \in Seq(Frame \cup Run)
        /\ <<"set_together">> \in Seq(Frame \cup Run) /\ <<"clear">> \in Seq(Frame \cup Run)
    BY DEF Frame, Run
  <2> QED BY <2>1 DEF lace_wrap_together, lace_exec_in_new_frame, lace_barrier, lace_together_root
<1> QED BY <1>1, <1>3, <1>4

-----------------------------------------------------------------------------
(* The invariant holds initially, and the actions that leave Key alone.    *)

LEMMA InitInv ==
    Init => IInv
PROOF
<1> SUFFICES ASSUME Init PROVE IInv
  OBVIOUS
<1> USE DEF Init
<1>1. \A w \in Id : st[w] = <<>> /\ \A M : ~Has(w, M)
  BY DEF Has
<1>2. <<>> \in Seq(Step)
  OBVIOUS
<1>3. TypeInv
  BY <1>2 DEF TypeInv, NULL
<1>4. Ordered
  BY <1>1 DEF Ordered, OrderedStack
<1>5. Holders = {}
  BY <1>1 DEF Holders, Holds
<1>6. \A w \in Id : StackOf(w) /\ MailOf(w) /\ OwnerOf(w)
  BY <1>1 DEF StackOf, MailOf, OwnerOf
<1>7. \A t \in Threads : ThreadOf(t)
  BY DEF ThreadOf, Served
<1> QED BY <1>3, <1>4, <1>5, <1>6, <1>7 DEF IInv, LockInv, StopInv

LEMMA QuietLife ==
    ASSUME IInv, NEW w \in Id, Work(w) \/ Retry(w) \/ ExitAlive(w)
    PROVE  IInv'
PROOF
<1>1. wait \in Int
  BY DEF IInv, TypeInv
<1>2. {"work", "retry", "leave_alive"} \subseteq Names \ Key
  BY DEF Names, Key, Oper, Ends
<1>3. CASE Work(w)
  <2>1. CASE YIELD_NEWFRAME(w)
    BY <1>3, <2>1, TopStack, YieldQuiet DEF Work
  <2>2. CASE ~YIELD_NEWFRAME(w)
    <3>1. At(w, "work") /\ Pop(w) /\ Still /\ wait' \in Int /\ state' # "stopped"
      BY <1>1, <1>3, <2>2 DEF Work, Still, appVars, mailVars, barVars, At, up
    <3> QED BY <1>2, <3>1, PopQuiet
  <2> QED BY <2>1, <2>2
<1>4. CASE Retry(w)
  <2>1. At(w, "retry") /\ Pop(w) /\ Still /\ wait' \in Int /\ state' # "stopped"
    BY <1>1, <1>4 DEF Retry, Still, appVars, mailVars, barVars
  <2> QED BY <1>2, <2>1, PopQuiet
<1>5. CASE ExitAlive(w)
  <2>1. At(w, "leave_alive") /\ Pop(w) /\ Still /\ wait' \in Int /\ state' # "stopped"
    BY <1>1, <1>5 DEF ExitAlive, Still, appVars, mailVars, barVars, At, up
  <2> QED BY <1>2, <2>1, PopQuiet
<1> QED BY <1>3, <1>4, <1>5

LEMMA QuietFull ==
    ASSUME IInv, NEW w \in Id, TableFull(w)
    PROVE  IInv'
PROOF
<1> DEFINE names == <<"gc", "retry", "work">>
<1>1. st[w] # <<>> /\ Top(w) = "work" /\ Still /\ wait' \in Int /\ state' = "up"
  BY TopStack DEF TableFull, Still, appVars, mailVars, barVars, IInv, TypeInv, up
<1>2. names \in Seq(Names)
  BY DEF Names, Oper
<1>3. /\ \A i, j \in DOMAIN names : i < j => names[j] \in Under(names[i])
      /\ \A i \in DOMAIN names : Under(Top(w)) \subseteq Under(names[i])
  BY <1>1, UnderFacts DEF Oper, Mail
<1>4. /\ Fits(w, Steps(names)) /\ NamesOf(Steps(names)) = {names[i] : i \in DOMAIN names}
  BY <1>2, <1>3, StepsFit
<1>5. {names[i] : i \in DOMAIN names} = {"gc", "retry", "work"}
  OBVIOUS
<1>6. Replaces(w, Steps(names))
  BY <1>1 DEF TableFull, Go, Replaces
<1> HIDE DEF names
<1>7. NamesOf(Steps(names)) \cap Key = {Top(w)} \cap Key
  BY <1>1, <1>4, <1>5 DEF Key
<1> QED BY <1>1, <1>4, <1>6, <1>7, Quiet

LEMMA QuietFrame ==
    ASSUME IInv, NEW w \in Id,
           \/ GcOff(w) \/ AwaitFrame(w) \/ SetFrame(w) \/ ClearFrame(w) \/ Done(w)
           \/ lace_steal_loop_in(w) \/ Mark(w) \/ Help(w)
    PROVE  IInv'
PROOF
<1>1. wait \in Int
  BY DEF IInv, TypeInv
<1>2. {"gc_off", "await", "set_steal", "set_together", "clear", "done", "steal", "mark",
       "help"} \subseteq Names \ Key
  BY DEF Names, Key, Frame, Run
<1> USE DEF Still, appVars, mailVars, barVars, frameVars, At, up
<1>3. CASE GcOff(w)
  <2>1. At(w, "gc_off") /\ Pop(w) /\ Still /\ wait' \in Int /\ state' # "stopped"
    BY <1>1, <1>3 DEF GcOff
  <2> QED BY <1>2, <2>1, PopQuiet
<1>4. CASE AwaitFrame(w)
  <2>1. At(w, "await") /\ Pop(w) /\ Still /\ wait' \in Int /\ state' # "stopped"
    BY <1>1, <1>4 DEF AwaitFrame
  <2> QED BY <1>2, <2>1, PopQuiet
<1>5. CASE SetFrame(w)
  <2>1. CASE YIELD_NEWFRAME(w)
    BY <1>5, <2>1, YieldQuiet DEF SetFrame
  <2>2. CASE ~YIELD_NEWFRAME(w)
    <3>1. PICK n \in {"set_steal", "set_together"} : At(w, n)
      BY <1>5 DEF SetFrame
    <3>2. Pop(w) /\ Still /\ wait' \in Int /\ state' # "stopped"
      BY <1>1, <1>5, <2>2 DEF SetFrame
    <3> QED BY <1>2, <3>1, <3>2, PopQuiet
  <2> QED BY <2>1, <2>2
<1>6. CASE ClearFrame(w)
  <2>1. At(w, "clear") /\ Pop(w) /\ Still /\ wait' \in Int /\ state' # "stopped"
    BY <1>1, <1>6 DEF ClearFrame
  <2> QED BY <1>2, <2>1, PopQuiet
<1>7. CASE Done(w)
  <2>1. At(w, "done") /\ Pop(w) /\ Still /\ wait' \in Int /\ state' # "stopped"
    BY <1>1, <1>7 DEF Done
  <2> QED BY <1>2, <2>1, PopQuiet
<1>8. CASE lace_steal_loop_in(w)
  <2>1. CASE YIELD_NEWFRAME(w)
    BY <1>8, <2>1, YieldQuiet DEF lace_steal_loop_in
  <2>2. CASE ~YIELD_NEWFRAME(w)
    <3>1. At(w, "steal") /\ Pop(w) /\ Still /\ wait' \in Int /\ state' # "stopped"
      BY <1>1, <1>8, <2>2 DEF lace_steal_loop_in
    <3> QED BY <1>2, <3>1, PopQuiet
  <2> QED BY <2>1, <2>2
<1>9. CASE Mark(w)
  <2>1. At(w, "mark") /\ Pop(w) /\ Still /\ wait' \in Int /\ state' # "stopped"
    BY <1>1, <1>9 DEF Mark
  <2> QED BY <1>2, <2>1, PopQuiet
<1>10. CASE Help(w)
  <2>1. CASE YIELD_NEWFRAME(w)
    BY <1>10, <2>1, YieldQuiet DEF Help
  <2>2. CASE ~YIELD_NEWFRAME(w)
    <3>1. At(w, "help") /\ Pop(w) /\ Still /\ wait' \in Int /\ state' # "stopped"
      BY <1>1, <1>10, <2>2 DEF Help
    <3> QED BY <1>2, <3>1, PopQuiet
  <2> QED BY <2>1, <2>2
<1> QED BY <1>3, <1>4, <1>5, <1>6, <1>7, <1>8, <1>9, <1>10

LEMMA QuietPush ==
    ASSUME IInv, NEW w \in Id, Collect(w) \/ lace_yield(w)
    PROVE  IInv'
PROOF
<1>1. wait \in Int
  BY DEF IInv, TypeInv
<1>2. CASE Collect(w)
  <2>1. /\ At(w, "collect") /\ Still /\ wait' \in Int /\ state' # "stopped"
        /\ st' = [st EXCEPT ![w] = Steps(lace_wrap_together) \o Tail(@)]
    BY <1>1, <1>2 DEF Collect, Go, Still, appVars, mailVars, barVars, At, up
  <2>2. "collect" \in Run
    BY DEF Run
  <2> QED BY <2>1, <2>2, FrameSeqs, FrameQuiet
<1>3. CASE lace_yield(w)
  <2> DEFINE new == Steps(Yielded(newframe))
  <2>1. /\ At(w, "copy") /\ Still /\ wait' \in Int /\ state' # "stopped"
        /\ st' = [st EXCEPT ![w] = new \o Tail(@)]
    BY <1>1, <1>3 DEF lace_yield, Go, Still, appVars, mailVars, barVars, At, up
  <2>2. "copy" \in Frame
    BY DEF Frame
  <2>3. new \in Seq((Frame \cup Run) \X Int) /\ \A i \in DOMAIN new : new[i][1] \in Frame
    BY FrameSeqs
  <2> HIDE DEF new
  <2> QED BY <2>1, <2>2, <2>3, FrameQuiet
<1> QED BY <1>2, <1>3

LEMMA QuietBarrier ==
    ASSUME IInv, NEW w \in Id, BarrierStep(w)
    PROVE  IInv'
PROOF
<1> DEFINE F == (Frame \cup Run) \X Int
<1>1. wait \in Int /\ st[w] \in Seq(Step)
  BY DEF IInv, TypeInv
<1>2. {"read", "add", "reset", "flip", "spin", "leave"} \subseteq (Names \ Key) \cap Frame
  BY DEF Names, Key, Frame
<1>3. ASSUME NEW n, At(w, n), n \in Frame PROVE Local(w) \in Int
  <2>1. st[w] # <<>>
    BY <1>3 DEF At, Top, Frame
  <2> QED BY <1>1, <2>1 DEF Local, Step
<1> USE DEF Still, appVars, mailVars, barVars, frameVars, up
<1>4. CASE BarRead(w)
  <2> DEFINE new == <<<<"add", wait>>>>
  <2>1. /\ At(w, "read") /\ Still /\ wait' \in Int /\ state' # "stopped"
        /\ st' = [st EXCEPT ![w] = new \o Tail(@)]
    BY <1>1, <1>4 DEF BarRead, Bar, At
  <2>2. new \in Seq((Frame \cup Run) \X Int) /\ \A i \in DOMAIN new : new[i][1] \in Frame
    BY <1>1, <1>2
  <2> HIDE DEF new
  <2> QED BY <1>2, <2>1, <2>2, FrameQuiet
<1>5. CASE BarAdd(w)
  <2>1. At(w, "add") /\ Still /\ wait' \in Int /\ state' # "stopped"
    BY <1>1, <1>5 DEF BarAdd, At
  <2>2. Local(w) \in Int
    BY <1>2, <1>3, <2>1
  <2>3. PICK l \in Int : l = Local(w)
    BY <2>2
  <2>4. CASE count' = alive
    <3> DEFINE new == [i \in 1 .. 2 |-> <<Last[i], l>>] \o <<S("leave")>>
    <3>1. st' = [st EXCEPT ![w] = new \o Tail(@)]
      BY <1>5, <2>3, <2>4 DEF BarAdd, Bar
    <3>2. [i \in 1 .. 2 |-> <<Last[i], l>>] = <<<<"reset", l>>, <<"flip", l>>>>
      BY DEF Last
    <3>3. <<<<"reset", l>>, <<"flip", l>>>> \in Seq(Frame \X Int) /\ <<S("leave")>> \in Seq(Frame \X Int)
      BY <1>2 DEF S
    <3>4. new \in Seq((Frame \cup Run) \X Int) /\ \A i \in DOMAIN new : new[i][1] \in Frame
      <4>1. new \in Seq(Frame \X Int)
        BY <3>2, <3>3
      <4> HIDE DEF new
      <4> QED BY <4>1
    <3> HIDE DEF new
    <3> QED BY <1>2, <2>1, <3>1, <3>4, FrameQuiet
  <2>5. CASE count' # alive
    <3> DEFINE new == <<<<"spin", l>>, S("leave")>>
    <3>1. st' = [st EXCEPT ![w] = new \o Tail(@)]
      BY <1>5, <2>3, <2>5 DEF BarAdd, Bar
    <3>2. new \in Seq((Frame \cup Run) \X Int) /\ \A i \in DOMAIN new : new[i][1] \in Frame
      BY <1>2 DEF S
    <3> HIDE DEF new
    <3> QED BY <1>2, <2>1, <3>1, <3>2, FrameQuiet
  <2> QED BY <2>4, <2>5
<1>6. CASE BarReset(w)
  <2>1. At(w, "reset") /\ Pop(w) /\ Still /\ wait' \in Int /\ state' # "stopped"
    BY <1>1, <1>6 DEF BarReset, At
  <2> QED BY <1>2, <2>1, PopQuiet
<1>7. CASE BarFlip(w)
  <2>1. At(w, "flip") /\ Pop(w) /\ Still /\ wait' = 1 - Local(w) /\ state' # "stopped"
    BY <1>7 DEF BarFlip, At
  <2>2. wait' \in Int
    BY <1>2, <1>3, <2>1
  <2> QED BY <1>2, <2>1, <2>2, PopQuiet
<1>8. CASE BarSpin(w)
  <2>1. At(w, "spin") /\ Pop(w) /\ Still /\ wait' \in Int /\ state' # "stopped"
    BY <1>1, <1>8 DEF BarSpin, At
  <2> QED BY <1>2, <2>1, PopQuiet
<1>9. CASE BarLeave(w)
  <2>1. At(w, "leave") /\ Pop(w) /\ Still /\ wait' \in Int /\ state' # "stopped"
    BY <1>1, <1>9 DEF BarLeave, At
  <2> QED BY <1>2, <2>1, PopQuiet
<1> QED BY <1>4, <1>5, <1>6, <1>7, <1>8, <1>9 DEF BarrierStep

-----------------------------------------------------------------------------
(* The actions of the application threads.                                 *)

LEMMA IdFacts ==
    /\ Id \cap Threads = {} /\ NULL \notin Id /\ NULL \notin Threads
    /\ \A i \in Id : i \in Nat /\ i < MaxId
    /\ \A i \in Nat : i < MaxId => i \in Id
BY IdAssumption DEF Id, NULL

(* A thread that starts asks for the lock. *)
LEMMA ThreadStartInv ==
    ASSUME IInv, NEW t \in Threads, ThreadStart(t)
    PROVE  IInv'
PROOF
<1> USE DEF ThreadStart, IInv, appVars, mailVars, barVars
<1>1. \A v \in Id : \A M : Has(v, M)' <=> Has(v, M)
  BY DEF Has
<1>2. /\ app[t] = "off" /\ app'[t] = "lock" /\ quit'[t] = 0
      /\ \A s \in Threads \ {t} : app'[s] = app[s] /\ quit'[s] = quit[s]
  BY DEF TypeInv
<1>3. TypeInv'
  BY DEF TypeInv
<1>4. Ordered' /\ StopInv'
  BY DEF Ordered, OrderedStack, Name, StopInv, up
<1>5. Holders' = Holders
  BY <1>1, <1>2 DEF Holders, Holds
<1>6. LockInv'
  BY <1>5 DEF LockInv
<1>7. ASSUME NEW v \in Id PROVE StackOf(v)' /\ MailOf(v)' /\ OwnerOf(v)'
  <2>1. StackOf(v)'
    BY <1>1 DEF StackOf
  <2>2. MailOf(v)'
    BY <1>1, <1>2 DEF MailOf
  <2>3. Has(v, {"release"}) => Has(v, {"loop", "release"})
    BY DEF Has
  <2>4. OwnerOf(v)'
    BY <1>1, <1>2, <2>3 DEF OwnerOf, Served
  <2> QED BY <2>1, <2>2, <2>4
<1>8. ASSUME NEW s \in Threads PROVE ThreadOf(s)'
  <2>1. CASE s = t
    BY <1>2, <2>1 DEF ThreadOf, Served
  <2>2. CASE s # t
    <3>1. app[s] \in Served => mine[s] \in Id
      BY DEF ThreadOf
    <3> QED BY <1>1, <1>2, <2>2, <3>1 DEF ThreadOf, Served
  <2> QED BY <2>1, <2>2
<1> QED BY <1>3, <1>4, <1>6, <1>7, <1>8

LEMMA SpawnLockInv ==
    ASSUME IInv, NEW t \in Threads, SpawnLock(t)
    PROVE  IInv'
PROOF
<1> USE DEF SpawnLock, IInv, appVars, mailVars, barVars
<1>1. \A v \in Id : \A M : Has(v, M)' <=> Has(v, M)
  BY DEF Has
<1>2. /\ app[t] = "lock" /\ app'[t] = "spawn"
      /\ \A s \in Threads \ {t} : app'[s] = app[s]
  BY DEF TypeInv
<1>3. TypeInv'
  BY DEF TypeInv
<1>4. Ordered' /\ StopInv'
  BY DEF Ordered, OrderedStack, Name, StopInv, up
<1>5. Holders = {}
  BY DEF LockInv
<1>6. Holders' = {t}
  BY <1>1, <1>2, <1>5 DEF Holders, Holds
<1>7. LockInv'
  BY <1>6 DEF LockInv
<1>8. ASSUME NEW v \in Id PROVE StackOf(v)' /\ MailOf(v)' /\ OwnerOf(v)'
  <2>1. StackOf(v)'
    BY <1>1 DEF StackOf
  <2>2. MailOf(v)'
    BY <1>1, <1>2 DEF MailOf
  <2>3. OwnerOf(v)'
    BY <1>1, <1>2 DEF OwnerOf, Served
  <2> QED BY <2>1, <2>2, <2>3
<1>9. ASSUME NEW s \in Threads PROVE ThreadOf(s)'
  <2>1. CASE s = t
    BY <1>2, <2>1 DEF ThreadOf, Served
  <2>2. CASE s # t
    <3>1. app[s] \in Served => mine[s] \in Id
      BY DEF ThreadOf
    <3> QED BY <1>1, <1>2, <2>2, <3>1 DEF ThreadOf, Served
  <2> QED BY <2>1, <2>2
<1> QED BY <1>3, <1>4, <1>7, <1>8, <1>9

(* The steps that use the mailbox or end the service of a thread. *)
LEMMA ThreadStepInv ==
    ASSUME IInv, NEW t \in Threads,
           Post(t) \/ Answered(t) \/ ThreadFini(t) \/ ThreadGone(t)
    PROVE  IInv'
PROOF
<1> DEFINE m == mine[t]
<1> USE DEF IInv
<1>1. app[t] \in Served /\ m \in Id /\ owner[m] = t
  BY DEF Post, Answered, ThreadFini, ThreadGone, ThreadOf, Served
<1>2. /\ st' = st /\ nid' = nid /\ owner' = owner /\ spawn_exit_lock' = spawn_exit_lock
      /\ state = "up" /\ state' = "up" /\ res' = res /\ wait' = wait
      /\ \A s \in Threads \ {t} : /\ app'[s] = app[s] /\ mine'[s] = mine[s]
                                  /\ quit'[s] = quit[s]
      /\ app'[t] \in Served \cup {"off"}
  BY DEF Post, Answered, ThreadFini, ThreadGone, appVars, mailVars, barVars, TypeInv, up, Served
<1>3. \A v \in Id : \A M : Has(v, M)' <=> Has(v, M)
  BY <1>2 DEF Has
<1>4. /\ app' \in [Threads -> {"off", "lock", "spawn", "idle", "wait", "quit"}]
      /\ mine' \in [Threads -> Id \cup {NULL}] /\ quit' \in [Threads -> {0, 1}]
      /\ task_type' \in [Id -> {0, 1}] /\ arg' \in [Id -> Int]
  <2>1. arg[m] \in Int /\ 1 - arg[m] \in Int
    BY <1>1 DEF TypeInv
  <2> HIDE DEF m
  <2>2. CASE Post(t)
    BY <2>1, <2>2 DEF TypeInv, Post, m
  <2>3. CASE ~Post(t)
    BY <2>3 DEF TypeInv, Answered, ThreadFini, ThreadGone, appVars, mailVars
  <2> QED BY <2>2, <2>3
<1>5. TypeInv'
  BY <1>2, <1>4 DEF TypeInv
<1>6. Ordered' /\ StopInv'
  BY <1>2 DEF Ordered, OrderedStack, Name, StopInv
<1>7. Holders' = Holders
  <2>1. \A s \in Threads : app'[s] = "spawn" <=> app[s] = "spawn"
    BY <1>1, <1>2 DEF Served
  <2> QED BY <1>3, <2>1 DEF Holders, Holds
<1>8. LockInv'
  BY <1>2, <1>7 DEF LockInv
<1>9. ASSUME NEW v \in Id PROVE StackOf(v)'
  BY <1>2, <1>3 DEF StackOf
<1>10. \A s \in Threads \ {t} : app[s] \in Served => mine[s] \in Id \ {m}
  BY <1>1 DEF ThreadOf
<1>11. \A v \in Id \ {m} : ~Has(v, {"loop", "release"}) \/ owner[v] # t
  BY DEF OwnerOf
<1>12. ASSUME NEW s \in Threads \ {t} PROVE ThreadOf(s)'
  BY <1>2, <1>3, <1>10 DEF ThreadOf, Served
<1> HIDE DEF m
<1>13. CASE Post(t)
  <2>1. /\ app[t] = "idle" /\ app'[t] = "wait" /\ mine' = mine /\ quit' = quit
        /\ arg' = [arg EXCEPT ![m] = 1 - arg[m]] /\ task_type' = [task_type EXCEPT ![m] = 1]
    BY <1>13 DEF Post, TypeInv, m
  <2>2. task_type[m] = 0
    <3>1. ~\E s \in Threads : app[s] = "wait" /\ mine[s] = m
      BY <1>1, <1>10, <2>1 DEF Served
    <3> QED BY <1>1, <3>1 DEF MailOf, TypeInv
  <2>3. ~Has(m, {"work", "answer", "reply"})
    BY <1>1, <2>2 DEF MailOf
  <2>4. ~Has(m, {"reply"})
    BY <2>3 DEF Has
  <2>5. ASSUME NEW v \in Id PROVE MailOf(v)' /\ OwnerOf(v)'
    <3>1. CASE v = m
      <4>1. MailOf(v)'
        BY <1>1, <1>2, <1>3, <1>5, <2>1, <2>3, <2>4, <3>1 DEF MailOf, TypeInv, m
      <4>2. OwnerOf(v)'
        BY <1>1, <1>2, <1>3, <2>1, <3>1 DEF OwnerOf, Served
      <4> QED BY <4>1, <4>2
    <3>2. CASE v # m
      <4>1. arg'[v] = arg[v] /\ task_type'[v] = task_type[v]
        BY <2>1, <3>2 DEF TypeInv
      <4>2. MailOf(v)'
        BY <1>2, <1>3, <2>1, <4>1 DEF MailOf
      <4>3. OwnerOf(v)'
        BY <1>2, <1>3, <2>1 DEF OwnerOf, Served
      <4> QED BY <4>2, <4>3
    <3> QED BY <3>1, <3>2
  <2>6. ThreadOf(t)'
    BY <1>1, <1>2, <1>3, <2>1 DEF ThreadOf, Served, m
  <2> QED BY <1>5, <1>6, <1>8, <1>9, <1>12, <2>5, <2>6
<1>14. CASE Answered(t)
  <2>1. /\ app[t] = "wait" /\ app'[t] = "idle" /\ mine' = mine /\ quit' = quit
        /\ arg' = arg /\ task_type' = task_type /\ task_type[m] = 0
    BY <1>14 DEF Answered, TypeInv, mailVars, m
  <2>2. ASSUME NEW v \in Id PROVE MailOf(v)' /\ OwnerOf(v)'
    <3>1. MailOf(v)'
      <4>1. CASE v = m
        BY <1>2, <1>3, <2>1, <4>1 DEF MailOf
      <4>2. CASE v # m
        BY <1>2, <1>3, <2>1, <4>2 DEF MailOf, m
      <4> QED BY <4>1, <4>2
    <3>2. OwnerOf(v)'
      BY <1>2, <1>3, <2>1 DEF OwnerOf, Served
    <3> QED BY <3>1, <3>2
  <2>3. ThreadOf(t)'
    BY <1>1, <1>2, <1>3, <2>1 DEF ThreadOf, Served, m
  <2> QED BY <1>5, <1>6, <1>8, <1>9, <1>12, <2>2, <2>3
<1>15. CASE ThreadFini(t)
  <2>1. /\ app[t] = "idle" /\ app'[t] = "quit" /\ mine' = mine /\ quit'[t] = 1
        /\ arg' = arg /\ task_type' = task_type
    BY <1>15 DEF ThreadFini, TypeInv, mailVars
  <2>2. ASSUME NEW v \in Id PROVE MailOf(v)' /\ OwnerOf(v)'
    <3>1. MailOf(v)'
      BY <1>2, <1>3, <2>1 DEF MailOf
    <3>2. Has(v, {"release"}) => Has(v, {"loop", "release"})
      BY DEF Has
    <3>3. OwnerOf(v)'
      BY <1>2, <1>3, <2>1, <3>2 DEF OwnerOf, Served
    <3> QED BY <3>1, <3>3
  <2>3. ThreadOf(t)'
    BY <1>1, <1>2, <1>3, <2>1 DEF ThreadOf, Served, m
  <2> QED BY <1>5, <1>6, <1>8, <1>9, <1>12, <2>2, <2>3
<1>16. CASE ThreadGone(t)
  <2>1. /\ app[t] = "quit" /\ app'[t] = "off" /\ quit' = quit /\ quit[t] = 0
        /\ arg' = arg /\ task_type' = task_type
    BY <1>16 DEF ThreadGone, TypeInv, mailVars
  <2>2. ASSUME NEW v \in Id PROVE MailOf(v)' /\ OwnerOf(v)'
    <3>1. MailOf(v)'
      BY <1>2, <1>3, <2>1 DEF MailOf
    <3>2. Has(v, {"loop", "release"}) => owner[v] # t
      <4>1. ~Has(m, {"loop", "release"})
        BY <2>1 DEF ThreadOf, m
      <4> QED BY <1>11, <4>1
    <3>3. Has(v, {"release"}) => Has(v, {"loop", "release"})
      BY DEF Has
    <3>4. OwnerOf(v)'
      BY <1>2, <1>3, <2>1, <3>2, <3>3 DEF OwnerOf, Served
    <3> QED BY <3>1, <3>4
  <2>3. ThreadOf(t)'
    BY <2>1 DEF ThreadOf, Served
  <2> QED BY <1>5, <1>6, <1>8, <1>9, <1>12, <2>2, <2>3
<1> QED BY <1>13, <1>14, <1>15, <1>16

(* The id of the next worker is free: while a thread has the lock, no      *)
(* worker is between its start and the counter that gives it its id.       *)
LEMMA NextFree ==
    ASSUME IInv, NEW t \in Threads, app[t] = "spawn", nid \in Id
    PROVE  Holders = {t} /\ st[nid] = <<>>
PROOF
<1> USE DEF IInv
<1>1. t \in Holders
  BY DEF Holders
<1>2. Holders = {t}
  BY <1>1 DEF LockInv, TypeInv
<1>3. ~Has(nid, {"init"})
  <2> SUFFICES ASSUME Has(nid, {"init"}) PROVE FALSE
    OBVIOUS
  <2>1. st[nid] \in Seq(Step) /\ DOMAIN st[nid] = 1 .. Len(st[nid]) /\ Len(st[nid]) \in Nat
    BY DEF TypeInv
  <2>2. PICK i \in DOMAIN st[nid] : st[nid][i][1] = "init"
    BY DEF Has
  <2>3. Has(nid, {"ready"})
    BY DEF StackOf
  <2>4. ASSUME NEW j \in DOMAIN st[nid], st[nid][j][1] \in {"xlock", "glock"} PROVE FALSE
    <3>1. \/ i < j /\ st[nid][j][1] \in Under("init")
          \/ j < i /\ "init" \in Under(st[nid][j][1])
      BY <2>1, <2>2, <2>4 DEF Ordered, OrderedStack, Name
    <3>2. "init" \notin Under("xlock") /\ "init" \notin Under("glock")
      BY UnderFacts DEF Frame, Run, Oper, Mail
    <3> QED BY <2>4, <3>1, <3>2, UnderFacts
  <2>5. Has(nid, {"ready", "xunlock", "gunlock"}) /\ ~Has(nid, {"xlock", "glock"})
    BY <2>3, <2>4 DEF Has
  <2>6. nid \in Holders
    BY <2>5 DEF Holders, Holds
  <2> QED BY <1>2, <2>6, IdFacts
<1>4. ~Has(nid, Names)
  BY <1>3 DEF StackOf, TypeInv
<1>5. st[nid] = <<>>
  <2> SUFFICES ASSUME st[nid] # <<>> PROVE FALSE
    OBVIOUS
  <2>1. 1 \in DOMAIN st[nid] /\ st[nid][1] \in Step
    BY DEF TypeInv
  <2>2. st[nid][1][1] \in Names
    BY <2>1 DEF Step
  <2> QED BY <1>4, <2>1, <2>2 DEF Has
<1> QED BY <1>2, <1>5

LEMMA SpawnWorkerInv ==
    ASSUME IInv, NEW t \in Threads, SpawnWorker(t)
    PROVE  IInv'
PROOF
<1> DEFINE names == <<"init", "ready", "loop">>
<1> USE DEF IInv
<1>1. nid \in Id /\ nid \in Nat
  BY IdFacts DEF SpawnWorker, TypeInv
<1>2. /\ app[t] = "spawn" /\ app'[t] = "idle" /\ mine'[t] = nid /\ owner'[nid] = t
      /\ \A s \in Threads \ {t} : app'[s] = app[s] /\ mine'[s] = mine[s]
      /\ \A v \in Id \ {nid} : owner'[v] = owner[v] /\ st'[v] = st[v]
      /\ st'[nid] = Steps(names) /\ state = "up" /\ state' = state
      /\ UNCHANGED <<quit, task_type, arg, res, spawn_exit_lock, nid, wait>>
  BY <1>1 DEF SpawnWorker, TypeInv, up, barVars
<1>3. Holders = {t} /\ st[nid] = <<>>
  BY <1>1, <1>2, NextFree
<1>4. /\ Steps(names) = [i \in 1 .. 3 |-> <<names[i], 0>>]
      /\ Steps(names) \in Seq(Step) /\ DOMAIN Steps(names) = 1 .. 3
      /\ \A i \in 1 .. 3 : Steps(names)[i][1] = names[i]
  <2>1. DOMAIN names = 1 .. 3
    OBVIOUS
  <2>2. Steps(names) = [i \in 1 .. 3 |-> <<names[i], 0>>]
    BY <2>1 DEF Steps, S
  <2>3. \A i \in 1 .. 3 : <<names[i], 0>> \in Step
    BY DEF Step, Names, Oper, Mail
  <2> HIDE DEF names
  <2>4. DOMAIN Steps(names) = 1 .. 3 /\ \A i \in 1 .. 3 : Steps(names)[i][1] = names[i]
    BY <2>2
  <2>5. Steps(names) \in Seq(Step)
    BY <2>2, <2>3
  <2> QED BY <2>2, <2>4, <2>5
<1>5. ASSUME NEW M PROVE Has(nid, M)' <=> "init" \in M \/ "ready" \in M \/ "loop" \in M
  <2>1. Has(nid, M)' <=> \E i \in 1 .. 3 : Steps(names)[i][1] \in M
    <3> HIDE DEF names
    <3> QED BY <1>2, <1>4 DEF Has
  <2>2. (\E i \in 1 .. 3 : names[i] \in M) <=> "init" \in M \/ "ready" \in M \/ "loop" \in M
    <3>1. 1 \in 1 .. 3 /\ 2 \in 1 .. 3 /\ 3 \in 1 .. 3 /\ \A i \in 1 .. 3 : i = 1 \/ i = 2 \/ i = 3
      OBVIOUS
    <3>2. names[1] = "init" /\ names[2] = "ready" /\ names[3] = "loop"
      OBVIOUS
    <3> HIDE DEF names
    <3> QED BY <3>1, <3>2
  <2> HIDE DEF names
  <2> QED BY <1>4, <2>1, <2>2
<1>6. \A M : ~Has(nid, M)
  BY <1>3 DEF Has
<1>7. \A v \in Id \ {nid} : \A M : Has(v, M)' <=> Has(v, M)
  BY <1>2 DEF Has
<1>8. TypeInv'
  <2>1. st' \in [Id -> Seq(Step)]
    BY <1>4 DEF SpawnWorker, TypeInv
  <2> QED BY <1>1, <1>2, <2>1 DEF SpawnWorker, TypeInv
<1>9. Ordered'
  <2>1. OrderedStack(nid)'
    <3>1. /\ names[2] \in Under(names[1]) /\ names[3] \in Under(names[1])
          /\ names[3] \in Under(names[2])
      BY UnderFacts
    <3>2. \A i, j \in 1 .. 3 : i < j => names[j] \in Under(names[i])
      BY <3>1
    <3> HIDE DEF names
    <3>3. \A i, j \in DOMAIN Steps(names) :
             i < j => Steps(names)[j][1] \in Under(Steps(names)[i][1])
      BY <1>4, <3>2
    <3> QED BY <1>2, <3>3 DEF OrderedStack, Name
  <2>2. ASSUME NEW v \in Id, v # nid PROVE OrderedStack(v)'
    BY <1>2, <2>2 DEF Ordered, OrderedStack, Name
  <2>3. ASSUME NEW v \in Id, v = nid PROVE OrderedStack(v)'
    <3>1. v = nid'
      BY <1>2, <2>3
    <3> QED BY <2>1, <3>1 DEF OrderedStack, Name
  <2> QED BY <2>2, <2>3 DEF Ordered
<1>10. StopInv'
  BY <1>2 DEF StopInv
<1>11. Holders' = {nid}
  <2>1. \A s \in Threads : app'[s] # "spawn"
    BY <1>2, <1>3 DEF Holders
  <2>2. \A v \in Id : v # nid => ~Holds(v)
    BY <1>3, IdFacts DEF Holders
  <2>3. \A v \in Id : v # nid => ~Holds(v)'
    BY <1>7, <2>2 DEF Holds
  <2>4. Holds(nid)'
    BY <1>5 DEF Holds
  <2>5. \A v \in Id : Holds(v)' <=> v = nid
    BY <1>2, <2>3, <2>4
  <2> QED BY <1>1, <2>1, <2>5 DEF Holders
<1>12. LockInv'
  <2>1. spawn_exit_lock = 1
    BY <1>3 DEF LockInv, TypeInv
  <2> QED BY <1>2, <1>11, <2>1 DEF LockInv
<1> HIDE DEF names
<1>13. ASSUME NEW v \in Id, v # nid PROVE StackOf(v)' /\ MailOf(v)' /\ OwnerOf(v)'
  <2>1. StackOf(v)'
    BY <1>2, <1>7, <1>13 DEF StackOf
  <2>2. MailOf(v)'
    BY <1>2, <1>7, <1>13 DEF MailOf
  <2>3. Has(v, {"release"}) => Has(v, {"loop", "release"})
    BY DEF Has
  <2>4. OwnerOf(v)'
    BY <1>2, <1>7, <1>13, <2>3 DEF OwnerOf, Served
  <2> QED BY <2>1, <2>2, <2>4
<1>14. StackOf(nid)' /\ MailOf(nid)' /\ OwnerOf(nid)'
  <2>1. PICK v \in Id : v = nid
    BY <1>1
  <2>2. /\ StackOf(v) /\ MailOf(v) /\ st'[v] = st'[nid]
        /\ \A M : Has(v, M)' <=> "init" \in M \/ "ready" \in M \/ "loop" \in M
    BY <1>2, <1>5, <2>1 DEF Has
  <2>3. StackOf(v)'
    BY <1>2, <2>1, <2>2 DEF StackOf
  <2>4. MailOf(v)'
    BY <1>2, <2>1, <2>2 DEF MailOf
  <2>5. OwnerOf(v)'
    BY <1>2, <2>1, <2>2 DEF OwnerOf, Served
  <2> QED BY <1>2, <2>1, <2>3, <2>4, <2>5 DEF StackOf, MailOf, OwnerOf
<1>15. ASSUME NEW s \in Threads PROVE ThreadOf(s)'
  <2>1. CASE s = t
    <3>1. quit[t] = 0
      BY <1>2 DEF ThreadOf
    <3>2. Has(nid, {"init"})'
      BY <1>5
    <3> QED BY <1>1, <1>2, <2>1, <3>1, <3>2 DEF ThreadOf, Served, Has
  <2>2. CASE s # t /\ app[s] \in Served
    <3>1. PICK v \in Id : v = mine[s]
      BY <2>2 DEF ThreadOf
    <3>2. v # nid
      BY <1>6, <2>2, <3>1, <1>1 DEF ThreadOf
    <3>3. \A M : Has(v, M)' <=> Has(v, M)
      BY <1>7, <3>2
    <3> QED BY <1>2, <2>2, <3>1, <3>2, <3>3 DEF ThreadOf, Served
  <2>3. CASE s # t /\ app[s] \notin Served
    BY <1>2, <2>3 DEF ThreadOf, Served
  <2> QED BY <2>1, <2>2, <2>3
<1>16. ASSUME NEW v \in Id PROVE StackOf(v)' /\ MailOf(v)' /\ OwnerOf(v)'
  <2>1. CASE v # nid
    BY <1>13, <2>1
  <2>2. CASE v = nid
    <3>1. v = nid'
      BY <1>2, <2>2
    <3> QED BY <1>14, <2>2, <3>1 DEF StackOf, MailOf, OwnerOf, Has
  <2> QED BY <2>1, <2>2
<1> QED BY <1>8, <1>9, <1>10, <1>12, <1>15, <1>16

-----------------------------------------------------------------------------
(* The actions of a worker that touch the lock, the mailbox or its life.   *)

(* Only w changes, and only its own part of the state. *)
LEMMA OneWorker ==
    ASSUME IInv, NEW w \in Id, \A v \in Id \ {w} : st'[v] = st[v],
           UNCHANGED <<app, mine, quit, owner, nid>>,
           \A v \in Id \ {w} : /\ task_type'[v] = task_type[v]
                               /\ arg'[v] = arg[v] /\ res'[v] = res[v],
           TypeInv', Ordered', LockInv', state' # "stopped",
           StackOf(w)', MailOf(w)', OwnerOf(w)',
           Has(w, {"loop", "release"})' => Has(w, {"loop", "release"}),
           Has(w, {"init"})' <=> Has(w, {"init"})
    PROVE  IInv'
PROOF
<1> USE DEF IInv
<1>1. \A v \in Id \ {w} : \A M : Has(v, M)' <=> Has(v, M)
  BY DEF Has
<1>2. ASSUME NEW v \in Id, v # w PROVE StackOf(v)' /\ MailOf(v)' /\ OwnerOf(v)'
  <2>1. StackOf(v)'
    BY <1>1, <1>2 DEF StackOf
  <2>2. MailOf(v)'
    BY <1>1, <1>2 DEF MailOf
  <2>3. OwnerOf(v)'
    BY <1>1, <1>2 DEF OwnerOf
  <2> QED BY <2>1, <2>2, <2>3
<1>3. ASSUME NEW t \in Threads PROVE ThreadOf(t)'
  <2>1. CASE app[t] \in Served
    <3>1. PICK v \in Id : v = mine[t]
      BY <2>1 DEF ThreadOf
    <3>2. /\ Has(v, {"loop", "release"})' => Has(v, {"loop", "release"})
          /\ Has(v, {"init"})' <=> Has(v, {"init"})
      BY <1>1
    <3> QED BY <2>1, <3>1, <3>2 DEF ThreadOf
  <2>2. CASE app[t] \notin Served
    BY <2>2 DEF ThreadOf, Served
  <2> QED BY <2>1, <2>2
<1>4. StopInv'
  BY DEF StopInv
<1> QED BY <1>2, <1>3, <1>4

(* The holders of the lock, when only w changes. *)
LEMMA WorkerHolds ==
    ASSUME NEW w \in Id, \A v \in Id \ {w} : st'[v] = st[v], app' = app
    PROVE  /\ \A x : x # w => (x \in Holders' <=> x \in Holders)
           /\ w \in Holders <=> Holds(w)
           /\ w \in Holders' <=> Holds(w)'
PROOF
<1>1. \A v \in Id \ {w} : Holds(v)' <=> Holds(v)
  BY DEF Holds, Has
<1>2. w \notin Threads
  BY IdFacts
<1> QED BY <1>1, <1>2 DEF Holders

(* A worker that has a step to do, other than init, has its id. *)
LEMMA HasId ==
    ASSUME IInv, NEW w \in Id, Has(w, Names), ~Has(w, {"init"})
    PROVE  w < nid
BY IdFacts DEF IInv, StackOf, TypeInv

LEMMA WorkerInitInv ==
    ASSUME IInv, NEW w \in Id, WorkerInit(w)
    PROVE  IInv'
PROOF
<1> USE DEF IInv
<1>1. st[w] # <<>> /\ Top(w) = "init" /\ up
  BY TopStack DEF WorkerInit
<1>2. Replaces(w, <<>>) /\ Fits(w, <<>>) /\ NamesOf(<<>>) = {}
  BY <1>1, PopFits DEF WorkerInit
<1>3. st' \in [Id -> Seq(Step)] /\ Ordered' /\ \A v \in Id \ {w} : st'[v] = st[v]
  BY <1>2, ReplaceStack
<1>4. PICK B \in SUBSET {"ready", "loop"} :
         \A M : /\ Has(w, M) <=> "init" \in M \/ B \cap M # {}
                /\ Has(w, M)' <=> B \cap M # {}
  <2>1. PICK C \in SUBSET Under(Top(w)) :
           \A M : /\ Has(w, M) <=> Top(w) \in M \/ C \cap M # {}
                  /\ Has(w, M)' <=> NamesOf(<<>>) \cap M # {} \/ C \cap M # {}
    BY <1>2, ReplaceStack
  <2>2. C \in SUBSET {"ready", "loop"}
    BY <1>1, UnderFacts
  <2>3. \A M : /\ Has(w, M) <=> "init" \in M \/ C \cap M # {}
               /\ Has(w, M)' <=> C \cap M # {}
    BY <1>1, <1>2, <2>1
  <2> QED BY <2>2, <2>3
<1>5. \A v \in Id \ {w} : \A M : Has(v, M)' <=> Has(v, M)
  BY <1>3 DEF Has
<1>6. /\ UNCHANGED <<app, mine, quit, task_type, arg, res, owner, spawn_exit_lock, wait, state>>
      /\ nid' = nid + 1
  BY DEF WorkerInit, appVars, mailVars, barVars
<1>7. w = nid /\ "ready" \in B /\ nid \in Nat
  BY <1>4 DEF StackOf, TypeInv
<1>8. TypeInv' /\ StopInv'
  BY <1>3, <1>6 DEF TypeInv, StopInv
<1>9. LockInv'
  <2>1. Holds(w) /\ Holds(w)'
    BY <1>4, <1>7 DEF Holds
  <2>2. \A x : x \in Holders' <=> x \in Holders
    BY <1>3, <1>6, <2>1, WorkerHolds
  <2>3. Holders' = Holders
    BY <2>2
  <2> QED BY <1>6, <2>3 DEF LockInv
<1>10. ASSUME NEW v \in Id PROVE StackOf(v)' /\ MailOf(v)' /\ OwnerOf(v)'
  <2>1. CASE v = w
    <3>1. StackOf(v)'
      BY <1>4, <1>6, <1>7, <2>1 DEF StackOf
    <3>2. MailOf(v)'
      BY <1>4, <1>6, <2>1 DEF MailOf
    <3>3. OwnerOf(v)'
      BY <1>4, <1>6, <2>1 DEF OwnerOf
    <3> QED BY <3>1, <3>2, <3>3
  <2>2. CASE v # w
    <3>1. ~Has(v, {"init"}) /\ v \in Nat
      BY <1>7, <2>2, IdFacts DEF StackOf
    <3>2. StackOf(v)'
      BY <1>5, <1>6, <1>7, <2>2, <3>1 DEF StackOf
    <3>3. MailOf(v)'
      BY <1>5, <1>6, <2>2 DEF MailOf
    <3>4. OwnerOf(v)'
      BY <1>5, <1>6, <2>2 DEF OwnerOf
    <3> QED BY <3>2, <3>3, <3>4
  <2> QED BY <2>1, <2>2
<1>11. ASSUME NEW t \in Threads PROVE ThreadOf(t)'
  <2>1. CASE app[t] \in Served
    <3>1. PICK v \in Id : v = mine[t]
      BY <2>1 DEF ThreadOf
    <3>2. v < nid + 1
      BY <1>7, <2>1, <3>1, IdFacts DEF ThreadOf, StackOf
    <3>3. Has(v, {"loop", "release"})' => Has(v, {"loop", "release"})
      BY <1>4, <1>5
    <3> QED BY <1>6, <2>1, <3>1, <3>2, <3>3 DEF ThreadOf
  <2>2. CASE app[t] \notin Served
    BY <1>6, <2>2 DEF ThreadOf, Served
  <2> QED BY <2>1, <2>2
<1> QED BY <1>3, <1>8, <1>9, <1>10, <1>11

LEMMA UnlockInv ==
    ASSUME IInv, NEW w \in Id, Unlock(w)
    PROVE  IInv'
PROOF
<1> USE DEF IInv
<1>1. st[w] # <<>> /\ Top(w) \in {"ready", "xunlock", "gunlock"} /\ up
  BY TopStack DEF Unlock
<1>2. Replaces(w, <<>>) /\ Fits(w, <<>>) /\ NamesOf(<<>>) = {}
  BY <1>1, PopFits DEF Unlock
<1>3. st' \in [Id -> Seq(Step)] /\ Ordered' /\ \A v \in Id \ {w} : st'[v] = st[v]
  BY <1>2, ReplaceStack
<1>4. PICK B \in SUBSET Under(Top(w)) :
         \A M : /\ Has(w, M) <=> Top(w) \in M \/ B \cap M # {}
                /\ Has(w, M)' <=> B \cap M # {}
  BY <1>2, ReplaceStack
<1>5. /\ B \subseteq {"gc_off"} \cup Oper /\ Top(w) \in Names
      /\ Top(w) = "xunlock" => B = {}
      /\ B \cap (Key \ {"loop", "answer", "reply"}) = {}
  <2>1. B \subseteq {"gc_off"} \cup Oper /\ Top(w) \in Names
    BY <1>1, <1>4, UnderFacts DEF Oper, Mail, Names, Ends
  <2>2. ({"gc_off"} \cup Oper) \cap (Key \ {"loop", "answer", "reply"}) = {}
    BY DEF Key, Oper, Mail
  <2>3. Top(w) = "xunlock" => B = {}
    BY <1>4, UnderFacts
  <2> QED BY <2>1, <2>2, <2>3
<1>6. /\ UNCHANGED <<app, mine, quit, task_type, arg, res, owner, nid, wait, state>>
      /\ spawn_exit_lock' = 0
  BY DEF Unlock, appVars, mailVars, barVars
<1>7. Holders' = {}
  <2>1. Holds(w) /\ ~Holds(w)'
    BY <1>1, <1>4, <1>5 DEF Holds, Key
  <2>2. w \in Holders
    BY <1>3, <1>6, <2>1, WorkerHolds
  <2>3. Holders = {w}
    BY <2>2 DEF LockInv, TypeInv
  <2>4. \A x : x \notin Holders'
    BY <1>3, <1>6, <2>1, <2>3, WorkerHolds
  <2> QED BY <2>4
<1>8. TypeInv' /\ LockInv' /\ state' # "stopped"
  BY <1>1, <1>3, <1>6, <1>7 DEF TypeInv, LockInv, up
<1>9. w < nid /\ ~Has(w, {"init"}) /\ ~Has(w, {"init"})'
  <2>1. Has(w, Names) /\ ~Has(w, {"init"}) /\ ~Has(w, {"init"})'
    BY <1>1, <1>4, <1>5 DEF Key
  <2> QED BY <2>1, HasId
<1>10. StackOf(w)'
  <2>1. ~Has(w, {"xlock"})' /\ ~Has(w, {"glock"})'
    BY <1>4, <1>5 DEF Key
  <2>2. Has(w, Names \ {"leave_alive", "xunlock"})' => Has(w, {"loop", "release"})'
    <3> SUFFICES ASSUME B # {} PROVE B \cap {"loop", "release"} # {}
      BY <1>4
    <3>1. Top(w) \in Names \ {"leave_alive", "xunlock"} /\ Top(w) \notin {"loop", "release"}
      BY <1>1, <1>5
    <3> QED BY <1>4, <3>1 DEF StackOf
  <2>3. ~(w >= nid')
    BY <1>6, <1>9, IdFacts DEF TypeInv
  <2> QED BY <1>9, <2>1, <2>2, <2>3 DEF StackOf
<1>11. MailOf(w)'
  BY <1>1, <1>4, <1>6 DEF MailOf
<1>12. OwnerOf(w)'
  BY <1>1, <1>4, <1>6 DEF OwnerOf
<1> QED BY <1>3, <1>4, <1>6, <1>8, <1>9, <1>10, <1>11, <1>12, OneWorker

(* lace_steal_loop_ex starts its exit or the operation of its mailbox. *)
LEMMA LoopInv ==
    ASSUME IInv, NEW w \in Id, lace_steal_loop_ex(w)
    PROVE  IInv'
PROOF
<1> USE DEF IInv
<1>1. st[w] # <<>> /\ Top(w) = "loop" /\ up
  BY TopStack DEF lace_steal_loop_ex
<1>2. CASE YIELD_NEWFRAME(w)
  BY <1>1, <1>2, YieldQuiet
<1>3. ASSUME NEW names \in {Exit, Task}, Go(w, names),
             UNCHANGED <<appVars, mailVars, spawn_exit_lock, alive, nid, barVars, frameVars,
                         gc, state>>,
             names = Exit => quit[owner[w]] # 0,
             names = Task => task_type[w] # 0
      PROVE  IInv'
  <2> DEFINE N == {names[i] : i \in DOMAIN names}
  <2>1. /\ names \in Seq(Names)
        /\ \A i, j \in DOMAIN names : i < j => names[j] \in Under(names[i])
    <3>1. CASE names = Exit
      BY <3>1, UnderFacts DEF Exit, Names, Ends
    <3>2. CASE names = Task
      BY <3>2, UnderFacts DEF Task, Names, Oper, Mail
    <3> QED BY <3>1, <3>2
  <2>2. \A i \in DOMAIN names : Under(Top(w)) \subseteq Under(names[i])
    BY <1>1, UnderFacts
  <2>3. Fits(w, Steps(names)) /\ NamesOf(Steps(names)) = N
    BY <2>1, <2>2, StepsFit
  <2>4. /\ names = Exit => N = {"xlock", "release", "leave_alive", "xunlock"}
        /\ names = Task => N = {"work", "answer", "reply", "loop"}
        /\ names = Exit \/ names = Task
    <3>1. names = Exit => N = {"xlock", "release", "leave_alive", "xunlock"}
      BY DEF Exit
    <3>2. names = Task => N = {"work", "answer", "reply", "loop"}
      BY DEF Task
    <3> QED BY <3>1, <3>2
  <2>5. Replaces(w, Steps(names))
    BY <1>1, <1>3 DEF Go, Replaces
  <2> HIDE DEF N
  <2>6. st' \in [Id -> Seq(Step)] /\ Ordered' /\ \A v \in Id \ {w} : st'[v] = st[v]
    BY <2>3, <2>5, ReplaceStack
  <2>7. \A M : /\ Has(w, M) <=> "loop" \in M
               /\ Has(w, M)' <=> N \cap M # {}
    <3>1. PICK B \in SUBSET Under(Top(w)) :
             \A M : /\ Has(w, M) <=> Top(w) \in M \/ B \cap M # {}
                    /\ Has(w, M)' <=> NamesOf(Steps(names)) \cap M # {} \/ B \cap M # {}
      BY <2>3, <2>5, ReplaceStack
    <3>2. B = {}
      BY <1>1, UnderFacts
    <3> QED BY <1>1, <2>3, <3>1, <3>2
  <2>8. UNCHANGED <<app, mine, quit, task_type, arg, res, owner, nid, spawn_exit_lock, wait, state>>
    BY <1>3 DEF appVars, mailVars, barVars
  <2>9. LockInv'
    <3>1. ~Holds(w) /\ ~Holds(w)'
      BY <2>4, <2>7 DEF Holds
    <3>2. \A x : x \in Holders' <=> x \in Holders
      BY <2>6, <2>8, <3>1, WorkerHolds
    <3>3. Holders' = Holders
      BY <3>2
    <3> QED BY <2>8, <3>3 DEF LockInv
  <2>10. TypeInv' /\ state' # "stopped"
    BY <1>1, <2>6, <2>8 DEF TypeInv, up
  <2>11. w < nid /\ ~Has(w, {"init"}) /\ ~Has(w, {"init"})'
    <3>1. Has(w, Names) /\ ~Has(w, {"init"}) /\ ~Has(w, {"init"})'
      BY <2>4, <2>7 DEF Names, Oper, Mail
    <3> QED BY <3>1, HasId
  <2>12. StackOf(w)'
    <3>1. ~(w >= nid')
      BY <2>8, <2>11, IdFacts DEF TypeInv
    <3> QED BY <2>4, <2>7, <2>11, <3>1 DEF StackOf
  <2>13. MailOf(w)'
    <3>1. names = Task => task_type[w] = 1
      BY <1>3 DEF TypeInv
    <3> QED BY <2>4, <2>7, <2>8, <3>1 DEF MailOf
  <2>14. OwnerOf(w)'
    <3>1. owner[w] \in Threads
      BY <2>7 DEF OwnerOf
    <3>2. names = Exit => quit[owner[w]] = 1
      BY <1>3, <3>1 DEF TypeInv
    <3> QED BY <2>4, <2>7, <2>8, <3>2 DEF OwnerOf
  <2>15. Has(w, {"loop", "release"})
    BY <2>7
  <2> QED BY <2>6, <2>8, <2>9, <2>10, <2>11, <2>12, <2>13, <2>14, <2>15, OneWorker
<1>4. Exit # Task
  <2>1. Exit[1] = "xlock" /\ Task[1] = "work"
    BY DEF Exit, Task
  <2> QED BY <2>1
<1>5. CASE Go(w, Exit) /\ ~YIELD_NEWFRAME(w)
  BY <1>2, <1>3, <1>4, <1>5 DEF lace_steal_loop_ex
<1>6. CASE Go(w, Task) /\ ~YIELD_NEWFRAME(w)
  BY <1>2, <1>3, <1>4, <1>6 DEF lace_steal_loop_ex
<1> QED BY <1>2, <1>5, <1>6 DEF lace_steal_loop_ex

(* The result is written before the mailbox is handed back. *)
LEMMA AnswerInv ==
    ASSUME IInv, NEW w \in Id, Answer(w) \/ Reply(w)
    PROVE  IInv'
PROOF
<1> USE DEF IInv
<1>1. /\ st[w] # <<>> /\ up /\ Pop(w)
      /\ \/ Answer(w) /\ Top(w) = "answer"
         \/ Reply(w) /\ Top(w) = "reply"
  <2>1. CASE Answer(w)
    BY <2>1, TopStack DEF Answer
  <2>2. CASE Reply(w)
    BY <2>2, TopStack DEF Reply
  <2> QED BY <2>1, <2>2
<1>2. Replaces(w, <<>>) /\ Fits(w, <<>>) /\ NamesOf(<<>>) = {}
  BY <1>1, PopFits
<1>3. st' \in [Id -> Seq(Step)] /\ Ordered' /\ \A v \in Id \ {w} : st'[v] = st[v]
  BY <1>2, ReplaceStack
<1>4. PICK B \in SUBSET Under(Top(w)) :
         \A M : /\ Has(w, M) <=> Top(w) \in M \/ B \cap M # {}
                /\ Has(w, M)' <=> B \cap M # {}
  BY <1>2, ReplaceStack
<1>5. /\ B \subseteq {"reply", "loop"} /\ Top(w) \in Names
      /\ Top(w) = "reply" => B \subseteq {"loop"}
  BY <1>1, <1>4, UnderFacts DEF Names, Oper, Mail
<1>6. /\ UNCHANGED <<app, mine, quit, arg, owner, nid, spawn_exit_lock, wait, state>>
      /\ \A v \in Id \ {w} : task_type'[v] = task_type[v] /\ res'[v] = res[v]
      /\ Answer(w) => res'[w] = arg[w] /\ task_type' = task_type
      /\ Reply(w) => res' = res /\ task_type'[w] = 0
      /\ res' \in [Id -> Int] /\ task_type' \in [Id -> {0, 1}]
  BY DEF Answer, Reply, appVars, barVars, TypeInv
<1>7. LockInv'
  <2>1. ~Holds(w) /\ ~Holds(w)'
    BY <1>1, <1>4, <1>5 DEF Holds
  <2>2. \A x : x \in Holders' <=> x \in Holders
    BY <1>3, <1>6, <2>1, WorkerHolds
  <2>3. Holders' = Holders
    BY <2>2
  <2> QED BY <1>6, <2>3 DEF LockInv
<1>8. TypeInv' /\ state' # "stopped"
  BY <1>1, <1>3, <1>6 DEF TypeInv, up
<1>9. w < nid /\ ~Has(w, {"init"}) /\ ~Has(w, {"init"})'
  <2>1. Has(w, Names) /\ ~Has(w, {"init"}) /\ ~Has(w, {"init"})'
    BY <1>1, <1>4, <1>5
  <2> QED BY <2>1, HasId
<1>10. "loop" \in B
  <2>1. Has(w, Names \ {"leave_alive", "xunlock"})
    BY <1>1, <1>4, <1>5
  <2> QED BY <1>1, <1>4, <1>5, <2>1 DEF StackOf
<1>11. StackOf(w)'
  <2>1. ~(w >= nid')
    BY <1>6, <1>9, IdFacts DEF TypeInv
  <2> QED BY <1>4, <1>5, <1>9, <1>10, <2>1 DEF StackOf
<1>12. MailOf(w)'
  <2>1. task_type[w] = 1
    BY <1>1, <1>4 DEF MailOf
  <2>2. CASE Answer(w) /\ Top(w) = "answer"
    BY <1>4, <1>6, <2>1, <2>2 DEF MailOf
  <2>3. CASE Reply(w) /\ Top(w) = "reply"
    <3>1. Has(w, {"reply"}) /\ ~Has(w, {"answer"}) /\ ~Has(w, {"work", "answer", "reply"})'
      BY <1>4, <1>5, <2>3
    <3>2. res[w] = arg[w] /\ ~Has(w, {"reply"})'
      BY <1>4, <1>5, <2>3, <3>1 DEF MailOf
    <3> QED BY <1>6, <2>3, <3>1, <3>2 DEF MailOf
  <2> QED BY <1>1, <2>2, <2>3
<1>13. OwnerOf(w)'
  BY <1>4, <1>5, <1>6 DEF OwnerOf
<1> QED BY <1>3, <1>4, <1>6, <1>7, <1>8, <1>9, <1>11, <1>12, <1>13, OneWorker

(* The two ways for a worker to take the lock. *)
LEMMA LockStepInv ==
    ASSUME IInv, NEW w \in Id, ExitLock(w) \/ GcLock(w)
    PROVE  IInv'
PROOF
<1> USE DEF IInv
<1>1. CASE YIELD_NEWFRAME(w) /\ ExitLock(w)
  BY <1>1, TopStack, YieldQuiet DEF ExitLock
<1>2. CASE ~(YIELD_NEWFRAME(w) /\ ExitLock(w))
  <2>1. /\ st[w] # <<>> /\ up /\ Pop(w) /\ Top(w) \in {"xlock", "glock"}
        /\ spawn_exit_lock = 0 /\ spawn_exit_lock' = 1
        /\ UNCHANGED <<app, mine, quit, task_type, arg, res, owner, nid, wait, state>>
    <3>1. CASE ExitLock(w)
      BY <1>2, <3>1, TopStack DEF ExitLock, appVars, mailVars, barVars
    <3>2. CASE GcLock(w)
      BY <3>2, TopStack DEF GcLock, appVars, mailVars, barVars
    <3> QED BY <3>1, <3>2
  <2>2. Replaces(w, <<>>) /\ Fits(w, <<>>) /\ NamesOf(<<>>) = {}
    BY <2>1, PopFits
  <2>3. st' \in [Id -> Seq(Step)] /\ Ordered' /\ \A v \in Id \ {w} : st'[v] = st[v]
    BY <2>2, ReplaceStack
  <2>4. PICK B \in SUBSET Under(Top(w)) :
           \A M : /\ Has(w, M) <=> Top(w) \in M \/ B \cap M # {}
                  /\ Has(w, M)' <=> B \cap M # {}
    BY <2>2, ReplaceStack
  <2>5. "xlock" \notin B /\ "glock" \notin B /\ "init" \notin B /\ Top(w) \in Names
    BY <2>1, <2>4, UnderFacts DEF Names, Frame, Run, Oper, Mail
  <2>6. "xunlock" \in B \/ "gunlock" \in B
    BY <2>1, <2>4 DEF StackOf
  <2>7. Holders' = {w}
    <3>1. Holders = {} /\ Holds(w)'
      BY <2>1, <2>4, <2>5, <2>6 DEF LockInv, Holds
    <3>2. \A x : x \in Holders' <=> x = w
      BY <2>1, <2>3, <3>1, WorkerHolds
    <3> QED BY <3>2
  <2>8. TypeInv' /\ LockInv' /\ state' # "stopped"
    BY <2>1, <2>3, <2>7 DEF TypeInv, LockInv, up
  <2>9. w < nid /\ ~Has(w, {"init"}) /\ ~Has(w, {"init"})'
    <3>1. Has(w, Names) /\ ~Has(w, {"init"}) /\ ~Has(w, {"init"})'
      BY <2>1, <2>4, <2>5
    <3> QED BY <3>1, HasId
  <2>10. StackOf(w)'
    <3>1. ~(w >= nid')
      BY <2>1, <2>9, IdFacts DEF TypeInv
    <3>2. Has(w, {"loop", "release"})'
      <4>1. Has(w, Names \ {"leave_alive", "xunlock"})
        BY <2>1, <2>4, <2>5
      <4> QED BY <2>1, <2>4, <4>1 DEF StackOf
    <3> QED BY <2>4, <2>5, <2>9, <3>1, <3>2 DEF StackOf
  <2>11. MailOf(w)'
    BY <2>1, <2>4 DEF MailOf
  <2>12. OwnerOf(w)'
    BY <2>1, <2>4 DEF OwnerOf
  <2> QED BY <2>1, <2>3, <2>4, <2>8, <2>9, <2>10, <2>11, <2>12, OneWorker
<1> QED BY <1>1, <1>2

(* The acknowledgement for the thread: the last time the worker uses what  *)
(* belongs to it.                                                          *)
LEMMA ReleaseInv ==
    ASSUME IInv, NEW w \in Id, ExitRelease(w)
    PROVE  IInv'
PROOF
<1> DEFINE o == owner[w]
<1> USE DEF IInv
<1>1. st[w] # <<>> /\ up /\ Pop(w) /\ Top(w) = "release"
  BY TopStack DEF ExitRelease
<1>2. Replaces(w, <<>>) /\ Fits(w, <<>>) /\ NamesOf(<<>>) = {}
  BY <1>1, PopFits
<1>3. st' \in [Id -> Seq(Step)] /\ Ordered' /\ \A v \in Id \ {w} : st'[v] = st[v]
  BY <1>2, ReplaceStack
<1>4. PICK B \in SUBSET {"leave_alive", "xunlock"} :
         \A M : /\ Has(w, M) <=> "release" \in M \/ B \cap M # {}
                /\ Has(w, M)' <=> B \cap M # {}
  <2>1. PICK C \in SUBSET Under(Top(w)) :
           \A M : /\ Has(w, M) <=> Top(w) \in M \/ C \cap M # {}
                  /\ Has(w, M)' <=> NamesOf(<<>>) \cap M # {} \/ C \cap M # {}
    BY <1>2, ReplaceStack
  <2>2. C \in SUBSET {"leave_alive", "xunlock"}
    BY <1>1, UnderFacts
  <2>3. \A M : /\ Has(w, M) <=> "release" \in M \/ C \cap M # {}
               /\ Has(w, M)' <=> C \cap M # {}
    BY <1>1, <1>2, <2>1
  <2> QED BY <2>2, <2>3
<1>5. \A v \in Id \ {w} : \A M : Has(v, M)' <=> Has(v, M)
  BY <1>3 DEF Has
<1>6. o \in Threads /\ app[o] \in Served /\ mine[o] = w
  BY <1>4 DEF OwnerOf
<1>7. /\ UNCHANGED <<app, mine, task_type, arg, res, owner, nid, spawn_exit_lock, wait, state>>
      /\ quit' \in [Threads -> {0, 1}] /\ quit'[o] = 0
      /\ \A t \in Threads \ {o} : quit'[t] = quit[t]
  BY <1>6 DEF ExitRelease, mailVars, barVars, TypeInv
<1> HIDE DEF o
<1>8. TypeInv' /\ StopInv'
  BY <1>3, <1>7 DEF TypeInv, StopInv
<1>9. LockInv'
  <2>1. Holds(w)' <=> Holds(w)
    BY <1>4 DEF Holds
  <2>2. \A x : x \in Holders' <=> x \in Holders
    BY <1>3, <1>7, <2>1, WorkerHolds
  <2>3. Holders' = Holders
    BY <2>2
  <2> QED BY <1>7, <2>3 DEF LockInv
<1>10. w < nid
  <2>1. Has(w, Names) /\ ~Has(w, {"init"})
    BY <1>4 DEF Names, Ends
  <2> QED BY <2>1, HasId
<1>11. StackOf(w)' /\ MailOf(w)' /\ OwnerOf(w)'
  <2>1. ~(w >= nid')
    BY <1>7, <1>10, IdFacts DEF TypeInv
  <2>2. StackOf(w)'
    <3>1. ~Has(w, {"xlock"})' /\ ~Has(w, {"glock"})' /\ ~Has(w, {"init"})'
      BY <1>4
    <3>2. B \cap (Names \ {"leave_alive", "xunlock"}) = {}
      OBVIOUS
    <3>3. ~Has(w, Names \ {"leave_alive", "xunlock"})'
      BY <1>4, <3>2
    <3> QED BY <2>1, <3>1, <3>3 DEF StackOf
  <2>3. MailOf(w)'
    <3>1. ~Has(w, {"work", "answer", "reply"})' /\ ~Has(w, {"reply"})'
      BY <1>4
    <3> QED BY <1>7, <3>1 DEF MailOf
  <2>4. OwnerOf(w)'
    <3>1. ~Has(w, {"loop", "release"})' /\ ~Has(w, {"release"})'
      BY <1>4
    <3> QED BY <3>1 DEF OwnerOf
  <2> QED BY <2>2, <2>3, <2>4
<1>12. ASSUME NEW v \in Id, v # w PROVE StackOf(v)' /\ MailOf(v)' /\ OwnerOf(v)'
  <2>1. StackOf(v)'
    BY <1>5, <1>7, <1>12 DEF StackOf
  <2>2. MailOf(v)'
    BY <1>5, <1>7, <1>12 DEF MailOf
  <2>3. Has(v, {"release"}) => owner[v] \in Threads \ {o}
    <3>1. Has(v, {"release"}) => Has(v, {"loop", "release"})
      BY DEF Has
    <3> QED BY <1>6, <1>12, <3>1 DEF OwnerOf
  <2>4. OwnerOf(v)'
    BY <1>5, <1>7, <1>12, <2>3 DEF OwnerOf
  <2> QED BY <2>1, <2>2, <2>4
<1>13. ASSUME NEW t \in Threads PROVE ThreadOf(t)'
  <2>1. CASE t = o
    <3>1. ~Has(w, {"loop", "release"})' /\ w < nid' /\ w \in Id
      BY <1>4, <1>7, <1>10
    <3> QED BY <1>6, <1>7, <2>1, <3>1 DEF ThreadOf
  <2>2. CASE t # o /\ app[t] \in Served
    <3>1. PICK v \in Id : v = mine[t]
      BY <2>2 DEF ThreadOf
    <3>2. owner[v] = t /\ v # w
      BY <2>2, <3>1 DEF ThreadOf, o
    <3>3. \A M : Has(v, M)' <=> Has(v, M)
      BY <1>5, <3>2
    <3> QED BY <1>7, <2>2, <3>1, <3>3 DEF ThreadOf
  <2>3. CASE t # o /\ app[t] \notin Served
    BY <1>7, <2>3 DEF ThreadOf, Served
  <2> QED BY <2>1, <2>2, <2>3
<1> QED BY <1>3, <1>8, <1>9, <1>11, <1>12, <1>13

(* sylvan_gc: a new collection, or the frame of the one that is going on. *)
LEMMA GcInv ==
    ASSUME IInv, NEW w \in Id, sylvan_gc(w)
    PROVE  IInv'
PROOF
<1> DEFINE run == lace_run_newframe \o <<"gc_off">>
           join == <<"await", "copy">>
<1> USE DEF IInv
<1>1. /\ st[w] # <<>> /\ up /\ Top(w) = "gc"
      /\ Go(w, run) \/ Go(w, join)
      /\ UNCHANGED <<app, mine, quit, task_type, arg, res, owner, nid, spawn_exit_lock, wait, state>>
  BY TopStack DEF sylvan_gc, appVars, mailVars, barVars
<1>2. /\ Ord(run)
      /\ Rng(run) = {"glock", "gunlock", "gc_off"} \cup {"set_steal", "read", "clear", "collect", "done"}
  <2> DEFINE R == {"set_steal", "read", "clear", "collect", "done"}
             a == <<"glock", "set_steal">>
             e == <<"read">> \o <<"collect", "done">>
             f == e \o <<"read">>
             b == a \o <<"read">>
             c == b \o <<"clear">>
             d == c \o f
             g == d \o <<"gunlock">>
  <2>1. /\ \A n \in R \cup {"glock"} : R \cup {"gunlock", "gc_off"} \subseteq Under(n)
        /\ "gc_off" \in Under("gunlock")
    BY UnderFacts DEF Frame, Run
  <2>2. /\ Ord(<<"read">>) /\ Rng(<<"read">>) = {"read"}
        /\ Ord(<<"clear">>) /\ Rng(<<"clear">>) = {"clear"}
        /\ Ord(<<"gunlock">>) /\ Rng(<<"gunlock">>) = {"gunlock"}
        /\ Ord(<<"gc_off">>) /\ Rng(<<"gc_off">>) = {"gc_off"}
    BY DEF Ord, Rng, Names, Frame, Run
  <2>3. Ord(a) /\ Rng(a) = {"glock", "set_steal"}
    BY <2>1 DEF Ord, Rng, Names, Run
  <2>4. Ord(<<"collect", "done">>) /\ Rng(<<"collect", "done">>) = {"collect", "done"}
    BY <2>1 DEF Ord, Rng, Names, Run
  <2>5. run = g \o <<"gc_off">>
    BY DEF lace_run_newframe, lace_barrier, lace_exec_in_new_frame
  <2> HIDE DEF run, a, b, c, d, e, f, g
  <2>6. Ord(e) /\ Rng(e) = {"read", "collect", "done"}
    BY <2>1, <2>2, <2>4, ConcatOrd DEF e
  <2>7. Ord(f) /\ Rng(f) = {"read", "collect", "done"}
    BY <2>1, <2>2, <2>6, ConcatOrd DEF f
  <2>8. Ord(b) /\ Rng(b) = {"glock", "set_steal", "read"}
    BY <2>1, <2>2, <2>3, ConcatOrd DEF b
  <2>9. Ord(c) /\ Rng(c) = {"glock", "set_steal", "read", "clear"}
    BY <2>1, <2>2, <2>8, ConcatOrd DEF c
  <2>10. Ord(d) /\ Rng(d) = {"glock", "set_steal", "read", "clear", "collect", "done"}
    BY <2>1, <2>7, <2>9, ConcatOrd DEF d
  <2>11. Ord(g) /\ Rng(g) = {"glock", "set_steal", "read", "clear", "collect", "done", "gunlock"}
    BY <2>1, <2>2, <2>10, ConcatOrd DEF g
  <2>12. \A n \in Rng(g) : \A m \in Rng(<<"gc_off">>) : m \in Under(n)
    BY <2>1, <2>2, <2>11
  <2>13. Ord(run) /\ Rng(run) = Rng(g) \cup Rng(<<"gc_off">>)
    BY <2>2, <2>5, <2>11, <2>12, ConcatOrd
  <2> QED BY <2>2, <2>11, <2>13
<1>3. CASE Go(w, join)
  <2>1. join \in Seq(Names)
    BY DEF Names, Frame
  <2>2. /\ \A i, j \in DOMAIN join : i < j => join[j] \in Under(join[i])
        /\ \A i \in DOMAIN join : Under(Top(w)) \subseteq Under(join[i])
    <3>1. /\ "copy" \in Under("await")
          /\ Under("gc") \subseteq Under("await") /\ Under("gc") \subseteq Under("copy")
      BY UnderFacts DEF Frame
    <3> QED BY <1>1, <3>1
  <2>3. Fits(w, Steps(join)) /\ NamesOf(Steps(join)) = {join[i] : i \in DOMAIN join}
    BY <2>1, <2>2, StepsFit
  <2>4. {join[i] : i \in DOMAIN join} = {"await", "copy"}
    OBVIOUS
  <2>5. Replaces(w, Steps(join))
    BY <1>1, <1>3 DEF Go, Replaces
  <2>6. Still /\ wait' \in Int /\ state' # "stopped"
    BY <1>1 DEF Still, TypeInv, up
  <2> HIDE DEF join
  <2>7. NamesOf(Steps(join)) \cap Key = {Top(w)} \cap Key /\ "work" \notin NamesOf(Steps(join))
    BY <1>1, <2>3, <2>4 DEF Key
  <2> QED BY <1>1, <2>3, <2>5, <2>6, <2>7, Quiet
<1> HIDE DEF run
<1>4. CASE Go(w, run)
  <2> DEFINE N == {run[i] : i \in DOMAIN run}
  <2>1. run \in Seq(Names) /\ \A i, j \in DOMAIN run : i < j => run[j] \in Under(run[i])
    BY <1>2 DEF Ord
  <2>2. N = {"glock", "gunlock", "gc_off"} \cup {"set_steal", "read", "clear", "collect", "done"}
    BY <1>2 DEF Rng
  <2>4. \A i \in DOMAIN run : Under(Top(w)) \subseteq Under(run[i])
    <3>1. \A n \in N : Oper \subseteq Under(n)
      BY <2>2, UnderFacts DEF Frame, Run
    <3>2. Under(Top(w)) = Oper
      BY <1>1, UnderFacts
    <3> QED BY <3>1, <3>2
  <2>5. Fits(w, Steps(run)) /\ NamesOf(Steps(run)) = N
    BY <2>1, <2>4, StepsFit
  <2>6. Replaces(w, Steps(run))
    BY <1>1, <1>4 DEF Go, Replaces
  <2> HIDE DEF N
  <2>7. st' \in [Id -> Seq(Step)] /\ Ordered' /\ \A v \in Id \ {w} : st'[v] = st[v]
    BY <2>5, <2>6, ReplaceStack
  <2>8. PICK B \in SUBSET Under(Top(w)) :
           \A M : /\ Has(w, M) <=> Top(w) \in M \/ B \cap M # {}
                  /\ Has(w, M)' <=> N \cap M # {} \/ B \cap M # {}
    <3>1. PICK C \in SUBSET Under(Top(w)) :
             \A M : /\ Has(w, M) <=> Top(w) \in M \/ C \cap M # {}
                    /\ Has(w, M)' <=> NamesOf(Steps(run)) \cap M # {} \/ C \cap M # {}
      BY <2>5, <2>6, ReplaceStack
    <3> QED BY <2>5, <3>1
  <2>9. B \subseteq Oper /\ Oper = {"retry", "work", "answer", "reply", "loop"}
    BY <1>1, UnderFacts DEF Oper, Mail
  <2>10. LockInv'
    <3>1. ~Holds(w) /\ ~Holds(w)'
      <4>1. ~Has(w, {"ready", "xunlock", "gunlock"}) /\ Has(w, {"xlock", "glock"})'
        BY <1>1, <2>2, <2>8, <2>9
      <4> QED BY <4>1 DEF Holds
    <3>2. \A x : x \in Holders' <=> x \in Holders
      BY <1>1, <2>7, <3>1, WorkerHolds
    <3>3. Holders' = Holders
      BY <3>2
    <3> QED BY <1>1, <3>3 DEF LockInv
  <2>11. TypeInv' /\ state' # "stopped"
    BY <1>1, <2>7 DEF TypeInv, up
  <2>12. "gc" \in Names
    BY DEF Names
  <2>13. w < nid /\ ~Has(w, {"init"}) /\ ~Has(w, {"init"})'
    <3>1. Has(w, Names) /\ ~Has(w, {"init"}) /\ ~Has(w, {"init"})'
      BY <1>1, <2>2, <2>8, <2>9, <2>12
    <3> QED BY <3>1, HasId
  <2>14. "loop" \in B
    <3>1. Has(w, Names \ {"leave_alive", "xunlock"})
      BY <1>1, <2>8, <2>12
    <3> QED BY <1>1, <2>8, <2>9, <3>1 DEF StackOf
  <2>15. StackOf(w)'
    <3>1. ~(w >= nid')
      BY <1>1, <2>13, IdFacts DEF TypeInv
    <3>2. Has(w, {"gunlock"})' /\ ~Has(w, {"xlock"})' /\ Has(w, {"loop", "release"})'
      BY <2>2, <2>8, <2>9, <2>14
    <3> QED BY <2>13, <3>1, <3>2 DEF StackOf
  <2>16. MailOf(w)'
    <3>1. /\ Has(w, {"work", "answer", "reply"})' => Has(w, {"work", "answer", "reply"})
          /\ Has(w, {"reply"})' <=> Has(w, {"reply"})
          /\ Has(w, {"answer"})' <=> Has(w, {"answer"})
      BY <1>1, <2>2, <2>8
    <3> QED BY <1>1, <3>1 DEF MailOf
  <2>17. /\ Has(w, {"loop", "release"})' => Has(w, {"loop", "release"})
         /\ ~Has(w, {"release"})'
    BY <2>2, <2>8, <2>9
  <2>18. OwnerOf(w)'
    BY <1>1, <2>17 DEF OwnerOf
  <2> QED BY <1>1, <2>7, <2>10, <2>11, <2>13, <2>15, <2>16, <2>17, <2>18, OneWorker
<1> QED BY <1>1, <1>3, <1>4

-----------------------------------------------------------------------------
(* The invariant and the theorems.                                         *)

LEMMA StopStep ==
    ASSUME IInv, lace_stop \/ UNCHANGED vars
    PROVE  IInv'
PROOF
<1> USE DEF IInv
<1>1. /\ UNCHANGED <<app, mine, quit, task_type, arg, res, owner, spawn_exit_lock, nid, st, wait>>
      /\ state' = state \/ \A t \in Threads : app[t] = "off"
  BY DEF lace_stop, vars, appVars, mailVars, barVars
<1>2. \A v \in Id : \A M : Has(v, M)' <=> Has(v, M)
  BY <1>1 DEF Has
<1>3. TypeInv' /\ Ordered' /\ StopInv'
  BY <1>1 DEF TypeInv, Ordered, OrderedStack, Name, StopInv
<1>4. Holders' = Holders
  BY <1>1, <1>2 DEF Holders, Holds
<1>5. LockInv'
  BY <1>1, <1>4 DEF LockInv
<1>6. ASSUME NEW v \in Id PROVE StackOf(v)' /\ MailOf(v)' /\ OwnerOf(v)'
  <2>1. StackOf(v)'
    BY <1>1, <1>2 DEF StackOf
  <2>2. MailOf(v)'
    BY <1>1, <1>2 DEF MailOf
  <2>3. OwnerOf(v)'
    BY <1>1, <1>2 DEF OwnerOf
  <2> QED BY <2>1, <2>2, <2>3
<1>7. ASSUME NEW t \in Threads PROVE ThreadOf(t)'
  <2>1. CASE app[t] \in Served
    <3>1. PICK v \in Id : v = mine[t]
      BY <2>1 DEF ThreadOf
    <3> QED BY <1>1, <1>2, <2>1, <3>1 DEF ThreadOf
  <2>2. CASE app[t] \notin Served
    BY <1>1, <2>2 DEF ThreadOf, Served
  <2> QED BY <2>1, <2>2
<1> QED BY <1>3, <1>5, <1>6, <1>7

LEMMA NextInv ==
    IInv /\ [Next]_vars => IInv'
PROOF
<1> SUFFICES ASSUME IInv, [Next]_vars PROVE IInv'
  OBVIOUS
<1>1. CASE lace_stop \/ UNCHANGED vars
  BY <1>1, StopStep
<1>2. ASSUME NEW t \in Threads, Request(t) \/ AppStep(t) PROVE IInv'
  BY <1>2, ThreadStartInv, SpawnLockInv, SpawnWorkerInv, ThreadStepInv DEF Request, AppStep
<1>3. ASSUME NEW w \in Id, LifeStep(w) PROVE IInv'
  BY <1>3, WorkerInitInv, UnlockInv, LoopInv, QuietLife, AnswerInv, LockStepInv, ReleaseInv
     DEF LifeStep
<1>4. ASSUME NEW w \in Id, FrameStep(w) PROVE IInv'
  BY <1>4, GcInv, QuietFrame, LockStepInv, QuietPush DEF FrameStep
<1>5. ASSUME NEW w \in Id, TableFull(w) \/ WorkerStep(w) PROVE IInv'
  BY <1>3, <1>4, <1>5, QuietFull, QuietBarrier DEF WorkerStep
<1> QED BY <1>1, <1>2, <1>5 DEF Next

LEMMA Invariant ==
    Spec => []IInv
BY InitInv, NextInv, PTL DEF Spec

(* At any time at most one thread or worker is in the section that         *)
(* spawn_exit_lock guards, and the word is 1 exactly then: the compare-    *)
(* and-swap of lace_spawn_worker, the hand-over to the new worker and the  *)
(* three releases fit together for any number of threads and workers.      *)
THEOREM LockExclusive ==
    Spec => []LockOwner
PROOF
<1>1. IInv => LockOwner
  <2> SUFFICES ASSUME IInv PROVE LockOwner
    OBVIOUS
  <2>1. CASE spawn_exit_lock = 0
    BY <2>1, FS_EmptySet DEF IInv, LockInv, LockOwner
  <2>2. CASE spawn_exit_lock = 1
    BY <2>2, FS_Singleton DEF IInv, LockInv, LockOwner
  <2> QED BY <2>1, <2>2 DEF IInv, TypeInv
<1> QED BY <1>1, Invariant, PTL

(* A thread that has left its wait finds the result of its own request in  *)
(* the mailbox, and no worker will write there until the next request.     *)
THEOREM MailboxExact ==
    Spec => []MailboxAnswer
PROOF
<1>1. IInv => MailboxAnswer
  <2> SUFFICES ASSUME IInv, NEW t \in Threads, app[t] = "idle"
               PROVE  /\ res[mine[t]] = arg[mine[t]]
                      /\ ~Has(mine[t], {"work", "answer", "reply"})
    BY DEF MailboxAnswer
  <2>1. PICK w \in Id : w = mine[t]
    BY DEF IInv, ThreadOf, Served
  <2>2. owner[w] = t
    BY <2>1 DEF IInv, ThreadOf, Served
  <2>3. ~\E s \in Threads : app[s] = "wait" /\ mine[s] = w
    BY <2>2 DEF IInv, ThreadOf, Served
  <2>4. task_type[w] = 0
    BY <2>3 DEF IInv, MailOf, TypeInv
  <2> QED BY <2>1, <2>4 DEF IInv, MailOf
<1> QED BY <1>1, Invariant, PTL

(* lace_stop frees the mailboxes and the workers' memory without waiting   *)
(* for the workers: whatever their number, none is left in a step that     *)
(* uses them.                                                              *)
THEOREM StopHarmless ==
    Spec => []StopSafe
PROOF
<1>1. IInv => StopSafe
  <2> SUFFICES ASSUME IInv, state = "stopped", NEW w \in Id,
                      Top(w) \notin {"none", "leave_alive", "xunlock"}
               PROVE  FALSE
    BY DEF StopSafe
  <2>1. \A t \in Threads : app[t] = "off"
    BY DEF IInv, StopInv
  <2>2. st[w] # <<>> /\ st[w] \in Seq(Step)
    BY DEF Top, IInv, TypeInv
  <2>3. 1 \in DOMAIN st[w] /\ st[w][1] \in Step /\ Top(w) = st[w][1][1]
    BY <2>2 DEF Top
  <2>4. Has(w, Names \ {"leave_alive", "xunlock"})
    BY <2>3 DEF Has, Step
  <2>5. Has(w, {"loop", "release"})
    BY <2>4 DEF IInv, StackOf
  <2> QED BY <2>1, <2>5 DEF IInv, OwnerOf, Served
<1> QED BY <1>1, Invariant, PTL
=============================================================================
