------------------------------ MODULE MCInput ------------------------------
(* TLC instances of Input: MaxCalls system calls in all. *)
EXTENDS Input
CONSTANTS MaxCalls, t1, t2
VARIABLE calls
MCBuf(t) == IF t = t1 THEN 3 ELSE 5
MCInit == Init /\ calls = 0
(* Once the callbacks are excused nothing more is to be seen. *)
Interesting == ~odd /\ ~lost
MCEnter(t, c) == calls < MaxCalls /\ calls' = calls + 1 /\ sysenter_save(t, c)
MCNext == /\ Interesting
          /\ \E t \in Threads :
                \/ \E c \in Syscalls : MCEnter(t, c)
                \/ (sysexit_save(t) \/ SetTags(t)) /\ UNCHANGED calls
MCSpec == MCInit /\ [][MCNext]_<<vars, calls>>
=============================================================================
