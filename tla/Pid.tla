-------------------------------- MODULE Pid --------------------------------
(***************************************************************************)
(* The process numbers of kern/process/proc.c.  do_fork looks at           *)
(* nr_process before it allocates, and get_pid runs after it, so forks     *)
(* that sleep in kmalloc in between all passed the same check.  get_pid    *)
(* keeps an interval last_pid .. next_safe - 1 it believes to be free.     *)
(***************************************************************************)
EXTENDS Integers, Sequences, FiniteSets, SequencesExt

CONSTANTS MAX_PROCESS, MAX_PID

VARIABLES
    list,       \* proc_list: the pids, newest first
    last_pid, next_safe,
    forking     \* forks between the nr_process check and get_pid

pidVars == <<list, last_pid, next_safe, forking>>

(* Only init is left of boot; nr_process counts idle too, which is not on  *)
(* the list.                                                               *)
PidInit == list = <<1>> /\ last_pid = 1 /\ next_safe = MAX_PID /\ forking = 0
nr_process == Len(list) + 1

(* The walk at position i of the list, from repeat: at 1.                  *)
RECURSIVE Scan(_, _, _)
Scan(last, safe, i) ==
    IF i > Len(list) THEN <<last, safe>>
    ELSE IF list[i] = last
    THEN IF last + 1 >= safe
         THEN Scan(IF last + 1 >= MAX_PID THEN 1 ELSE last + 1, MAX_PID, 1)
         ELSE Scan(last + 1, safe, i + 1)
    ELSE Scan(last, IF list[i] > last /\ safe > list[i] THEN list[i] ELSE safe, i + 1)

MutGetPid ==
    LET last == last_pid + 1 IN
    IF last >= MAX_PID THEN Scan(1, MAX_PID, 1)
    ELSE IF last > next_safe THEN Scan(last, MAX_PID, 1)
    ELSE <<last, next_safe>>

get_pid ==
    LET last == last_pid + 1 IN
    IF last >= MAX_PID THEN Scan(1, MAX_PID, 1)
    ELSE IF last >= next_safe THEN Scan(last, MAX_PID, 1)
    ELSE <<last, next_safe>>

(* A process is in one fork at a time, and does not leave while in it.     *)
ForkStart ==
    /\ nr_process < MAX_PROCESS /\ forking < Len(list)
    /\ forking' = forking + 1
    /\ UNCHANGED <<list, last_pid, next_safe>>

ForkFails == forking > 0 /\ forking' = forking - 1 /\ UNCHANGED <<list, last_pid, next_safe>>

ForkLinks ==
    /\ forking > 0 /\ Len(list) < MAX_PID - 1
    /\ list' = <<get_pid[1]>> \o list
    /\ last_pid' = get_pid[1] /\ next_safe' = get_pid[2]
    /\ forking' = forking - 1

remove_links == \E i \in 1 .. Len(list) :
    /\ list[i] # 1 /\ forking < Len(list)
    /\ list' = RemoveAt(list, i)
    /\ UNCHANGED <<last_pid, next_safe, forking>>

PidNext == ForkStart \/ ForkFails \/ ForkLinks \/ remove_links
PidSpec == PidInit /\ [][PidNext]_pidVars

(* No two processes have one number, every number can be looked up by      *)
(* find_proc (0 < pid < MAX_PID), and get_pid always has a number left to  *)
(* find, or it would walk the list for ever: though next_safe goes stale   *)
(* as processes leave, the numbers wrap round, and forks that sleep may    *)
(* take nr_process past MAX_PROCESS.                                       *)
PidsUnique ==
    /\ IsInjective(list)
    /\ ToSet(list) \subseteq 1 .. MAX_PID - 1
    /\ Len(list) < MAX_PID - 1
=============================================================================
