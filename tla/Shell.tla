------------------------------- MODULE Shell -------------------------------
(***************************************************************************)
(* The jobs of mysh (ex-3/main.c, proc.c): the loop of main(), the signal  *)
(* handlers, which run between any two of its steps, and the processes it  *)
(* forks.  A handler that comes while the shell is blocked in waitpid()    *)
(* makes it return, as no handler is installed with SA_RESTART.            *)
(*                                                                         *)
(* Every job leaves the shell's process group and none is ever put in the  *)
(* foreground: ^C and ^Z reach the shell only, which passes them on.       *)
(*                                                                         *)
(* The code has no test for the ends of its two stacks.  An access outside *)
(* of tstp_cpid, or a pop from an empty bg_pid, is a step after which the  *)
(* shell takes no other: what it does then is undefined.  bg_pid has no    *)
(* upper end here (it has ten places).                                     *)
(***************************************************************************)
EXTENDS Integers, Sequences, FiniteSets, SequencesExt

CONSTANTS MaxPid,     \* bound: process ids
          MaxStages,  \* bound: commands in a pipeline
          MaxSignals, \* bound: how often the user types ^C or ^Z
          MaxGaps,    \* bound: process ids that other programs take
          Places,     \* places of tstp_cpid
          FlagValues  \* what bg_done_flg may hold before it is assigned

ASSUME ShellAssumption == /\ {MaxPid, MaxSignals, MaxGaps, Places} \subseteq Nat
                          /\ MaxStages \in 1 .. 3
                          /\ FlagValues \subseteq {0, 1}

VARIABLES
  (* The processes, by id: *)
  state,       \* "unused", "new" before setpgid(), "runs", "stopped" by ^Z,
               \* "tty" if stopped on reading the terminal, "zombie", "gone"
  group,       \* process group; 0 is that of the shell
  stage,       \* the loop counter i of the pipeline a process belongs to
  writer,      \* the process that writes what it reads, 0 if there is none
  last,        \* the last id given
  (* The shell: *)
  pc,          \* where main() is
  line,        \* the command line: how many commands, with & or not
  todo,        \* the processes it will wait for next, in this order
  cpid, pipe_cnt, tstp_cpid, tstp_cnt, bg_pid, bg_done_flg,
  slot,        \* in fg_proc(): the register with the decremented tstp_cnt
  victims,     \* in abrt_handler(): the ids it still has to kill and wait for
  killed,      \* in abrt_handler(): the first of them was sent SIGKILL
  leaked,      \* processes that read a pipe the shell can still write to
  (* Not in the code: *)
  job,         \* the processes of the line, in the order of their start
  signals,     \* how many signals so far
  calm,        \* no signal since the line was entered
  torn,        \* ^Z has come inside of fg_proc() or of abrt_handler()
  odd          \* bg_done_flg was 1 at first, no pipeline has set it since

procVars  == <<state, group, stage, writer, last, leaked>>
stackVars == <<tstp_cpid, tstp_cnt, slot>>
bgVars    == <<bg_pid, bg_done_flg>>
lineVars  == <<line, cpid, pipe_cnt, job>>
intVars   == <<victims, killed>>
histVars  == <<signals, calm, torn, odd>>
vars == <<procVars, pc, todo, stackVars, bgVars, lineVars, intVars, histVars>>

Pid  == 1 .. MaxPid
Pid0 == 0 .. MaxPid
Child == {p \in Pid : state[p] \notin {"unused", "gone"}}

Init ==
  /\ state = [p \in Pid |-> "unused"]
  /\ group = [p \in Pid |-> 0]
  /\ stage = [p \in Pid |-> 0]
  /\ writer = [p \in Pid0 |-> 0]
  /\ last = 0
  /\ leaked = {}
  /\ pc = "prompt"
  /\ line = [commands |-> 1, bg |-> FALSE]
  /\ todo = <<>>
  /\ cpid = 0
  /\ pipe_cnt = 0
  /\ tstp_cpid = [k \in 0 .. Places - 1 |-> 0]
  /\ tstp_cnt = 0
  /\ bg_pid = <<>>
  /\ bg_done_flg \in FlagValues
  /\ slot = 0
  /\ victims = <<>>
  /\ killed = FALSE
  /\ job = <<>>
  /\ signals = 0
  /\ calm = TRUE
  /\ torn = FALSE
  /\ odd = (bg_done_flg = 1)

(* main() goes on while no handler runs.                                   *)
At(where) == pc = where /\ victims = <<>>

-----------------------------------------------------------------------------
(* Processes. *)

(* killpg(): the processes of group g that are in one of the states.       *)
Signalled(g, from, to) ==
  [p \in Pid |-> IF g # 0 /\ group[p] = g /\ state[p] \in from THEN to ELSE state[p]]

(* setpgid(), and exec or exit.  A stage of a pipeline takes the group     *)
(* whose id is as many below its own as there are stages before it; it     *)
(* ends where that group does not exist, or not yet.                       *)
Join(p) ==
  /\ state[p] = "new"
  /\ LET g == p - stage[p] IN
     \/ /\ stage[p] = 0 \/ \E q \in Child : group[q] = g
        /\ group' = [group EXCEPT ![p] = g]
        /\ state' = [state EXCEPT ![p] = "runs"]
     \/ /\ stage[p] # 0 /\ \A q \in Child : group[q] # g
        /\ state' = [state EXCEPT ![p] = "zombie"]
        /\ UNCHANGED group
  /\ UNCHANGED <<stage, writer, last, leaked, pc, todo, stackVars, bgVars, lineVars, intVars, histVars>>

End(p) ==
  /\ state[p] = "runs"
  /\ state' = [state EXCEPT ![p] = "zombie"]
  /\ UNCHANGED <<group, stage, writer, last, leaked, pc, todo, stackVars, bgVars, lineVars, intVars, histVars>>

(* SIGTTIN: the first of a job reads the terminal from another group than  *)
(* the foreground one.                                                     *)
ReadTerminal(p) ==
  /\ state[p] = "runs"
  /\ stage[p] = 0
  /\ state' = [state EXCEPT ![p] = "tty"]
  /\ UNCHANGED <<group, stage, writer, last, leaked, pc, todo, stackVars, bgVars, lineVars, intVars, histVars>>

-----------------------------------------------------------------------------
(* A command line. *)

Enter(n, bg) ==
  /\ At("prompt")
  /\ last + n <= MaxPid
  /\ line' = [commands |-> n, bg |-> bg]
  /\ pipe_cnt' = n - 1
  /\ job' = <<>>
  /\ calm' = TRUE
  /\ pc' = "fork"
  /\ UNCHANGED <<procVars, todo, stackVars, bgVars, cpid, intVars, signals, torn, odd>>

(* fork() gives the next id, or one that other programs leave.             *)
Gaps == last - Cardinality({p \in Pid : state[p] # "unused"})
Fork(p) ==
  /\ p \in last + 1 .. last + 1 + (MaxGaps - Gaps)
  /\ p + line.commands - Len(job) - 1 <= MaxPid
  /\ last' = p
  /\ state' = [state EXCEPT ![p] = "new"]
  /\ stage' = [stage EXCEPT ![p] = Len(job)]
  /\ writer' = [writer EXCEPT ![p] = IF job = <<>> THEN 0 ELSE Last(job)]
  /\ job' = Append(job, p)
  /\ UNCHANGED group

WaitFor(pids) == todo' = pids /\ pc' = IF pids = <<>> THEN "prompt" ELSE "towait"

(* Mutant of FlagAfter: bg_done_flg is not reset.                          *)
FlagStays(bg) == IF bg THEN 1 ELSE bg_done_flg
FlagAfter(bg) == IF bg THEN 1 ELSE 0

(* A single command.  bg_done_flg says that the process on top of bg_pid   *)
(* is waited for first, which may be the one just started.                 *)
ForkSingle(p) ==
  /\ At("fork")
  /\ pipe_cnt = 0
  /\ Fork(p)
  /\ cpid' = p
  /\ LET pushed == IF line.bg THEN Append(bg_pid, p) ELSE bg_pid
         own    == IF line.bg THEN <<>> ELSE <<p>>
     IN \/ /\ bg_done_flg = 1 /\ pushed # <<>>
           /\ bg_pid' = Front(pushed)
           /\ WaitFor(<<Last(pushed)>> \o own)
        \/ /\ bg_done_flg = 1 /\ pushed = <<>>
           /\ bg_pid' = pushed
           /\ pc' = "undefined" \* bg_pid[-1]
           /\ UNCHANGED todo
        \/ /\ bg_done_flg # 1
           /\ bg_pid' = pushed
           /\ WaitFor(own)
  /\ bg_done_flg' = FlagAfter(line.bg)
  /\ UNCHANGED <<leaked, stackVars, line, pipe_cnt, intVars, histVars>>

(* Mutant of Awaited: the last process is not waited for.                  *)
AwaitedButLast(p) == [k \in 1 .. pipe_cnt |-> p - pipe_cnt + k - 1]
Awaited(p) == [k \in 1 .. pipe_cnt + 1 |-> p - pipe_cnt + k - 1]

(* One round of the loop over a pipeline.  cpid keeps the process of an    *)
(* earlier command.  With & the pipes are not closed.                      *)
ForkStage(p) ==
  /\ At("fork")
  /\ pipe_cnt > 0
  /\ Fork(p)
  /\ IF line.bg THEN /\ bg_pid' = Append(bg_pid, p)
                     /\ bg_done_flg' = 1
                     /\ leaked' = IF job = <<>> THEN leaked ELSE leaked \cup {p}
                ELSE bg_done_flg' = 0 /\ UNCHANGED <<bg_pid, leaked>>
  /\ IF Len(job) = pipe_cnt THEN WaitFor(Awaited(p)) ELSE UNCHANGED <<pc, todo>>
  /\ odd' = FALSE
  /\ UNCHANGED <<stackVars, line, cpid, pipe_cnt, intVars, signals, calm, torn>>

(* waitpid(): an id, or 0 for any process that is still in the group of    *)
(* the shell.                                                              *)
Awaits(t) == IF t = 0 THEN {p \in Child : group[p] = 0} ELSE {t} \cap Child
(* Mutant of Reap: waitpid() is called again when it fails.                *)
ReapRetried(t) ==
  \E p \in Awaits(t) : state[p] = "zombie" /\ state' = [state EXCEPT ![p] = "gone"]
Reap(t) ==
  \/ \E p \in Awaits(t) : state[p] = "zombie" /\ state' = [state EXCEPT ![p] = "gone"]
  \/ Awaits(t) = {} /\ UNCHANGED state

Waitpid ==
  /\ At("towait")
  /\ pc' = "waiting"
  /\ UNCHANGED <<procVars, todo, stackVars, bgVars, lineVars, intVars, histVars>>

(* Mutant of Goes: the prompt comes back after the first of them.          *)
GoesAfterOne == todo' = Tail(todo) /\ pc' = "prompt"
Goes == todo' = Tail(todo) /\ pc' = IF Len(todo) = 1 THEN "prompt" ELSE "towait"

WaitpidReturns ==
  /\ At("waiting")
  /\ Reap(Head(todo))
  /\ Goes
  /\ UNCHANGED <<group, stage, writer, last, leaked, stackVars, bgVars, lineVars, intVars, histVars>>

(* quit, exit: nothing is left of the variables of the shell.  What becomes *)
(* of the jobs is left out.  Other built-in commands change no job.        *)
Quit ==
  /\ At("prompt")
  /\ pc' = "ended"
  /\ cpid' = 0
  /\ pipe_cnt' = 0
  /\ tstp_cpid' = [k \in 0 .. Places - 1 |-> 0]
  /\ tstp_cnt' = 0
  /\ slot' = 0
  /\ bg_pid' = <<>>
  /\ bg_done_flg' = 0
  /\ job' = <<>>
  /\ UNCHANGED <<procVars, todo, line, intVars, histVars>>

-----------------------------------------------------------------------------
(* fg_proc(), instruction by instruction where it shares tstp_cnt with the *)
(* handler.  The index of the load is the register or tstp_cnt again.      *)
(* A ^Z between them can raise tstp_cnt to the number of places.           *)
Overrun == pc' = "overrun" /\ todo' = <<>>

Fg ==
  /\ At("prompt")
  /\ tstp_cnt > 0
  /\ slot' = tstp_cnt - 1
  /\ pc' = "fgstore"
  /\ job' = <<>>
  /\ UNCHANGED <<procVars, todo, tstp_cpid, tstp_cnt, bgVars, line, cpid, pipe_cnt, intVars, histVars>>

FgStore ==
  /\ At("fgstore")
  /\ tstp_cnt' = slot
  /\ pc' = "fgload"
  /\ UNCHANGED <<procVars, todo, tstp_cpid, slot, bgVars, lineVars, intVars, histVars>>

FgLoad ==
  /\ At("fgload")
  /\ \E k \in {slot, tstp_cnt} :
       \/ k < Places /\ cpid' = tstp_cpid[k] /\ pc' = "fgcont" /\ UNCHANGED todo
       \/ k = Places /\ Overrun /\ UNCHANGED cpid
  /\ slot' = 0
  /\ UNCHANGED <<procVars, tstp_cpid, tstp_cnt, bgVars, line, pipe_cnt, job, intVars, histVars>>

FgCont ==
  /\ At("fgcont")
  /\ \/ /\ tstp_cnt < Places
        /\ state' = Signalled(tstp_cpid[tstp_cnt], {"stopped", "tty"}, "runs")
        /\ pc' = "fgwait"
        /\ UNCHANGED todo
     \/ tstp_cnt = Places /\ Overrun /\ UNCHANGED state
  /\ UNCHANGED <<group, stage, writer, last, leaked, stackVars, bgVars, lineVars, intVars, histVars>>

FgWait ==
  /\ At("fgwait")
  /\ \/ tstp_cnt < Places /\ WaitFor(<<tstp_cpid[tstp_cnt]>>)
     \/ tstp_cnt = Places /\ Overrun
  /\ UNCHANGED <<procVars, stackVars, bgVars, lineVars, intVars, histVars>>

-----------------------------------------------------------------------------
(* Signals. *)

Typed(inside) ==
  /\ pc \notin {"ended", "undefined", "overrun"}
  /\ signals < MaxSignals
  /\ signals' = signals + 1
  /\ calm' = FALSE
  /\ torn' = (torn \/ inside)
  /\ UNCHANGED odd

(* A blocked waitpid() of main() returns EINTR.                            *)
Interrupted == IF At("waiting") THEN Goes ELSE UNCHANGED <<pc, todo>>

(* abrt_handler(), during which ^C is blocked.                             *)
CtrlC ==
  /\ victims = <<>>
  /\ Typed(FALSE)
  /\ victims' = IF cpid = 0 THEN <<>>
                ELSE [k \in 1 .. (IF pipe_cnt > 0 THEN pipe_cnt ELSE 1) |-> cpid + k - 1]
  /\ Interrupted
  /\ UNCHANGED <<procVars, stackVars, bgVars, lineVars, killed>>

Killpg ==
  /\ victims # <<>>
  /\ ~killed
  /\ state' = Signalled(Head(victims), {"runs", "stopped", "tty"}, "zombie")
  /\ killed' = TRUE
  /\ UNCHANGED <<group, stage, writer, last, leaked, pc, todo, stackVars, bgVars, lineVars, victims, histVars>>

(* Mutant of KilledWait: abrt_handler() does not wait.                     *)
KilledNoWait == UNCHANGED state
KilledWait == Reap(Head(victims))

KillReturns ==
  /\ victims # <<>>
  /\ killed
  /\ KilledWait
  /\ victims' = Tail(victims)
  /\ killed' = FALSE
  /\ UNCHANGED <<group, stage, writer, last, leaked, pc, todo, stackVars, bgVars, lineVars, histVars>>

(* Mutant of Push: a process is saved once only.                           *)
PushLast == tstp_cpid' = [tstp_cpid EXCEPT ![0] = cpid] /\ tstp_cnt' = 1
Push == tstp_cpid' = [tstp_cpid EXCEPT ![tstp_cnt] = cpid] /\ tstp_cnt' = tstp_cnt + 1

(* tstp_handler(), also inside abrt_handler(), whose waitpid() it lets     *)
(* fail.  With all places taken it writes past the end of tstp_cpid.       *)
CtrlZ ==
  /\ Typed(victims # <<>> \/ pc \in {"fgstore", "fgload", "fgcont", "fgwait"})
  /\ \/ /\ cpid # 0
        /\ tstp_cnt = Places
        /\ Overrun
        /\ victims' = <<>>
        /\ killed' = FALSE
        /\ UNCHANGED <<state, tstp_cpid, tstp_cnt>>
     \/ /\ \/ cpid = 0 /\ UNCHANGED <<state, tstp_cpid, tstp_cnt>>
           \/ /\ cpid # 0
              /\ tstp_cnt < Places
              /\ Push
              /\ state' = Signalled(cpid, {"runs", "tty"}, "stopped")
        /\ \/ killed /\ victims' = Tail(victims) /\ killed' = FALSE /\ UNCHANGED <<pc, todo>>
           \/ ~killed /\ Interrupted /\ UNCHANGED intVars
  /\ UNCHANGED <<group, stage, writer, last, leaked, slot, bgVars, lineVars>>

-----------------------------------------------------------------------------
ProcessStep(p) == pc # "ended" /\ (Join(p) \/ End(p) \/ ReadTerminal(p))

Command == \/ \E n \in 1 .. MaxStages, bg \in BOOLEAN : Enter(n, bg)
           \/ Fg \/ Quit

ShellStep == \/ \E p \in Pid : ForkSingle(p) \/ ForkStage(p)
             \/ Waitpid \/ WaitpidReturns
             \/ FgStore \/ FgLoad \/ FgCont \/ FgWait
             \/ Killpg \/ KillReturns

Next == \/ \E p \in Pid : ProcessStep(p)
        \/ Command
        \/ ShellStep
        \/ CtrlC \/ CtrlZ

Spec == Init /\ [][Next]_vars

(* A process that is not stopped ends once all that it reads has come, and *)
(* the shell goes on.  Nobody has to type anything.  One fairness for all  *)
(* of them is enough, as without the user they take finitely many steps.   *)
InputEnds(p) == /\ p \notin leaked
                /\ writer[p] # 0 => state[writer[p]] \in {"zombie", "gone"}

GoesOn == /\ pc # "ended"
          /\ \/ ShellStep
             \/ \E p \in Pid : Join(p) \/ (InputEnds(p) /\ End(p))

FairSpec == Spec /\ WF_vars(GoesOn)

-----------------------------------------------------------------------------
TypeOK ==
  /\ state \in [Pid -> {"unused", "new", "runs", "stopped", "tty", "zombie", "gone"}]
  /\ group \in [Pid -> Pid0]
  /\ stage \in [Pid -> 0 .. MaxStages - 1]
  /\ writer \in [Pid0 -> Pid0]
  /\ last \in Pid0
  /\ leaked \subseteq Pid
  /\ pc \in {"prompt", "fork", "towait", "waiting", "fgstore", "fgload", "fgcont",
             "fgwait", "ended", "undefined", "overrun"}
  /\ line \in [commands : 1 .. MaxStages, bg : BOOLEAN]
  /\ todo \in Seq(Pid0)
  /\ (pc \in {"towait", "waiting"}) <=> (todo # <<>>)
  /\ cpid \in Pid0
  /\ pipe_cnt \in 0 .. MaxStages - 1
  /\ tstp_cpid \in [0 .. Places - 1 -> Pid0]
  /\ tstp_cnt \in 0 .. Places
  /\ bg_pid \in Seq(Pid)
  /\ bg_done_flg \in {0, 1}
  /\ slot \in 0 .. Places
  /\ victims \in Seq(Nat)
  /\ killed \in BOOLEAN
  /\ job \in Seq(Pid)
  /\ signals \in 0 .. MaxSignals
  /\ calm \in BOOLEAN /\ torn \in BOOLEAN /\ odd \in BOOLEAN

(* memo.txt: a job stopped by ^Z can be continued with fg.  It stays on    *)
(* the stack, unless the next ^Z hits fg_proc() between its instructions:  *)
(* then it may be overwritten and can never be continued.                  *)
OnStack(g) == \E k \in 0 .. tstp_cnt - 1 : tstp_cpid[k] = g
InFg(g) == /\ pc \in {"fgload", "fgcont"}
           /\ tstp_cpid[tstp_cnt] = g
StoppedReachable ==
  ~torn /\ pc # "ended" => \A p \in Pid : state[p] = "stopped" => OnStack(group[p]) \/ InFg(group[p])

(* Both stacks are used within their ends, in every order of commands,     *)
(* pipelines and signals.  bg_done_flg and bg_pid: the shell takes a       *)
(* background process only while there is one, if the uninitialised flag   *)
(* did not happen to be 1.  tstp_cpid: as many signals as it has places    *)
(* are harmless, also within fg_proc(); only later ones can lead outside.  *)
StacksInBounds == /\ bg_done_flg = 1 /\ ~odd => bg_pid # <<>>
                  /\ pc = "undefined" => odd
                  /\ pc = "overrun" => signals > Places

(* When the prompt comes back after a line without &, and nobody has typed *)
(* a signal, all processes of the line have ended and are waited for, as   *)
(* long as their ids followed one another, which main() relies on.         *)
Consecutive(pids) == \A k \in 2 .. Len(pids) : pids[k] = pids[k - 1] + 1
ForegroundDone ==
  pc = "prompt" /\ calm /\ ~line.bg /\ Consecutive(job)
  => \A k \in DOMAIN job : state[job[k]] = "gone"

(* When abrt_handler() returns to main(), no process that it was to kill   *)
(* is left, also if it had not joined its group in time to be killed.      *)
InterruptReaps ==
  [][/\ victims # <<>>
     /\ victims' = <<>>
     /\ ~torn'
     => \A p \in Child' : p \notin cpid .. cpid + (IF pipe_cnt > 0 THEN pipe_cnt - 1 ELSE 0)]_vars

(* The prompt comes back, unless what the shell waits for is stopped, or   *)
(* reads a pipe the shell itself keeps open, as in a background pipeline.  *)
Upstream(p) == {p, writer[p], writer[writer[p]]} \ {0}
WaitsFor == IF victims # <<>> THEN Head(victims) ELSE IF todo # <<>> THEN Head(todo) ELSE 0
Held(p) == p \in Child /\ (state[p] \in {"stopped", "tty"} \/ p \in leaked)
PromptReturns ==
  pc \in {"towait", "waiting"} ~>
    \/ pc \in {"prompt", "undefined", "overrun"}
    \/ WaitsFor \in Pid /\ \E q \in Upstream(WaitsFor) : Held(q)
=============================================================================
