---------------------------- MODULE ShellProofs ----------------------------
(***************************************************************************)
(* The jobs of mysh, for any number of processes, signals and gaps between *)
(* process ids: types, the two stacks, the wait for a whole pipeline.      *)
(***************************************************************************)
EXTENDS Shell, TLAPS, FiniteSetTheorems, SequenceTheorems

LEMMA BoundsTyped == /\ MaxPid \in Nat /\ MaxStages \in 1 .. 3 /\ MaxSignals \in Nat
                     /\ MaxGaps \in Nat /\ Places \in Nat /\ FlagValues \subseteq {0, 1}
BY ShellAssumption

(* What TypeOK needs: a pipeline is not longer than its line, and has      *)
(* fewer processes than there are ids.                                     *)
LoopInv == /\ Len(job) <= last
           /\ pc = "fork" => Len(job) <= pipe_cnt
           /\ killed => victims # <<>>

TypeInv == TypeOK /\ LoopInv

(* The variables of TypeOK by groups: an action changes some of them.      *)
ProcOK == /\ state \in [Pid -> {"unused", "new", "runs", "stopped", "tty", "zombie", "gone"}]
          /\ group \in [Pid -> Pid0]
          /\ stage \in [Pid -> 0 .. MaxStages - 1]
          /\ writer \in [Pid0 -> Pid0]
          /\ last \in Pid0
          /\ leaked \subseteq Pid
PcOK == /\ pc \in {"prompt", "fork", "towait", "waiting", "fgstore", "fgload", "fgcont",
                   "fgwait", "ended", "undefined", "overrun"}
        /\ todo \in Seq(Pid0)
        /\ (pc \in {"towait", "waiting"}) <=> (todo # <<>>)
LineOK == /\ line \in [commands : 1 .. MaxStages, bg : BOOLEAN]
          /\ cpid \in Pid0
          /\ pipe_cnt \in 0 .. MaxStages - 1
          /\ job \in Seq(Pid)
StackOK == /\ tstp_cpid \in [0 .. Places - 1 -> Pid0]
           /\ tstp_cnt \in 0 .. Places
           /\ slot \in 0 .. Places
BgOK == bg_pid \in Seq(Pid) /\ bg_done_flg \in {0, 1}
IntOK == victims \in Seq(Nat) /\ killed \in BOOLEAN
HistOK == /\ signals \in 0 .. MaxSignals
          /\ calm \in BOOLEAN /\ torn \in BOOLEAN /\ odd \in BOOLEAN

LEMMA TypeSplit ==
  TypeOK <=> ProcOK /\ PcOK /\ LineOK /\ StackOK /\ BgOK /\ IntOK /\ HistOK
BY DEF TypeOK, ProcOK, PcOK, LineOK, StackOK, BgOK, IntOK, HistOK

LEMMA TypeJoined ==
  ProcOK' /\ PcOK' /\ LineOK' /\ StackOK' /\ BgOK' /\ IntOK' /\ HistOK' => TypeOK'
BY DEF TypeOK, ProcOK, PcOK, LineOK, StackOK, BgOK, IntOK, HistOK

LEMMA Kept ==
  /\ ProcOK /\ UNCHANGED procVars => ProcOK'
  /\ PcOK /\ UNCHANGED <<pc, todo>> => PcOK'
  /\ LineOK /\ UNCHANGED lineVars => LineOK'
  /\ StackOK /\ UNCHANGED stackVars => StackOK'
  /\ BgOK /\ UNCHANGED bgVars => BgOK'
  /\ IntOK /\ UNCHANGED intVars => IntOK'
  /\ HistOK /\ UNCHANGED histVars => HistOK'
  /\ LoopInv /\ UNCHANGED <<procVars, lineVars, pc, intVars>> => LoopInv'
BY DEF ProcOK, PcOK, LineOK, StackOK, BgOK, IntOK, HistOK, LoopInv,
       procVars, lineVars, stackVars, bgVars, intVars, histVars

LEMMA InitTyped == Init => TypeInv
<1> SUFFICES ASSUME Init PROVE TypeInv
  OBVIOUS
<1>0. 0 \in Pid0 /\ 0 \in 0 .. MaxStages - 1 /\ 0 \in 0 .. MaxSignals /\ 0 \in 0 .. Places
  BY BoundsTyped DEF Pid0
<1>1. ProcOK
  BY <1>0 DEF Init, ProcOK
<1>2. PcOK
  BY DEF Init, PcOK
<1>7. IntOK
  <2>1. victims \in Seq(Nat)
    BY DEF Init
  <2>2. killed \in BOOLEAN
    BY Zenon DEF Init
  <2> QED
    BY <2>1, <2>2 DEF IntOK
<1>6. HistOK
  BY <1>0 DEF Init, HistOK
<1>3. LineOK
  BY <1>0, BoundsTyped DEF Init, LineOK
<1>4. StackOK /\ BgOK
  BY <1>0, BoundsTyped DEF Init, StackOK, BgOK
<1>5. LoopInv
  BY DEF Init, LoopInv
<1> QED
  BY <1>1, <1>2, <1>3, <1>4, <1>5, <1>6, <1>7, TypeSplit DEF TypeInv

-----------------------------------------------------------------------------
(* Processes. *)

LEMMA SignalledTyped ==
  ASSUME ProcOK, NEW g, NEW from,
         NEW to \in {"stopped", "runs", "zombie"},
         state' = Signalled(g, from, to),
         UNCHANGED <<group, stage, writer, last, leaked>>
  PROVE  ProcOK'
BY DEF ProcOK, Signalled

LEMMA ReapTyped ==
  ASSUME ProcOK, NEW t, Reap(t), UNCHANGED <<group, stage, writer, last, leaked>>
  PROVE  ProcOK'
BY DEF ProcOK, Reap, Awaits, Child

LEMMA ProcessTyped ==
  ASSUME TypeInv, NEW p \in Pid, ProcessStep(p)
  PROVE  TypeInv'
<1>1. /\ UNCHANGED <<pc, todo>> /\ UNCHANGED stackVars /\ UNCHANGED bgVars
      /\ UNCHANGED lineVars /\ UNCHANGED intVars /\ UNCHANGED histVars
      /\ UNCHANGED <<stage, writer, last, leaked>>
  BY DEF ProcessStep, Join, End, ReadTerminal
<1>2. ProcOK'
  <2>1. CASE Join(p)
    <3>1. p - stage[p] \in Pid0 \/ UNCHANGED group
      <4>1. CASE stage[p] = 0
        BY <4>1 DEF Pid, Pid0
      <4>2. CASE \E q \in Child : group[q] = p - stage[p]
        BY <4>2 DEF TypeInv, TypeOK, Child
      <4> QED
        BY <2>1, <4>1, <4>2 DEF Join
    <3>2. group' \in [Pid -> Pid0]
      BY <2>1, <3>1 DEF TypeInv, TypeOK, Join
    <3>3. state' \in [Pid -> {"unused", "new", "runs", "stopped", "tty", "zombie", "gone"}]
      BY <2>1 DEF TypeInv, TypeOK, Join
    <3> QED
      BY <3>2, <3>3, <1>1 DEF TypeInv, TypeOK, ProcOK
  <2>2. CASE End(p) \/ ReadTerminal(p)
    BY <2>2, <1>1 DEF TypeInv, TypeOK, ProcOK, End, ReadTerminal
  <2> QED
    BY <2>1, <2>2 DEF ProcessStep
<1>3. LoopInv'
  BY <1>1 DEF TypeInv, LoopInv, lineVars, intVars
<1> QED
  BY <1>1, <1>2, <1>3, Kept, TypeSplit, TypeJoined DEF TypeInv

-----------------------------------------------------------------------------
(* A command line. *)

LEMMA EnterTyped ==
  ASSUME TypeInv, NEW n \in 1 .. MaxStages, NEW bg \in BOOLEAN, Enter(n, bg)
  PROVE  TypeInv'
<1>1. /\ UNCHANGED procVars /\ UNCHANGED stackVars /\ UNCHANGED bgVars /\ UNCHANGED intVars
      /\ UNCHANGED <<todo, cpid, signals, torn, odd>>
  BY DEF Enter
<1>2. PcOK'
  BY <1>1 DEF Enter, At, TypeInv, TypeOK, PcOK
<1>3. LineOK'
  <2>1. n - 1 \in 0 .. MaxStages - 1
    BY BoundsTyped
  <2> QED
    BY <1>1, <2>1 DEF Enter, TypeInv, TypeOK, LineOK
<1>4. HistOK'
  <2>1. calm' \in BOOLEAN
    BY Zenon DEF Enter
  <2> QED
    BY <2>1, <1>1 DEF TypeInv, TypeOK, HistOK
<1>5. LoopInv'
  BY <1>1, BoundsTyped DEF Enter, At, TypeInv, TypeOK, LoopInv, procVars, intVars, Pid0
<1> QED
  BY <1>1, <1>2, <1>3, <1>4, <1>5, Kept, TypeSplit, TypeJoined DEF TypeInv

LEMMA GapsTyped == TypeInv => Gaps \in Int
<1> SUFFICES ASSUME TypeInv PROVE Gaps \in Int
  OBVIOUS
<1>1. IsFiniteSet(Pid)
  BY BoundsTyped, FS_Interval DEF Pid
<1>2. {p \in Pid : state[p] # "unused"} \subseteq Pid
  OBVIOUS
<1>3. Cardinality({p \in Pid : state[p] # "unused"}) \in Nat
  BY <1>1, <1>2, FS_Subset, FS_CardinalityType
<1>4. last \in Int
  BY DEF TypeInv, TypeOK, Pid0
<1> QED
  BY <1>3, <1>4 DEF Gaps

(* The new process has an id above all others.                             *)
LEMMA ForkAbove ==
  ASSUME TypeInv, NEW p \in Pid, Fork(p)
  PROVE  p > last
<1>1. Gaps \in Int
  BY GapsTyped
<1>2. last \in Int /\ MaxGaps \in Int /\ p \in Int
  BY BoundsTyped DEF TypeInv, TypeOK, Pid0, Pid
<1>3. p \in last + 1 .. last + 1 + (MaxGaps - Gaps)
  BY DEF Fork
<1> QED
  BY <1>1, <1>2, <1>3

LEMMA ForkTyped ==
  ASSUME TypeInv, pc = "fork", NEW p \in Pid, Fork(p), UNCHANGED leaked
                  \/ leaked' = leaked \cup {p}
  PROVE  /\ ProcOK'
         /\ p > last
         /\ job' \in Seq(Pid)
         /\ Len(job') = Len(job) + 1
         /\ Len(job') <= last'
<1>1. p > last
  BY ForkAbove
<1>2. job \in Seq(Pid) /\ Len(job) \in Nat
  BY DEF TypeInv, TypeOK
<1>3. job' \in Seq(Pid) /\ Len(job') = Len(job) + 1
  BY <1>2 DEF Fork
<1>4. Len(job') <= last'
  BY <1>1, <1>2, <1>3, BoundsTyped DEF Fork, TypeInv, LoopInv, TypeOK, Pid0, Pid
<1>5. Len(job) \in 0 .. MaxStages - 1
  BY <1>2, BoundsTyped DEF TypeInv, TypeOK, LoopInv
<1>6. (IF job = <<>> THEN 0 ELSE Last(job)) \in Pid0
  <2>1. CASE job = <<>>
    BY <2>1, BoundsTyped DEF Pid0
  <2>2. CASE job # <<>>
    <3>1. Last(job) \in Pid
      BY <2>2, <1>2 DEF Last
    <3> QED
      BY <3>1, <2>2 DEF Pid, Pid0
  <2> QED
    BY <2>1, <2>2
<1>7. /\ state' \in [Pid -> {"unused", "new", "runs", "stopped", "tty", "zombie", "gone"}]
      /\ group' \in [Pid -> Pid0]
  BY DEF Fork, TypeInv, TypeOK
<1>8. stage' \in [Pid -> 0 .. MaxStages - 1]
  BY <1>5 DEF Fork, TypeInv, TypeOK
<1>9. writer' \in [Pid0 -> Pid0]
  BY <1>6 DEF Fork, TypeInv, TypeOK
<1>10. last' \in Pid0 /\ leaked' \subseteq Pid
  <2>1. last' \in Pid0
    BY DEF Fork, Pid, Pid0
  <2>2. leaked \subseteq Pid
    BY DEF TypeInv, TypeOK
  <2> QED
    BY <2>1, <2>2
<1> QED
  BY <1>1, <1>3, <1>4, <1>7, <1>8, <1>9, <1>10 DEF ProcOK

LEMMA WaitForTyped ==
  ASSUME NEW pids \in Seq(Pid0), WaitFor(pids)
  PROVE  PcOK' /\ pc' # "fork"
<1>1. CASE pids = <<>>
  BY <1>1 DEF WaitFor, PcOK
<1>2. CASE pids # <<>>
  <2>1. todo' = pids /\ pc' = "towait"
    BY <1>2 DEF WaitFor
  <2> QED
    BY <1>2, <2>1 DEF PcOK
<1> QED
  BY <1>1, <1>2

LEMMA GoesTyped ==
  ASSUME TypeInv, todo # <<>>, Goes
  PROVE  PcOK' /\ pc' # "fork"
<1>1. todo \in Seq(Pid0)
  BY DEF TypeInv, TypeOK
<1>2. Tail(todo) \in Seq(Pid0) /\ Len(Tail(todo)) = Len(todo) - 1
  BY <1>1
<1>3. CASE Len(todo) = 1
  BY <1>2, <1>3 DEF Goes, PcOK
<1>4. CASE Len(todo) # 1
  <2>1. todo' = Tail(todo) /\ pc' = "towait"
    BY <1>4 DEF Goes
  <2>2. Len(todo') # 0
    BY <1>1, <1>2, <1>4, <2>1
  <2> QED
    BY <1>2, <2>1, <2>2 DEF PcOK
<1> QED
  BY <1>3, <1>4

LEMMA ForkSingleTyped ==
  ASSUME TypeInv, NEW p \in Pid, ForkSingle(p)
  PROVE  TypeInv'
<1> DEFINE pushed == IF line.bg THEN Append(bg_pid, p) ELSE bg_pid
           own    == IF line.bg THEN <<>> ELSE <<p>>
<1>1. /\ UNCHANGED leaked /\ UNCHANGED stackVars /\ UNCHANGED <<line, pipe_cnt>>
      /\ UNCHANGED intVars /\ UNCHANGED histVars
      /\ pc = "fork" /\ Fork(p) /\ cpid' = p
  BY DEF ForkSingle, At
<1>2. ProcOK' /\ job' \in Seq(Pid) /\ Len(job') <= last'
  BY <1>1, ForkTyped
<1>3. LineOK'
  BY <1>1, <1>2 DEF TypeInv, TypeOK, LineOK, Pid, Pid0
<1>4. p \in Pid0
  BY DEF Pid, Pid0
<1>5. pushed \in Seq(Pid) /\ own \in Seq(Pid0)
  BY <1>4 DEF TypeInv, TypeOK
<1>6. bg_done_flg' \in {0, 1}
  BY DEF ForkSingle, FlagAfter
<1>7. bg_pid' \in Seq(Pid) /\ PcOK' /\ pc' # "fork"
  <2>1. CASE bg_done_flg = 1 /\ pushed # <<>>
    <3>1. bg_pid' = Front(pushed) /\ WaitFor(<<Last(pushed)>> \o own)
      BY <2>1 DEF ForkSingle
    <3>2. Front(pushed) \in Seq(Pid)
      BY <1>5, <2>1 DEF Front
    <3>3. Last(pushed) \in Pid0
      <4> HIDE DEF pushed
      <4>1. Last(pushed) \in Pid
        BY <1>5, <2>1 DEF Last
      <4> QED
        BY <4>1 DEF Pid, Pid0
    <3>4. <<Last(pushed)>> \o own \in Seq(Pid0)
      BY <3>3, <1>5
    <3> QED
      BY <3>1, <3>2, <3>4, WaitForTyped
  <2>2. CASE bg_done_flg = 1 /\ pushed = <<>>
    <3>1. bg_pid' = pushed /\ pc' = "undefined" /\ UNCHANGED todo
      BY <2>2 DEF ForkSingle
    <3> QED
      BY <3>1, <1>1, <1>5 DEF TypeInv, TypeOK, PcOK
  <2>3. CASE bg_done_flg # 1
    <3>1. bg_pid' = pushed /\ WaitFor(own)
      BY <2>3 DEF ForkSingle
    <3> QED
      BY <3>1, <1>5, WaitForTyped
  <2> QED
    BY <2>1, <2>2, <2>3
<1>8. LoopInv'
  BY <1>1, <1>2, <1>7 DEF TypeInv, LoopInv, intVars
<1>9. BgOK'
  BY <1>6, <1>7 DEF BgOK
<1> QED
  BY <1>1, <1>2, <1>3, <1>7, <1>8, <1>9, Kept, TypeSplit, TypeJoined DEF TypeInv

LEMMA ForkStageTyped ==
  ASSUME TypeInv, NEW p \in Pid, ForkStage(p)
  PROVE  TypeInv'
<1>1. /\ UNCHANGED stackVars /\ UNCHANGED <<line, cpid, pipe_cnt>>
      /\ UNCHANGED intVars /\ UNCHANGED <<signals, calm, torn>> /\ odd' = FALSE
      /\ pc = "fork" /\ Fork(p)
      /\ UNCHANGED leaked \/ leaked' = leaked \cup {p}
  BY DEF ForkStage, At
<1>2. /\ ProcOK' /\ p > last /\ job' \in Seq(Pid) /\ Len(job') = Len(job) + 1
      /\ Len(job') <= last'
  BY <1>1, ForkTyped
<1>3. LineOK'
  BY <1>1, <1>2 DEF TypeInv, TypeOK, LineOK
<1>4. HistOK'
  BY <1>1 DEF TypeInv, TypeOK, HistOK
<1>5. BgOK'
  <2>1. bg_pid \in Seq(Pid) /\ bg_done_flg \in {0, 1}
    BY DEF TypeInv, TypeOK
  <2>2. CASE line.bg
    BY <2>1, <2>2 DEF ForkStage, BgOK
  <2>3. CASE ~line.bg
    BY <2>1, <2>3 DEF ForkStage, BgOK
  <2> QED
    BY <2>2, <2>3
<1>6. PcOK' /\ (pc' = "fork" => Len(job) # pipe_cnt)
  <2>1. CASE Len(job) = pipe_cnt
    <3>1. /\ pipe_cnt \in Nat /\ p \in 1 .. MaxPid /\ last \in Nat /\ MaxPid \in Nat
          /\ pipe_cnt < p
      BY <2>1, <1>2, BoundsTyped DEF TypeInv, TypeOK, LoopInv, Pid, Pid0
    <3>2. \A k \in 1 .. pipe_cnt + 1 : p - pipe_cnt + k - 1 \in Pid0
      BY <3>1 DEF Pid0
    <3>3. Awaited(p) \in Seq(Pid0)
      BY <3>1, <3>2 DEF Awaited
    <3> QED
      BY <2>1, <3>3, WaitForTyped DEF ForkStage
  <2>2. CASE Len(job) # pipe_cnt
    <3>1. UNCHANGED <<pc, todo>>
      BY <2>2 DEF ForkStage
    <3> QED
      BY <3>1, <2>2 DEF TypeInv, TypeOK, PcOK
  <2> QED
    BY <2>1, <2>2
<1>7. LoopInv'
  BY <1>1, <1>2, <1>6, BoundsTyped DEF TypeInv, TypeOK, LoopInv, intVars
<1> QED
  BY <1>1, <1>2, <1>3, <1>4, <1>5, <1>6, <1>7, Kept, TypeSplit, TypeJoined DEF TypeInv

LEMMA WaitpidTyped ==
  ASSUME TypeInv, Waitpid \/ WaitpidReturns
  PROVE  TypeInv'
<1>1. /\ UNCHANGED <<group, stage, writer, last, leaked>> /\ UNCHANGED stackVars
      /\ UNCHANGED bgVars /\ UNCHANGED lineVars /\ UNCHANGED intVars /\ UNCHANGED histVars
  BY DEF Waitpid, WaitpidReturns, procVars
<1>2. ProcOK'
  <2>1. CASE Waitpid
    BY <2>1, TypeSplit DEF Waitpid, TypeInv, ProcOK, procVars
  <2>2. CASE WaitpidReturns
    BY <2>2, <1>1, TypeSplit, ReapTyped DEF WaitpidReturns, TypeInv
  <2> QED
    BY <2>1, <2>2
<1>3. PcOK' /\ pc' # "fork"
  <2>1. todo # <<>>
    BY DEF Waitpid, WaitpidReturns, At, TypeInv, TypeOK
  <2>2. CASE Waitpid
    BY <2>1, <2>2 DEF Waitpid, TypeInv, TypeOK, PcOK
  <2>3. CASE WaitpidReturns
    BY <2>1, <2>3, GoesTyped DEF WaitpidReturns
  <2> QED
    BY <2>2, <2>3
<1>4. LoopInv'
  BY <1>1, <1>3 DEF TypeInv, LoopInv, lineVars, intVars
<1> QED
  BY <1>1, <1>2, <1>3, <1>4, Kept, TypeSplit, TypeJoined DEF TypeInv

LEMMA QuitTyped ==
  ASSUME TypeInv, Quit
  PROVE  TypeInv'
<1>1. /\ UNCHANGED procVars /\ UNCHANGED <<todo, line>> /\ UNCHANGED intVars
      /\ UNCHANGED histVars
  BY DEF Quit
<1>2. 0 \in Pid0 /\ 0 \in 0 .. MaxStages - 1 /\ 0 \in 0 .. Places
  BY BoundsTyped DEF Pid0
<1>3. PcOK'
  BY <1>1 DEF Quit, At, TypeInv, TypeOK, PcOK
<1>4. LineOK' /\ StackOK' /\ BgOK'
  BY <1>1, <1>2 DEF Quit, TypeInv, TypeOK, LineOK, StackOK, BgOK
<1>5. LoopInv'
  BY <1>1 DEF Quit, TypeInv, TypeOK, LoopInv, procVars, intVars, Pid0
<1> QED
  BY <1>1, <1>3, <1>4, <1>5, Kept, TypeSplit, TypeJoined DEF TypeInv

-----------------------------------------------------------------------------
(* fg_proc() and the handlers. *)

LEMMA FgTyped ==
  ASSUME TypeInv, Fg \/ FgStore \/ FgLoad \/ FgCont \/ FgWait
  PROVE  TypeInv'
<1>1. /\ UNCHANGED bgVars /\ UNCHANGED intVars /\ UNCHANGED histVars
      /\ UNCHANGED <<group, stage, writer, last, leaked>>
  BY DEF Fg, FgStore, FgLoad, FgCont, FgWait, procVars
<1>2. /\ tstp_cnt \in 0 .. Places /\ slot \in 0 .. Places
      /\ tstp_cpid \in [0 .. Places - 1 -> Pid0] /\ todo = <<>>
      /\ \A k \in 0 .. Places : k < Places => k \in 0 .. Places - 1
  BY BoundsTyped DEF TypeInv, TypeOK, Fg, FgStore, FgLoad, FgCont, FgWait, At
<1>3. ProcOK'
  <2>1. CASE UNCHANGED procVars
    BY <2>1, Kept, TypeSplit DEF TypeInv
  <2>2. CASE FgCont /\ tstp_cnt < Places
    <3>1. state' = Signalled(tstp_cpid[tstp_cnt], {"stopped", "tty"}, "runs")
      BY <2>2, <1>2, BoundsTyped DEF FgCont
    <3> QED
      BY <3>1, <1>1, SignalledTyped, TypeSplit DEF TypeInv
  <2>3. CASE FgCont /\ tstp_cnt = Places
    BY <2>1, <2>3, <1>1, <1>2, BoundsTyped DEF FgCont, procVars
  <2> QED
    BY <2>1, <2>2, <2>3 DEF Fg, FgStore, FgLoad, FgCont, FgWait
<1>4. PcOK' /\ pc' # "fork"
  <2>1. CASE FgWait /\ tstp_cnt < Places
    <3>1. <<tstp_cpid[tstp_cnt]>> \in Seq(Pid0)
      BY <1>2, <2>1
    <3>2. WaitFor(<<tstp_cpid[tstp_cnt]>>)
      BY <1>2, <2>1, BoundsTyped DEF FgWait
    <3> QED
      BY <3>1, <3>2, WaitForTyped
  <2>2. CASE Fg \/ FgStore \/ FgLoad \/ FgCont \/ (FgWait /\ ~(tstp_cnt < Places))
    <3>1. todo' = <<>> /\ pc' \in {"fgstore", "fgload", "fgcont", "fgwait", "overrun"}
      BY <2>2, <1>2 DEF Fg, FgStore, FgLoad, FgCont, FgWait, Overrun
    <3> QED
      BY <3>1 DEF PcOK
  <2> QED
    BY <2>1, <2>2
<1>5. LineOK'
  <2>1. /\ UNCHANGED <<line, pipe_cnt>> /\ job' \in {job, <<>>}
        /\ cpid' = cpid \/ \E k \in {slot, tstp_cnt} : k < Places /\ cpid' = tstp_cpid[k]
    BY DEF Fg, FgStore, FgLoad, FgCont, FgWait, lineVars
  <2>2. LineOK
    BY TypeSplit DEF TypeInv
  <2>3. cpid' \in Pid0
    BY <2>1, <2>2, <1>2 DEF LineOK
  <2>4. job' \in Seq(Pid)
    <3>1. job \in Seq(Pid) /\ <<>> \in Seq(Pid)
      BY <2>2 DEF LineOK
    <3> QED
      BY <2>1, <3>1
  <2> QED
    BY <2>1, <2>2, <2>3, <2>4 DEF LineOK
<1>6. StackOK'
  BY <1>2, BoundsTyped DEF Fg, FgStore, FgLoad, FgCont, FgWait, StackOK, stackVars
<1>7. Len(job') <= last'
  BY <1>1 DEF Fg, FgStore, FgLoad, FgCont, FgWait, TypeInv, TypeOK, LoopInv, lineVars, Pid0
<1>8. LoopInv'
  BY <1>1, <1>4, <1>7 DEF TypeInv, LoopInv, intVars
<1> QED
  BY <1>1, <1>3, <1>4, <1>5, <1>6, <1>8, Kept, TypeSplit, TypeJoined DEF TypeInv

LEMMA InterruptedTyped ==
  ASSUME TypeInv, Interrupted
  PROVE  PcOK' /\ (pc' = "fork" => pc = "fork")
<1>1. CASE At("waiting")
  <2>1. todo # <<>> /\ Goes
    BY <1>1 DEF Interrupted, At, TypeInv, TypeOK
  <2> QED
    BY <2>1, GoesTyped
<1>2. CASE ~At("waiting")
  BY <1>2, Kept, TypeSplit DEF Interrupted, TypeInv
<1> QED
  BY <1>1, <1>2

LEMMA TypedTyped ==
  ASSUME TypeInv, NEW inside \in BOOLEAN, Typed(inside)
  PROVE  HistOK'
<1>1. HistOK
  BY TypeSplit DEF TypeInv
<1>2. signals' \in 0 .. MaxSignals
  BY <1>1, BoundsTyped DEF Typed, HistOK
<1>3. calm' \in BOOLEAN /\ torn' \in BOOLEAN /\ odd' \in BOOLEAN
  BY <1>1, Zenon DEF Typed, HistOK
<1> QED
  BY <1>2, <1>3 DEF HistOK

LEMMA CtrlCTyped ==
  ASSUME TypeInv, CtrlC
  PROVE  TypeInv'
<1>1. /\ UNCHANGED procVars /\ UNCHANGED stackVars /\ UNCHANGED bgVars
      /\ UNCHANGED lineVars /\ UNCHANGED killed /\ victims = <<>> /\ Interrupted
  BY DEF CtrlC
<1>2. PcOK' /\ (pc' = "fork" => pc = "fork")
  BY <1>1, InterruptedTyped
<1>3. HistOK'
  BY TypedTyped DEF CtrlC
<1>4. victims' \in Seq(Nat)
  <2>1. CASE cpid = 0
    BY <2>1 DEF CtrlC
  <2>2. CASE cpid # 0
    <3> DEFINE n == IF pipe_cnt > 0 THEN pipe_cnt ELSE 1
    <3>1. n \in Nat /\ cpid \in Nat
      BY BoundsTyped DEF TypeInv, TypeOK, Pid0
    <3>2. victims' = [k \in 1 .. n |-> cpid + k - 1]
      BY <2>2 DEF CtrlC
    <3>3. \A k \in 1 .. n : cpid + k - 1 \in Nat
      BY <3>1
    <3> HIDE DEF n
    <3> QED
      BY <3>1, <3>2, <3>3
  <2> QED
    BY <2>1, <2>2
<1>5. ~killed
  BY <1>1 DEF TypeInv, LoopInv
<1>6. IntOK'
  BY <1>1, <1>4, TypeSplit DEF TypeInv, IntOK
<1>7. LoopInv'
  BY <1>1, <1>2, <1>5 DEF TypeInv, LoopInv, procVars, lineVars
<1> QED
  BY <1>1, <1>2, <1>3, <1>6, <1>7, Kept, TypeSplit, TypeJoined DEF TypeInv

LEMMA KillTyped ==
  ASSUME TypeInv, Killpg \/ KillReturns
  PROVE  TypeInv'
<1>1. /\ UNCHANGED <<group, stage, writer, last, leaked>> /\ UNCHANGED <<pc, todo>>
      /\ UNCHANGED stackVars /\ UNCHANGED bgVars /\ UNCHANGED lineVars
      /\ UNCHANGED histVars /\ victims # <<>> /\ victims \in Seq(Nat)
  BY DEF Killpg, KillReturns, procVars, TypeInv, TypeOK
<1>2. ProcOK'
  <2>1. CASE Killpg
    BY <2>1, <1>1, SignalledTyped, TypeSplit DEF Killpg, TypeInv
  <2>2. CASE KillReturns
    BY <2>2, <1>1, ReapTyped, TypeSplit DEF KillReturns, KilledWait, TypeInv
  <2> QED
    BY <2>1, <2>2
<1>3. victims' \in Seq(Nat) /\ (killed' => victims' # <<>>)
  BY <1>1 DEF Killpg, KillReturns
<1>4. killed' \in BOOLEAN
  BY Zenon DEF Killpg, KillReturns
<1>5. LoopInv'
  BY <1>1, <1>3 DEF TypeInv, LoopInv, lineVars
<1>6. IntOK'
  BY <1>3, <1>4 DEF IntOK
<1> QED
  BY <1>1, <1>2, <1>5, <1>6, Kept, TypeSplit, TypeJoined DEF TypeInv

LEMMA CtrlZTyped ==
  ASSUME TypeInv, CtrlZ
  PROVE  TypeInv'
<1>1. /\ UNCHANGED <<group, stage, writer, last, leaked>> /\ UNCHANGED bgVars
      /\ UNCHANGED lineVars /\ UNCHANGED slot
      /\ Typed(victims # <<>> \/ pc \in {"fgstore", "fgload", "fgcont", "fgwait"})
  BY DEF CtrlZ
<1>2. HistOK'
  BY <1>1, TypedTyped
<1>3. ProcOK' /\ StackOK'
  <2>1. CASE UNCHANGED <<state, tstp_cpid, tstp_cnt>>
    BY <2>1, <1>1, TypeSplit DEF TypeInv, ProcOK, StackOK
  <2>2. CASE /\ tstp_cnt < Places /\ Push
             /\ state' = Signalled(cpid, {"runs", "tty"}, "stopped")
    <3>1. ProcOK'
      BY <2>2, <1>1, SignalledTyped, TypeSplit DEF TypeInv
    <3>2. StackOK'
      BY <2>2, <1>1, BoundsTyped DEF Push, TypeInv, TypeOK, StackOK
    <3> QED
      BY <3>1, <3>2
  <2> QED
    BY <2>1, <2>2 DEF CtrlZ
<1>4. /\ PcOK' /\ (pc' = "fork" => pc = "fork") /\ IntOK'
      /\ (killed' => victims' # <<>>)
  <2>1. CASE killed /\ victims' = Tail(victims) /\ killed' = FALSE /\ UNCHANGED <<pc, todo>>
    <3>1. victims' \in Seq(Nat)
      BY <2>1 DEF TypeInv, TypeOK, LoopInv
    <3>2. killed' \in BOOLEAN
      BY <2>1, Zenon
    <3> QED
      BY <2>1, <3>1, <3>2, Kept, TypeSplit DEF TypeInv, IntOK
  <2>2. CASE ~killed /\ Interrupted /\ UNCHANGED intVars
    BY <2>2, InterruptedTyped, Kept, TypeSplit DEF TypeInv, intVars
  <2>3. CASE Overrun /\ victims' = <<>> /\ killed' = FALSE
    <3>1. killed' \in BOOLEAN
      BY <2>3, Zenon
    <3> QED
      BY <2>3, <3>1 DEF Overrun, PcOK, IntOK
  <2> QED
    BY <2>1, <2>2, <2>3 DEF CtrlZ
<1>5. LoopInv'
  BY <1>1, <1>4 DEF TypeInv, LoopInv, lineVars
<1> QED
  BY <1>1, <1>2, <1>3, <1>4, <1>5, Kept, TypeSplit, TypeJoined DEF TypeInv

LEMMA StutterTyped ==
  ASSUME TypeInv, UNCHANGED vars
  PROVE  TypeInv'
<1>1. /\ UNCHANGED procVars /\ UNCHANGED <<pc, todo>> /\ UNCHANGED stackVars
      /\ UNCHANGED bgVars /\ UNCHANGED lineVars /\ UNCHANGED intVars /\ UNCHANGED histVars
  BY DEF vars
<1> QED
  BY <1>1, Kept, TypeSplit, TypeJoined DEF TypeInv, lineVars, intVars

LEMMA TypeStep == TypeInv /\ [Next]_vars => TypeInv'
<1> SUFFICES ASSUME TypeInv, [Next]_vars PROVE TypeInv'
  OBVIOUS
<1>1. CASE \E p \in Pid : ProcessStep(p)
  BY <1>1, ProcessTyped
<1>2. CASE Command
  BY <1>2, EnterTyped, FgTyped, QuitTyped DEF Command
<1>3. CASE ShellStep
  BY <1>3, ForkSingleTyped, ForkStageTyped, WaitpidTyped, FgTyped, KillTyped DEF ShellStep
<1>4. CASE CtrlC \/ CtrlZ
  BY <1>4, CtrlCTyped, CtrlZTyped
<1>5. CASE UNCHANGED vars
  BY <1>5, StutterTyped
<1> QED
  BY <1>1, <1>2, <1>3, <1>4, <1>5 DEF Next

LEMMA TypeInvariant == Spec => []TypeInv
BY InitTyped, TypeStep, PTL DEF Spec

(* Every variable keeps its type: in particular the two stacks and the     *)
(* list of processes still to wait for hold process ids only.  An access   *)
(* outside of the stacks is a step to "overrun" or "undefined"; when that  *)
(* can happen StacksInBounds says.                                         *)
THEOREM TypeCorrect == Spec => []TypeOK
BY TypeInvariant, PTL DEF TypeInv

-----------------------------------------------------------------------------
(* The ends of both stacks. *)

(* bg_done_flg and bg_pid. *)
PopInv == /\ bg_done_flg = 1 /\ ~odd => bg_pid # <<>>
          /\ pc = "undefined" => odd

(* Every place of tstp_cpid in use has taken a signal, and fg_proc() uses  *)
(* a place below those that were in use when it began.                     *)
PlacesInv == /\ tstp_cnt <= signals
             /\ pc \in {"fgstore", "fgload"} => slot < signals /\ slot < Places
             /\ pc \in {"fgload", "fgcont", "fgwait"} => tstp_cnt < signals
             /\ pc = "overrun" => signals > Places

LEMMA PopStep == TypeInv /\ PopInv /\ [Next]_vars => PopInv'
<1> SUFFICES ASSUME TypeInv, PopInv, [Next]_vars PROVE PopInv'
  OBVIOUS
<1>0. bg_pid \in Seq(Pid) /\ bg_done_flg \in {0, 1}
  BY DEF TypeInv, TypeOK
<1>1. ASSUME NEW p \in Pid, ForkSingle(p) PROVE PopInv'
  <2> DEFINE pushed == IF line.bg THEN Append(bg_pid, p) ELSE bg_pid
             own    == IF line.bg THEN <<>> ELSE <<p>>
  <2>0. UNCHANGED odd /\ bg_done_flg' = FlagAfter(line.bg)
    BY <1>1 DEF ForkSingle, histVars
  <2>1. CASE bg_done_flg = 1 /\ pushed # <<>>
    <3>1. bg_pid' = Front(pushed) /\ WaitFor(<<Last(pushed)>> \o own)
      BY <1>1, <2>1 DEF ForkSingle
    <3>2. pc' # "undefined"
      BY <3>1 DEF WaitFor
    <3>3. CASE line.bg
      <4>1. Front(Append(bg_pid, p)) = bg_pid
        BY <1>0 DEF Front
      <4> QED
        BY <2>0, <2>1, <3>1, <3>2, <3>3, <4>1 DEF PopInv
    <3>4. CASE ~line.bg
      BY <2>0, <3>2, <3>4 DEF PopInv, FlagAfter
    <3> QED
      BY <3>3, <3>4
  <2>2. CASE bg_done_flg = 1 /\ pushed = <<>>
    <3>1. ~line.bg /\ bg_pid = <<>>
      BY <1>0, <2>2
    <3> QED
      BY <2>0, <2>2, <3>1 DEF PopInv, FlagAfter
  <2>3. CASE bg_done_flg # 1
    <3>1. bg_pid' = pushed /\ WaitFor(own)
      BY <1>1, <2>3 DEF ForkSingle
    <3>2. pc' # "undefined"
      BY <3>1 DEF WaitFor
    <3> QED
      BY <1>0, <2>0, <3>1, <3>2 DEF PopInv, FlagAfter
  <2> QED
    BY <2>1, <2>2, <2>3
<1>2. ASSUME NEW p \in Pid, ForkStage(p) PROVE PopInv'
  <2>1. pc' # "undefined" /\ odd' = FALSE
    BY <1>2 DEF ForkStage, At, WaitFor
  <2> QED
    BY <1>0, <1>2, <2>1 DEF ForkStage, PopInv
<1>3. CASE Quit
  BY <1>3 DEF Quit, PopInv
<1>4. CASE \/ UNCHANGED vars
           \/ \E p \in Pid : ProcessStep(p)
           \/ \E n \in 1 .. MaxStages, bg \in BOOLEAN : Enter(n, bg)
           \/ Fg \/ Waitpid \/ WaitpidReturns
           \/ FgStore \/ FgLoad \/ FgCont \/ FgWait
           \/ Killpg \/ KillReturns \/ CtrlC \/ CtrlZ
  <2>1. UNCHANGED <<bg_pid, bg_done_flg, odd>>
    BY <1>4 DEF vars, ProcessStep, Join, End, ReadTerminal, Enter, Fg, Waitpid, WaitpidReturns,
                FgStore, FgLoad, FgCont, FgWait, Killpg, KillReturns, CtrlC, CtrlZ, Typed,
                bgVars, histVars
  <2>2. pc' = "undefined" => pc = "undefined"
    BY <1>4 DEF vars, ProcessStep, Join, End, ReadTerminal, Enter, Fg, Waitpid, WaitpidReturns,
                FgStore, FgLoad, FgCont, FgWait, Killpg, KillReturns, CtrlC, CtrlZ, WaitFor,
                Interrupted, Goes, Overrun
  <2> QED
    BY <2>1, <2>2 DEF PopInv
<1> QED
  BY <1>1, <1>2, <1>3, <1>4 DEF Next, Command, ShellStep

LEMMA PlacesStep == TypeInv /\ PlacesInv /\ [Next]_vars => PlacesInv'
<1> SUFFICES ASSUME TypeInv, PlacesInv, [Next]_vars PROVE PlacesInv'
  OBVIOUS
<1>0. tstp_cnt \in 0 .. Places /\ slot \in 0 .. Places /\ Places \in Nat /\ signals \in Nat
  BY BoundsTyped DEF TypeInv, TypeOK
<1>1. CASE Fg \/ FgStore \/ FgLoad \/ FgCont \/ FgWait
  <2>1. signals' = signals
    BY <1>1 DEF Fg, FgStore, FgLoad, FgCont, FgWait, histVars
  <2> QED
    BY <1>0, <1>1, <2>1 DEF Fg, FgStore, FgLoad, FgCont, FgWait, At, Overrun, WaitFor,
                            PlacesInv, stackVars
<1>2. CASE CtrlZ
  <2>1. signals' = signals + 1 /\ slot' = slot
    BY <1>2 DEF CtrlZ, Typed
  <2>2. CASE tstp_cnt = Places /\ Overrun /\ UNCHANGED tstp_cnt
    BY <1>0, <2>1, <2>2 DEF Overrun, PlacesInv
  <2>3. CASE tstp_cnt' \in {tstp_cnt, tstp_cnt + 1} /\ pc' \in {pc, "prompt", "towait"}
    <3>1. pc # "overrun"
      BY <1>2 DEF CtrlZ, Typed
    <3> QED
      BY <1>0, <2>1, <2>3, <3>1 DEF PlacesInv
  <2> QED
    BY <1>2, <2>2, <2>3 DEF CtrlZ, Push, Interrupted, Goes
<1>3. CASE CtrlC
  <2>1. signals' = signals + 1 /\ UNCHANGED <<slot, tstp_cnt>> /\ pc # "overrun"
        /\ pc' \in {pc, "prompt", "towait"}
    BY <1>3 DEF CtrlC, Typed, Interrupted, Goes, stackVars
  <2> QED
    BY <1>0, <2>1 DEF PlacesInv
<1>4. CASE Quit
  BY <1>0, <1>4 DEF Quit, PlacesInv, histVars
<1>5. CASE \/ UNCHANGED vars
           \/ \E p \in Pid : ProcessStep(p) \/ ForkSingle(p) \/ ForkStage(p)
           \/ \E n \in 1 .. MaxStages, bg \in BOOLEAN : Enter(n, bg)
           \/ Waitpid \/ WaitpidReturns \/ Killpg \/ KillReturns
  <2>1. /\ UNCHANGED <<slot, tstp_cnt, signals>>
        /\ pc' \in {pc, "prompt", "fork", "towait", "waiting", "undefined"}
    BY <1>5 DEF vars, ProcessStep, Join, End, ReadTerminal, ForkSingle, ForkStage, Enter,
                Waitpid, WaitpidReturns, Goes, WaitFor, Killpg, KillReturns, stackVars, histVars
  <2> QED
    BY <2>1 DEF PlacesInv
<1> QED
  BY <1>1, <1>2, <1>3, <1>4, <1>5 DEF Next, Command, ShellStep

LEMMA PlacesInvariant == Spec => []PlacesInv
<1>1. Init => PlacesInv
  BY DEF Init, PlacesInv
<1> QED
  BY <1>1, PlacesStep, TypeInvariant, PTL DEF Spec

(* Whatever commands, pipelines and signals come, the shell takes a        *)
(* process from bg_pid only if there is one, unless bg_done_flg was 1      *)
(* before it was ever assigned; and it reads and writes tstp_cpid outside  *)
(* of its places only after more signals than it has places.               *)
THEOREM StacksWithin == Spec => []StacksInBounds
<1>1. Init => PopInv
  BY DEF Init, PopInv
<1>2. PopInv /\ PlacesInv => StacksInBounds
  BY DEF PopInv, PlacesInv, StacksInBounds
<1> QED
  BY <1>1, <1>2, PopStep, PlacesInvariant, TypeInvariant, PTL DEF Spec

-----------------------------------------------------------------------------
(* The stack of stopped jobs. *)

ReachInv == /\ StoppedReachable
            /\ \A p \in Pid : state[p] = "stopped" => group[p] # 0
            /\ pc = "fgstore" /\ ~torn => slot = tstp_cnt - 1
            /\ pc \in {"fgload", "fgcont"} /\ ~torn => tstp_cnt < Places

(* Steps that stop nobody and leave the stack alone.                       *)
LEMMA StackKept ==
  ASSUME ReachInv, UNCHANGED <<tstp_cpid, tstp_cnt, torn>>,
         \A p \in Pid : state'[p] = "stopped" => state[p] = "stopped" /\ group'[p] = group[p],
         pc' # "ended" => pc # "ended",
         pc' = "fgstore" => pc = "fgstore" /\ slot' = slot,
         pc \in {"fgload", "fgcont"} <=> pc' \in {"fgload", "fgcont"}
  PROVE  ReachInv'
BY DEF ReachInv, StoppedReachable, OnStack, InFg

LEMMA ReachStep == TypeInv /\ PlacesInv /\ ReachInv /\ [Next]_vars => ReachInv'
<1> SUFFICES ASSUME TypeInv, PlacesInv, ReachInv, [Next]_vars PROVE ReachInv'
  OBVIOUS
<1>0. /\ tstp_cnt \in 0 .. Places /\ slot \in 0 .. Places /\ Places \in Nat
      /\ tstp_cpid \in [0 .. Places - 1 -> Pid0]
      /\ state \in [Pid -> {"unused", "new", "runs", "stopped", "tty", "zombie", "gone"}]
      /\ group \in [Pid -> Pid0]
  BY BoundsTyped DEF TypeInv, TypeOK
<1>1. ASSUME NEW p \in Pid, ProcessStep(p) PROVE ReachInv'
  <2>1. UNCHANGED <<tstp_cpid, tstp_cnt, torn, slot, pc>>
    BY <1>1 DEF ProcessStep, Join, End, ReadTerminal, stackVars, histVars
  <2>2. \A q \in Pid : state'[q] = "stopped" => state[q] = "stopped" /\ group'[q] = group[q]
    BY <1>0, <1>1 DEF ProcessStep, Join, End, ReadTerminal
  <2> QED
    BY <2>1, <2>2, StackKept
<1>2. ASSUME NEW p \in Pid, ForkSingle(p) \/ ForkStage(p) PROVE ReachInv'
  <2>1. /\ UNCHANGED <<tstp_cpid, tstp_cnt, torn, slot>> /\ pc = "fork"
        /\ pc' \in {"fork", "prompt", "towait", "undefined"}
    BY <1>2 DEF ForkSingle, ForkStage, At, WaitFor, stackVars, histVars
  <2>2. Fork(p)
    BY <1>2 DEF ForkSingle, ForkStage
  <2>3. \A q \in Pid : state'[q] = "stopped" => state[q] = "stopped" /\ group'[q] = group[q]
    BY <1>0, <2>2 DEF Fork
  <2> QED
    BY <2>1, <2>3, StackKept
<1>3. CASE Waitpid \/ WaitpidReturns \/ (FgLoad /\ pc' = "fgcont") \/ FgWait \/ Killpg \/ KillReturns \/ CtrlC
           \/ \E n \in 1 .. MaxStages, bg \in BOOLEAN : Enter(n, bg)
  <2>1. UNCHANGED <<tstp_cpid, tstp_cnt, torn, group>>
    <3>1. CASE CtrlC
      <4>1. UNCHANGED <<tstp_cpid, tstp_cnt, group>> /\ torn' = (torn \/ FALSE)
        BY <3>1 DEF CtrlC, Typed, stackVars, procVars
      <4>2. torn \in BOOLEAN
        BY DEF TypeInv, TypeOK
      <4>3. torn' = torn
        BY <4>1, <4>2, Zenon
      <4> QED
        BY <4>1, <4>3
    <3>2. CASE ~CtrlC
      BY <1>3, <3>2 DEF Waitpid, WaitpidReturns, FgLoad, FgWait, Killpg, KillReturns, Enter,
                        stackVars, histVars, procVars
    <3> QED
      BY <3>1, <3>2
  <2>2. /\ pc' # "ended" => pc # "ended"
        /\ pc' = "fgstore" => pc = "fgstore" /\ slot' = slot
        /\ pc \in {"fgload", "fgcont"} <=> pc' \in {"fgload", "fgcont"}
    BY <1>3 DEF Waitpid, WaitpidReturns, FgLoad, FgWait, Killpg, KillReturns, CtrlC, Enter,
                At, Typed, Goes, Interrupted, WaitFor, Overrun, stackVars
  <2>3. \A q \in Pid : state'[q] = "stopped" => state[q] = "stopped"
    BY <1>0, <1>3 DEF Waitpid, WaitpidReturns, FgLoad, FgWait, Killpg, KillReturns, KilledWait,
                      CtrlC, Enter, Signalled, Reap, Awaits, Child, procVars
  <2> QED
    BY <2>1, <2>2, <2>3, StackKept
<1>4. CASE Fg
  <2>1. /\ UNCHANGED <<tstp_cpid, tstp_cnt, torn, state, group>>
        /\ slot' = tstp_cnt - 1 /\ pc = "prompt" /\ pc' = "fgstore"
    BY <1>4 DEF Fg, At, procVars, histVars
  <2> QED
    BY <2>1 DEF ReachInv, StoppedReachable, OnStack, InFg
<1>5. CASE FgStore
  <2>1. /\ UNCHANGED <<tstp_cpid, torn, state, group>>
        /\ tstp_cnt' = slot /\ pc = "fgstore" /\ pc' = "fgload"
    BY <1>5 DEF FgStore, At, procVars, histVars
  <2>2. ASSUME ~torn, NEW p \in Pid, state[p] = "stopped"
        PROVE  OnStack(group[p])' \/ InFg(group[p])'
    <3>1. slot = tstp_cnt - 1
      BY <2>1, <2>2 DEF ReachInv
    <3>2. PICK k \in 0 .. tstp_cnt - 1 : tstp_cpid[k] = group[p]
      BY <2>1, <2>2 DEF ReachInv, StoppedReachable, OnStack, InFg
    <3>3. CASE k = slot
      BY <2>1, <3>2, <3>3 DEF InFg
    <3>4. CASE k # slot
      <4>1. k \in 0 .. slot - 1
        BY <1>0, <3>1, <3>2, <3>4
      <4> QED
        BY <2>1, <3>2, <4>1 DEF OnStack
    <3> QED
      BY <3>3, <3>4
  <2>3. tstp_cnt' < Places
    BY <2>1 DEF PlacesInv
  <2> QED
    BY <2>1, <2>2, <2>3 DEF ReachInv, StoppedReachable
<1>6. CASE FgCont /\ pc' = "fgwait"
  <2>1. /\ UNCHANGED <<tstp_cpid, tstp_cnt, torn, group>> /\ pc = "fgcont" /\ pc' = "fgwait"
        /\ state' = Signalled(tstp_cpid[tstp_cnt], {"stopped", "tty"}, "runs")
    BY <1>6 DEF FgCont, At, Overrun, stackVars, histVars
  <2>2. ASSUME NEW p \in Pid, state'[p] = "stopped"
        PROVE  state[p] = "stopped" /\ group[p] # tstp_cpid[tstp_cnt]
    BY <1>0, <2>1, <2>2 DEF Signalled, ReachInv
  <2> QED
    BY <2>1, <2>2 DEF ReachInv, StoppedReachable, OnStack, InFg
<1>7. CASE CtrlZ
  <2>1. UNCHANGED <<group, slot>> /\ pc # "ended"
    BY <1>7 DEF CtrlZ, Typed
  <2>2. pc' \in {"fgstore", "fgload", "fgcont"} => torn'
    <3>1. torn' \/ (pc \notin {"fgstore", "fgload", "fgcont"} /\ victims = <<>>)
      BY <1>7 DEF CtrlZ, Typed
    <3>2. pc' = pc \/ pc' \in {"prompt", "towait", "overrun"}
      BY <1>7 DEF CtrlZ, Interrupted, Goes, Overrun
    <3> QED
      BY <3>1, <3>2
  <2>3. CASE UNCHANGED <<state, tstp_cpid, tstp_cnt>>
    <3>1. torn' \/ (~torn /\ pc \notin {"fgload", "fgcont"})
      BY <1>7 DEF CtrlZ, Typed
    <3> QED
      BY <2>1, <2>2, <2>3, <3>1 DEF ReachInv, StoppedReachable, OnStack, InFg
  <2>4. CASE ~UNCHANGED <<state, tstp_cpid, tstp_cnt>>
    <3>1. /\ cpid # 0 /\ tstp_cnt < Places /\ tstp_cpid' = [tstp_cpid EXCEPT ![tstp_cnt] = cpid]
          /\ tstp_cnt' = tstp_cnt + 1
          /\ state' = Signalled(cpid, {"runs", "tty"}, "stopped")
      BY <1>7, <2>4 DEF CtrlZ, Push
    <3>2. torn' \/ (~torn /\ pc \notin {"fgload", "fgcont"})
      BY <1>7 DEF CtrlZ, Typed
    <3>3. ASSUME NEW p \in Pid, state'[p] = "stopped"
          PROVE  group[p] # 0 /\ (group[p] = cpid \/ state[p] = "stopped")
      BY <1>0, <2>4, <3>1, <3>3 DEF Signalled, ReachInv
    <3>4. ASSUME NEW p \in Pid, state'[p] = "stopped", ~torn'
          PROVE  OnStack(group[p])'
      <4>1. CASE group[p] = cpid
        <5>1. tstp_cnt \in 0 .. tstp_cnt' - 1 /\ tstp_cpid'[tstp_cnt] = cpid
          BY <1>0, <3>1
        <5> QED
          BY <2>1, <4>1, <5>1 DEF OnStack
      <4>2. CASE state[p] = "stopped"
        <5>1. PICK k \in 0 .. tstp_cnt - 1 : tstp_cpid[k] = group[p]
          BY <2>1, <3>2, <3>4, <4>2 DEF ReachInv, StoppedReachable, OnStack, InFg
        <5>2. k \in 0 .. tstp_cnt' - 1 /\ tstp_cpid'[k] = group[p]
          BY <1>0, <3>1, <5>1
        <5> QED
          BY <2>1, <5>2 DEF OnStack
      <4> QED
        BY <3>3, <3>4, <4>1, <4>2
    <3> QED
      BY <2>1, <2>2, <3>3, <3>4 DEF ReachInv, StoppedReachable
  <2> QED
    BY <2>3, <2>4
<1>8. CASE Quit
  BY <1>8 DEF Quit, ReachInv, StoppedReachable, procVars
<1>9. CASE UNCHANGED vars
  <2>1. UNCHANGED <<tstp_cpid, tstp_cnt, torn, slot, pc, state, group>>
    BY <1>9 DEF vars, procVars, stackVars, histVars
  <2> QED
    BY <2>1, StackKept
<1>10. CASE (FgLoad \/ FgCont) /\ pc' = "overrun"
  <2>1. torn /\ UNCHANGED <<torn, state, group>>
    BY <1>0, <1>10 DEF FgLoad, FgCont, At, Overrun, PlacesInv, ReachInv, procVars, histVars
  <2> QED
    BY <1>10, <2>1 DEF ReachInv, StoppedReachable
<1>11. /\ FgLoad => pc' \in {"fgcont", "overrun"}
       /\ FgCont => pc' \in {"fgwait", "overrun"}
  BY DEF FgLoad, FgCont, Overrun
<1> QED
  BY <1>1, <1>2, <1>3, <1>4, <1>5, <1>6, <1>7, <1>8, <1>9, <1>10, <1>11
  DEF Next, Command, ShellStep

(* A job that ^Z has stopped stays where fg finds it, for any number of    *)
(* jobs and signals, unless a ^Z hits fg or the handler of ^C half way.    *)
THEOREM StoppedStayReachable == Spec => []StoppedReachable
<1>1. Init => ReachInv
  BY DEF Init, ReachInv, StoppedReachable
<1>2. ReachInv => StoppedReachable
  BY DEF ReachInv
<1> QED
  BY <1>1, <1>2, ReachStep, PlacesInvariant, TypeInvariant, PTL DEF Spec

-----------------------------------------------------------------------------
(* The wait for a whole pipeline. *)

(* The processes of the line have the ids up to the last one, if nothing   *)
(* came between; each has ended or is one of those waited for.             *)
Covered(k) == state[job[k]] = "gone" \/ \E j \in DOMAIN todo : todo[j] = job[k]
JobInv ==
  /\ \A k \in DOMAIN job : job[k] <= last /\ state[job[k]] # "unused"
  /\ Consecutive(job) => \A k \in DOMAIN job : job[k] = last - Len(job) + k
  /\ pc \in {"fgstore", "fgload", "fgcont", "fgwait"} => job = <<>>
  /\ calm /\ ~line.bg /\ Consecutive(job) /\ pc \in {"prompt", "towait", "waiting"}
     => \A k \in DOMAIN job : Covered(k)

(* Steps of processes.                                                     *)
LEMMA JobKept ==
  ASSUME TypeInv, JobInv, UNCHANGED <<job, last, line, todo, pc>>, calm' => calm,
         \A p \in Pid : /\ state[p] = "gone" => state'[p] = "gone"
                        /\ state'[p] = "unused" => state[p] = "unused"
  PROVE  JobInv'
<1>1. \A k \in DOMAIN job : job[k] \in Pid
  BY DEF TypeInv, TypeOK
<1> QED
  BY <1>1 DEF JobInv, Covered

LEMMA ForkAppends ==
  ASSUME TypeInv, JobInv, pc = "fork", NEW p \in Pid, Fork(p)
  PROVE  /\ \A k \in DOMAIN job' : job'[k] <= last' /\ state'[job'[k]] # "unused"
         /\ Consecutive(job)' => \A k \in DOMAIN job' : job'[k] = last' - Len(job') + k
<1>0. /\ job \in Seq(Pid) /\ Len(job) \in Nat /\ last \in Nat /\ p \in Nat /\ p > last
      /\ state \in [Pid -> {"unused", "new", "runs", "stopped", "tty", "zombie", "gone"}]
  <2>1. p > last
    BY ForkAbove
  <2> QED
    BY <2>1 DEF TypeInv, TypeOK, Pid, Pid0
<1>1. /\ job' = Append(job, p) /\ last' = p /\ state' = [state EXCEPT ![p] = "new"]
      /\ Len(job') = Len(job) + 1 /\ DOMAIN job' = 1 .. Len(job) + 1
      /\ DOMAIN job = 1 .. Len(job) /\ job'[Len(job) + 1] = p
      /\ \A k \in 1 .. Len(job) : job'[k] = job[k] /\ job[k] \in Pid
  BY <1>0 DEF Fork
<1>2. \A k \in DOMAIN job' : job'[k] <= last' /\ state'[job'[k]] # "unused"
  <2> SUFFICES ASSUME NEW k \in 1 .. Len(job) + 1
               PROVE  job'[k] <= last' /\ state'[job'[k]] # "unused"
    BY <1>1
  <2>1. CASE k = Len(job) + 1
    BY <1>0, <1>1, <2>1
  <2>2. CASE k # Len(job) + 1
    <3>1. k \in 1 .. Len(job)
      BY <1>0, <2>2
    <3>2. job[k] <= last /\ state[job[k]] # "unused" /\ job[k] \in Nat
      BY <1>1, <3>1 DEF JobInv, Pid
    <3> QED
      BY <1>0, <1>1, <3>1, <3>2
  <2> QED
    BY <2>1, <2>2
<1>3. ASSUME Consecutive(job)', NEW k \in DOMAIN job'
      PROVE  job'[k] = last' - Len(job') + k
  <2>1. \A i \in 2 .. Len(job) + 1 : job'[i] = job'[i - 1] + 1
    BY <1>1, <1>3 DEF Consecutive
  <2>2. Consecutive(job)
    <3> SUFFICES ASSUME NEW i \in 2 .. Len(job) PROVE job[i] = job[i - 1] + 1
      BY DEF Consecutive
    <3>1. i \in 2 .. Len(job) + 1 /\ i \in 1 .. Len(job) /\ i - 1 \in 1 .. Len(job)
      BY <1>0
    <3> QED
      BY <1>1, <2>1, <3>1
  <2>3. CASE Len(job) = 0
    BY <1>0, <1>1, <1>3, <2>3
  <2>4. CASE Len(job) # 0
    <3>1. Len(job) \in 1 .. Len(job) /\ Len(job) + 1 \in 2 .. Len(job) + 1
      BY <1>0, <2>4
    <3>2. job[Len(job)] = last
      BY <1>0, <1>1, <2>2, <3>1 DEF JobInv
    <3>3. p = last + 1
      BY <1>0, <1>1, <2>1, <3>1, <3>2
    <3>4. CASE k = Len(job) + 1
      BY <1>0, <1>1, <3>4
    <3>5. CASE k # Len(job) + 1
      <4>1. k \in 1 .. Len(job)
        BY <1>0, <1>1, <1>3, <3>5
      <4>2. job[k] = last - Len(job) + k
        BY <1>1, <2>2, <4>1 DEF JobInv
      <4> QED
        BY <1>0, <1>1, <3>3, <4>1, <4>2
    <3> QED
      BY <3>4, <3>5
  <2> QED
    BY <2>3, <2>4
<1> QED
  BY <1>2, <1>3

LEMMA JobForkSingle ==
  ASSUME TypeInv, JobInv, NEW p \in Pid, ForkSingle(p)
  PROVE  JobInv'
<1> DEFINE pushed == IF line.bg THEN Append(bg_pid, p) ELSE bg_pid
           own    == IF line.bg THEN <<>> ELSE <<p>>
<1>1. pc = "fork" /\ Fork(p) /\ UNCHANGED line /\ job \in Seq(Pid) /\ Len(job) = 0
  BY DEF ForkSingle, At, TypeInv, TypeOK, LoopInv
<1>2. job' = <<p>>
  BY <1>1 DEF Fork
<1>3. ~line.bg /\ pc' # "undefined" => \E j \in DOMAIN todo' : todo'[j] = p
  <2> SUFFICES ASSUME ~line.bg, pc' # "undefined"
               PROVE  \E j \in DOMAIN todo' : todo'[j] = p
    OBVIOUS
  <2>1. CASE bg_done_flg = 1
    <3>1. todo' = <<Last(pushed)>> \o <<p>>
      BY <2>1 DEF ForkSingle, WaitFor
    <3>2. 2 \in DOMAIN todo' /\ todo'[2] = p
      BY <3>1
    <3> QED
      BY <3>2
  <2>2. CASE bg_done_flg # 1
    <3>1. todo' = <<p>>
      BY <2>2 DEF ForkSingle, WaitFor
    <3>2. 1 \in DOMAIN todo' /\ todo'[1] = p
      BY <3>1
    <3> QED
      BY <3>2
  <2> QED
    BY <2>1, <2>2
<1>4. pc' \in {"prompt", "towait", "undefined"}
  BY DEF ForkSingle, WaitFor
<1>5. \A k \in DOMAIN job' : job'[k] = p
  BY <1>2
<1> QED
  BY <1>1, <1>3, <1>4, <1>5, ForkAppends DEF JobInv, Covered

LEMMA JobForkStage ==
  ASSUME TypeInv, JobInv, NEW p \in Pid, ForkStage(p)
  PROVE  JobInv'
<1>1. pc = "fork" /\ Fork(p) /\ UNCHANGED <<line, pipe_cnt>> /\ job \in Seq(Pid)
  BY DEF ForkStage, At, TypeInv, TypeOK
<1>2. CASE Len(job) = pipe_cnt
  <2>1. todo' = Awaited(p) /\ pc' \in {"prompt", "towait"}
    BY <1>2 DEF ForkStage, WaitFor
  <2>2. ASSUME Consecutive(job)', NEW k \in DOMAIN job'
        PROVE  k \in DOMAIN todo' /\ todo'[k] = job'[k]
    <3>1. /\ Len(job') = pipe_cnt + 1 /\ DOMAIN job' = 1 .. pipe_cnt + 1
          /\ last' = p /\ pipe_cnt \in Nat /\ p \in Nat
      BY <1>1, <1>2 DEF Fork, Pid
    <3>2. job'[k] = last' - Len(job') + k
      BY <1>1, <2>2, ForkAppends
    <3> QED
      BY <2>1, <2>2, <3>1, <3>2 DEF Awaited
  <2> QED
    BY <1>1, <2>1, <2>2, ForkAppends DEF JobInv, Covered
<1>3. CASE Len(job) # pipe_cnt
  <2>1. pc' = "fork"
    BY <1>1, <1>3 DEF ForkStage
  <2> QED
    BY <1>1, <2>1, ForkAppends DEF JobInv
<1> QED
  BY <1>2, <1>3

LEMMA JobWaitpidReturns ==
  ASSUME TypeInv, JobInv, WaitpidReturns
  PROVE  JobInv'
<1>1. /\ UNCHANGED <<job, last, line, calm>> /\ pc = "waiting" /\ Reap(Head(todo))
      /\ todo' = Tail(todo) /\ pc' \in {"prompt", "towait"}
  BY DEF WaitpidReturns, At, Goes, lineVars, histVars
<1>2. /\ todo \in Seq(Pid0) /\ todo # <<>> /\ Len(todo) \in Nat /\ job \in Seq(Pid)
      /\ state \in [Pid -> {"unused", "new", "runs", "stopped", "tty", "zombie", "gone"}]
  BY <1>1 DEF TypeInv, TypeOK
<1>3. \A q \in Pid : /\ state[q] = "gone" => state'[q] = "gone"
                     /\ state'[q] = "unused" => state[q] = "unused"
  BY <1>1, <1>2 DEF Reap
<1>4. ASSUME NEW q \in Pid, q = Head(todo), state[q] # "unused"
      PROVE  state'[q] = "gone"
  <2>1. Awaits(Head(todo)) = {q} \cap Child
    BY <1>4 DEF Awaits, Pid
  <2>2. CASE q \in Child
    BY <1>1, <1>2, <2>1, <2>2 DEF Reap
  <2>3. CASE q \notin Child
    <3>1. Awaits(Head(todo)) = {} /\ state[q] = "gone"
      BY <1>4, <2>1, <2>3 DEF Child
    <3> QED
      BY <1>1, <3>1 DEF Reap
  <2> QED
    BY <2>2, <2>3
<1>5. ASSUME NEW k \in DOMAIN job, Covered(k), state[job[k]] # "unused"
      PROVE  Covered(k)'
  <2>1. job[k] \in Pid
    BY <1>2, <1>5
  <2>2. CASE state[job[k]] = "gone"
    BY <1>1, <1>3, <2>1, <2>2 DEF Covered
  <2>3. ASSUME NEW j \in DOMAIN todo, todo[j] = job[k] PROVE Covered(k)'
    <3>1. CASE j = 1
      <4>1. state'[job[k]] = "gone"
        BY <1>2, <1>4, <1>5, <2>1, <2>3, <3>1
      <4> QED
        BY <1>1, <4>1 DEF Covered
    <3>2. CASE j # 1
      <4>1. j - 1 \in DOMAIN todo' /\ todo'[j - 1] = job[k]
        BY <1>1, <1>2, <2>3, <3>2
      <4> QED
        BY <1>1, <4>1 DEF Covered
    <3> QED
      BY <3>1, <3>2
  <2> QED
    BY <1>5, <2>2, <2>3 DEF Covered
<1>6. \A k \in DOMAIN job : job[k] \in Pid
  BY <1>2
<1> QED
  BY <1>1, <1>3, <1>5, <1>6 DEF JobInv

LEMMA JobStep == TypeInv /\ JobInv /\ [Next]_vars => JobInv'
<1> SUFFICES ASSUME TypeInv, JobInv, [Next]_vars PROVE JobInv'
  OBVIOUS
<1>0. state \in [Pid -> {"unused", "new", "runs", "stopped", "tty", "zombie", "gone"}]
  BY DEF TypeInv, TypeOK
<1>1. CASE \/ UNCHANGED vars
           \/ \E p \in Pid : ProcessStep(p)
           \/ Killpg \/ KillReturns
  <2>1. UNCHANGED <<job, last, line, todo, pc, calm>>
    BY <1>1 DEF vars, ProcessStep, Join, End, ReadTerminal, Killpg, KillReturns,
                procVars, lineVars, histVars
  <2>2. \A p \in Pid : /\ state[p] = "gone" => state'[p] = "gone"
                       /\ state'[p] = "unused" => state[p] = "unused"
    BY <1>0, <1>1 DEF vars, ProcessStep, Join, End, ReadTerminal, Killpg, KillReturns,
                      KilledWait, Signalled, Reap, Awaits, Child, procVars
  <2> QED
    BY <2>1, <2>2, JobKept
<1>2. CASE CtrlC \/ CtrlZ
  <2>1. UNCHANGED <<job, last, line>> /\ calm' = FALSE
    BY <1>2 DEF CtrlC, CtrlZ, Typed, procVars, lineVars
  <2>2. \A p \in Pid : state'[p] = "unused" => state[p] = "unused"
    BY <1>0, <1>2 DEF CtrlC, CtrlZ, Signalled, procVars
  <2>3. \A k \in DOMAIN job : job[k] \in Pid
    BY DEF TypeInv, TypeOK
  <2>4. pc' = pc \/ pc' \in {"prompt", "towait", "overrun"}
    BY <1>2 DEF CtrlC, CtrlZ, Interrupted, Goes, Overrun
  <2> QED
    BY <2>1, <2>2, <2>3, <2>4 DEF JobInv
<1>3. CASE Fg \/ Quit \/ \E n \in 1 .. MaxStages, bg \in BOOLEAN : Enter(n, bg)
  <2>1. job' = <<>>
    BY <1>3 DEF Fg, Quit, Enter
  <2> QED
    BY <2>1 DEF JobInv
<1>4. CASE FgStore \/ FgLoad \/ FgCont \/ FgWait
  <2>1. job' = <<>>
    BY <1>4 DEF FgStore, FgLoad, FgCont, FgWait, At, JobInv, lineVars
  <2> QED
    BY <2>1 DEF JobInv
<1>5. CASE Waitpid
  <2>1. UNCHANGED <<job, last, line, todo, calm, state>> /\ pc = "towait" /\ pc' = "waiting"
    BY <1>5 DEF Waitpid, At, procVars, lineVars, histVars
  <2> QED
    BY <2>1 DEF JobInv, Covered
<1> QED
  BY <1>1, <1>2, <1>3, <1>4, <1>5, JobForkSingle, JobForkStage, JobWaitpidReturns
  DEF Next, Command, ShellStep

(* The prompt after a command or a pipeline in the foreground means that   *)
(* all its processes are waited for, however long it is and whatever the   *)
(* shell waits for before them, if their ids are consecutive.              *)
THEOREM ForegroundWaited == Spec => []ForegroundDone
<1>1. Init => JobInv
  BY DEF Init, JobInv
<1>2. TypeInv /\ JobInv => ForegroundDone
  <2> SUFFICES ASSUME TypeInv, JobInv PROVE ForegroundDone
    OBVIOUS
  <2>1. pc = "prompt" => todo = <<>>
    BY DEF TypeInv, TypeOK
  <2> QED
    BY <2>1 DEF JobInv, Covered, ForegroundDone
<1> QED
  BY <1>1, <1>2, JobStep, TypeInvariant, PTL DEF Spec

-----------------------------------------------------------------------------
(* abrt_handler(). *)

(* The ids it goes through; the last ones are left, none before them is a  *)
(* child any more.  main() does not move meanwhile.                        *)
Count == IF pipe_cnt > 0 THEN pipe_cnt ELSE 1
Left == Count - Len(victims)
KillInv ==
  victims # <<>> /\ ~torn
  => /\ cpid # 0
     /\ Len(victims) <= Count
     /\ \A j \in DOMAIN victims : victims[j] = cpid + Left + j - 1
     /\ \A p \in Child : p \notin cpid .. cpid + Left - 1

LEMMA CountTyped == TypeInv => Count \in Nat \ {0} /\ cpid \in Nat /\ victims \in Seq(Nat)
BY BoundsTyped DEF TypeInv, TypeOK, Count, Pid0

LEMMA KillReturnsStep ==
  ASSUME TypeInv, KillInv, KillReturns, ~torn
  PROVE  /\ KillInv'
         /\ \A p \in Child' : p \notin cpid .. cpid + Left'  - 1
<1>0. /\ UNCHANGED <<cpid, pipe_cnt, torn>> /\ victims # <<>> /\ victims' = Tail(victims)
      /\ Reap(Head(victims))
  BY DEF KillReturns, KilledWait, lineVars, histVars
<1>1. /\ victims \in Seq(Nat) /\ Len(victims) \in Nat /\ Len(victims) # 0
      /\ Count \in Nat \ {0} /\ cpid \in Nat /\ Count' = Count
  BY <1>0, CountTyped DEF Count
<1>2. /\ Left' = Left + 1 /\ Left \in Nat /\ Len(victims') = Len(victims) - 1
      /\ cpid # 0 /\ Len(victims) <= Count
      /\ \A j \in DOMAIN victims' : j + 1 \in DOMAIN victims /\ victims'[j] = victims[j + 1]
  BY <1>0, <1>1 DEF Left, KillInv
<1>3. \A j \in DOMAIN victims' : victims'[j] = cpid + Left' + j - 1
  <2> SUFFICES ASSUME NEW j \in DOMAIN victims' PROVE victims'[j] = cpid + Left' + j - 1
    OBVIOUS
  <2>1. victims[j + 1] = cpid + Left + (j + 1) - 1 /\ j \in Nat
    BY <1>0, <1>1, <1>2 DEF KillInv
  <2> QED
    BY <1>1, <1>2, <2>1
<1>4. Head(victims) = cpid + Left
  BY <1>0, <1>1, <1>2 DEF KillInv
<1>5. Child' \subseteq Child
  BY <1>0 DEF Reap, Child, Awaits, TypeInv, TypeOK
<1>6. Head(victims) \notin Child'
  <2> DEFINE h == Head(victims)
  <2>1. Awaits(h) = {h} \cap Child
    BY <1>1, <1>2, <1>4 DEF Awaits
  <2>2. CASE h \in Child
    <3>1. state' = [state EXCEPT ![h] = "gone"] /\ h \in Pid
      BY <1>0, <2>1, <2>2 DEF Reap, Child
    <3> QED
      BY <3>1 DEF Child, TypeInv, TypeOK
  <2>3. CASE h \notin Child
    BY <1>5, <2>3
  <2> QED
    BY <2>2, <2>3
<1>7. \A p \in Child' : p \notin cpid .. cpid + Left' - 1
  <2> SUFFICES ASSUME NEW p \in Child', p \in cpid .. cpid + Left' - 1 PROVE FALSE
    OBVIOUS
  <2>1. p \in cpid .. cpid + Left - 1 \/ p = cpid + Left
    BY <1>1, <1>2
  <2> QED
    BY <1>0, <1>4, <1>5, <1>6, <2>1 DEF KillInv
<1>8. KillInv'
  BY <1>0, <1>1, <1>2, <1>3, <1>7 DEF KillInv
<1> QED
  BY <1>0, <1>7, <1>8

LEMMA KillStep == TypeInv /\ KillInv /\ [Next]_vars => KillInv'
<1> SUFFICES ASSUME TypeInv, KillInv, [Next]_vars PROVE KillInv'
  OBVIOUS
<1>1. CASE \/ UNCHANGED vars
           \/ \E p \in Pid : ProcessStep(p)
           \/ Killpg
  <2>1. UNCHANGED <<victims, torn, cpid, pipe_cnt>>
    BY <1>1 DEF vars, ProcessStep, Join, End, ReadTerminal, Killpg, intVars, lineVars, histVars
  <2>2. Child' = Child
    BY <1>1 DEF vars, procVars, ProcessStep, Join, End, ReadTerminal, Killpg, Signalled, Child,
                TypeInv, TypeOK
  <2> QED
    BY <2>1, <2>2 DEF KillInv, Left, Count
<1>2. CASE KillReturns
  <2>1. UNCHANGED torn
    BY <1>2 DEF KillReturns, histVars
  <2> QED
    BY <1>2, <2>1, KillReturnsStep DEF KillInv
<1>3. CASE CtrlC
  <2>1. UNCHANGED <<cpid, pipe_cnt, state>>
    BY <1>3 DEF CtrlC, lineVars, procVars
  <2>2. victims' # <<>> => cpid # 0 /\ victims' = [k \in 1 .. Count |-> cpid + k - 1]
    BY <1>3 DEF CtrlC, Count
  <2>3. Count \in Nat /\ cpid \in Nat
    BY CountTyped
  <2>4. victims' # <<>> => Len(victims') = Count /\ DOMAIN victims' = 1 .. Count
    BY <2>2, <2>3
  <2> QED
    BY <2>1, <2>2, <2>3, <2>4 DEF KillInv, Left, Count
<1>4. CASE CtrlZ
  <2>1. CASE victims # <<>>
    <3>1. torn'
      BY <1>4, <2>1 DEF CtrlZ, Typed
    <3> QED
      BY <3>1 DEF KillInv
  <2>2. CASE victims = <<>>
    <3>1. victims' = <<>>
      BY <1>4, <2>2 DEF CtrlZ, intVars, TypeInv, LoopInv
    <3> QED
      BY <3>1 DEF KillInv
  <2> QED
    BY <2>1, <2>2
<1>5. CASE \/ \E n \in 1 .. MaxStages, bg \in BOOLEAN : Enter(n, bg)
           \/ \E p \in Pid : ForkSingle(p) \/ ForkStage(p)
           \/ Fg \/ Quit \/ Waitpid \/ WaitpidReturns \/ FgStore \/ FgLoad \/ FgCont \/ FgWait
  <2>1. victims' = <<>>
    BY <1>5 DEF Enter, ForkSingle, ForkStage, Fg, Quit, Waitpid, WaitpidReturns,
                FgStore, FgLoad, FgCont, FgWait, At, intVars
  <2> QED
    BY <2>1 DEF KillInv
<1> QED
  BY <1>1, <1>2, <1>3, <1>4, <1>5 DEF Next, Command, ShellStep

LEMMA InterruptStep ==
  ASSUME TypeInv, KillInv, [Next]_vars, victims # <<>>, victims' = <<>>, ~torn'
  PROVE  \A p \in Child' : p \notin cpid .. cpid + (IF pipe_cnt > 0 THEN pipe_cnt - 1 ELSE 0)
<1>1. KillReturns
  <2>1. ~Command /\ ~CtrlC
    BY DEF Command, Enter, Fg, Quit, At, CtrlC
  <2>2. CASE UNCHANGED vars \/ (\E p \in Pid : ProcessStep(p))
    BY <2>2 DEF vars, ProcessStep, Join, End, ReadTerminal, intVars
  <2>3. CASE ShellStep
    BY <2>3 DEF ShellStep, ForkSingle, ForkStage, Waitpid, WaitpidReturns,
                FgStore, FgLoad, FgCont, FgWait, At, Killpg
  <2>4. CASE CtrlZ
    BY <2>4 DEF CtrlZ, Typed
  <2> QED
    BY <2>1, <2>2, <2>3, <2>4 DEF Next
<1>2. ~torn /\ UNCHANGED pipe_cnt
  BY <1>1 DEF KillReturns, histVars, lineVars
<1>3. Left' = Count
  <2>1. Len(victims') = 0 /\ Count' = Count /\ Count \in Nat
    BY <1>2, CountTyped DEF Count
  <2> QED
    BY <2>1 DEF Left
<1>4. \A p \in Child' : p \notin cpid .. cpid + Count - 1
  BY <1>1, <1>2, <1>3, KillReturnsStep
<1>5. Count - 1 = IF pipe_cnt > 0 THEN pipe_cnt - 1 ELSE 0
  BY CountTyped DEF Count
<1>6. cpid + Count - 1 = cpid + (IF pipe_cnt > 0 THEN pipe_cnt - 1 ELSE 0)
  BY <1>5, CountTyped
<1> QED
  BY <1>4, <1>6

(* After ^C no process of the command is left, for pipelines of any        *)
(* length, also when a process joins its group only after the signal, if   *)
(* no ^Z comes during the handler.                                         *)
THEOREM InterruptLeavesNone == Spec => InterruptReaps
<1>1. Init => KillInv
  BY DEF Init, KillInv
<1>2. TypeInv /\ KillInv /\ [Next]_vars
      => [/\ victims # <<>>
          /\ victims' = <<>>
          /\ ~torn'
          => \A p \in Child' : p \notin cpid .. cpid + (IF pipe_cnt > 0 THEN pipe_cnt - 1 ELSE 0)]_vars
  BY InterruptStep
<1> QED
  BY <1>1, <1>2, KillStep, TypeInvariant, PTL DEF Spec, InterruptReaps
=============================================================================
