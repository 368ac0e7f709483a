---------------------------- MODULE KernelTimes ----------------------------
(***************************************************************************)
(* How long a kernel computes: the tables of kernel_time_parser.hpp, the   *)
(* minima of time.hpp and the choice sleeper() makes between them          *)
(* (models/sleep.hpp). Times are whole milliseconds.                       *)
(***************************************************************************)
EXTENDS Integers, Sequences, FiniteSetsExt

memAllocNames == {"dplgsy", "dplrnt"}
kernelsWithS  == {"dgeqrt", "dormqr", "dtsqrt", "dtsmqr"}

(* mainKernels: filled only when SOMP_TRACETIME is 0, by architecture.     *)
mainKernels(TRACETIME, ARCH) ==
  IF TRACETIME # 0 THEN {}
  ELSE CASE ARCH \in {"amdpowersave", "intelpowersave"} ->
              kernelsWithS \cup {"dpotrf", "dtrsm", "dsyrk", "dgemm"}
         [] ARCH \in {"amdpowersavelu", "intelpowersavelu"} ->
              {"dgemm", "dswptr", "dlaswp", "dgetrf"}
         [] OTHER -> {}

(* nthTimeMap: the lines of a kernel's file give the time for a number of  *)
(* active cores, the last one if several do.                               *)
NthTime(lines) ==
  [nth \in {lines[i].nth : i \in DOMAIN lines} |->
     lines[Max({i \in DOMAIN lines : lines[i].nth = nth})].ktime]

(* kernelLeastTime: the shortest time of the trace for each kernel name. *)
FirstTime(tasks) ==                     \* mutant: the first time found
  [kernel \in {tasks[i].name : i \in DOMAIN tasks} |->
     tasks[Min({i \in DOMAIN tasks : tasks[i].name = kernel})].time]

LeastTime(tasks) ==
  [kernel \in {tasks[i].name : i \in DOMAIN tasks} |->
     Min({tasks[i].time : i \in {j \in DOMAIN tasks : tasks[j].name = kernel}})]

FullSocket(cpu, nMachines, CPS) == CPS  \* mutant: no socket is partly used

(* The line of the table that is read: on the socket of the last worker,   *)
(* the number of workers of that socket.                                   *)
Target(cpu, nMachines, CPS) ==
  IF cpu \div CPS = nMachines \div CPS THEN ((nMachines - 1) % CPS) + 1 ELSE CPS

(* The times sleeper() may start from: none if the table has no such line, *)
(* or CPS is 0, when the program divides by zero or follows end().         *)
SleepTime(name, tasks, lines, machine, setting) ==
  CASE name \in memAllocNames -> {0}
    [] name \notin memAllocNames
         /\ name \in mainKernels(setting.TRACETIME, setting.ARCH) ->
         {NthTime(lines)[t] : t \in DOMAIN NthTime(lines) \cap
            IF machine.CPS = 0 THEN {}
            ELSE {Target(machine.cpuNumber, machine.nMachines, machine.CPS)}}
    [] OTHER -> {LeastTime(tasks)[name]}
=============================================================================
