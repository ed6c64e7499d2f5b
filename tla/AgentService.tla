----------------------------- MODULE AgentService -----------------------------
(***************************************************************************)
(* The resident agent (packages/dp-cli/src/agent.rs): `agent` stays in the *)
(* terminal, `agent --keep` starts a background process, and agent.pid in  *)
(* the state directory names the agent that runs.                          *)
(*                                                                         *)
(* Process ids are reused: a dead one may be taken by another launcher, an *)
(* agent, or a process of another program.  fs::write first creates or     *)
(* truncates a file and then writes to it, whatever happened to its name   *)
(* in between.                                                             *)
(***************************************************************************)
CONSTANT Pid

VARIABLES
  proc,     \* what each process id stands for, and how far it has come
  watched,  \* the pid a launcher read from agent.pid, then its child's
  pidFile,  \* what agent.pid holds
  writers   \* the processes that have the present agent.pid open

vars == <<proc, watched, pidFile, writers>>

NoPid == {"absent", "empty", "garbled"}

ASSUME PidsAreNotText == Pid \cap NoPid = {}

Launcher == {"keep", "exists", "clear", "spawn", "keep_write", "keep_fill"}

(* A launcher that is refused is about to leave, too. *)
Agent == {"boot", "write", "fill", "listen", "resident", "remove", "leave"}

Init ==
  /\ proc \in [Pid -> {"none", "foreign"}]
  /\ watched = [p \in Pid |-> p]
  /\ pidFile \in NoPid \cup Pid
  /\ writers = {}

-----------------------------------------------------------------------------
(* Processes *)

Goto(p, l) == proc' = [proc EXCEPT ![p] = l]

ChildOf(p, l) == proc[l] \in {"keep_write", "keep_fill"} /\ watched[l] = p

(* A process ends.  Its pid is not free while its parent lives. *)
Ended(p) ==
  [q \in Pid |->
     IF q = p THEN IF \E l \in Pid : ChildOf(p, l) THEN "zombie" ELSE "none"
     ELSE IF proc[q] = "zombie" /\ ChildOf(q, p) THEN "none" ELSE proc[q]]

(* Crash, kill -9, an error, the terminal closing, a signal before anybody *)
(* listens for it, or just the end.                                        *)
Die(p) ==
  /\ proc[p] \in Launcher \cup Agent
  /\ proc' = Ended(p)
  /\ writers' = writers \ {p}
  /\ UNCHANGED <<watched, pidFile>>

ForeignStart(p) == proc[p] = "none" /\ Goto(p, "foreign") /\ UNCHANGED <<watched, pidFile, writers>>

ForeignEnd(p) == proc[p] = "foreign" /\ Goto(p, "none") /\ UNCHANGED <<watched, pidFile, writers>>

-----------------------------------------------------------------------------
(* agent.pid *)

CreatePidFile(p) ==
  /\ pidFile' = "empty"
  /\ writers' = IF pidFile = "absent" THEN {p} ELSE writers \cup {p}

(* Two that truncated before either wrote write over each other. *)
FillPidFile(p, pid) ==
  /\ pidFile' \in IF p \notin writers THEN {pidFile}
                  ELSE IF pidFile \in {"empty", pid} THEN {pid}
                  ELSE {pid, "garbled"}
  /\ writers' = writers \ {p}

RemovePidFile == pidFile' = "absent" /\ writers' = {}

-----------------------------------------------------------------------------
(* agent --keep *)

Keep(p) == proc[p] = "none" /\ Goto(p, "keep") /\ UNCHANGED <<watched, pidFile, writers>>

(* Broken: a file that is there is taken for a running agent's. *)
ReadPidFileAnyText(p) ==
  /\ proc[p] = "keep"
  /\ IF pidFile \in Pid
       THEN Goto(p, "exists") /\ watched' = [watched EXCEPT ![p] = pidFile]
       ELSE IF pidFile = "absent" THEN Goto(p, "spawn") /\ UNCHANGED watched
       ELSE Goto(p, "leave") /\ UNCHANGED watched
  /\ UNCHANGED <<pidFile, writers>>

(* Broken: the text is not parsed. *)
ReadPidFileUnparsed(p) ==
  /\ proc[p] = "keep"
  /\ IF pidFile # "absent"
       THEN Goto(p, "exists") /\ watched' = [watched EXCEPT ![p] = pidFile]
       ELSE Goto(p, "spawn") /\ UNCHANGED watched
  /\ UNCHANGED <<pidFile, writers>>

ReadPidFile(p) ==
  /\ proc[p] = "keep"
  /\ IF pidFile \in Pid
       THEN Goto(p, "exists") /\ watched' = [watched EXCEPT ![p] = pidFile]
       ELSE Goto(p, "spawn") /\ UNCHANGED watched
  /\ UNCHANGED <<pidFile, writers>>

(* Broken: whoever has the pid, the file counts as left over. *)
ProcessExistsIgnored(p) ==
  /\ proc[p] = "exists"
  /\ Goto(p, "clear")
  /\ UNCHANGED <<watched, pidFile, writers>>

(* "Already running", if any process has the pid of agent.pid. *)
ProcessExists(p) ==
  /\ proc[p] = "exists"
  /\ IF proc[watched[p]] # "none" THEN Goto(p, "leave") ELSE Goto(p, "clear")
  /\ UNCHANGED <<watched, pidFile, writers>>

Clear(p) == proc[p] = "clear" /\ Goto(p, "spawn") /\ RemovePidFile /\ UNCHANGED watched

Spawn(p) ==
  /\ proc[p] = "spawn"
  /\ \E c \in Pid :
       /\ proc[c] = "none"
       /\ proc' = [proc EXCEPT ![p] = "keep_write", ![c] = "boot"]
       /\ watched' = [watched EXCEPT ![p] = c]
  /\ UNCHANGED <<pidFile, writers>>

KeepWrite(p) ==
  /\ proc[p] = "keep_write" /\ Goto(p, "keep_fill") /\ CreatePidFile(p)
  /\ UNCHANGED watched

(* Broken: the launcher writes its own pid. *)
KeepFillOwn(p) ==
  /\ proc[p] = "keep_fill" /\ proc' = Ended(p) /\ FillPidFile(p, p)
  /\ UNCHANGED watched

(* The launcher writes its child's pid, and is done. *)
KeepFill(p) ==
  /\ proc[p] = "keep_fill" /\ proc' = Ended(p) /\ FillPidFile(p, watched[p])
  /\ UNCHANGED watched

Daemonize(p) ==
  \/ ReadPidFile(p) \/ ProcessExists(p) \/ Clear(p) \/ Spawn(p)
  \/ KeepWrite(p) \/ KeepFill(p)

-----------------------------------------------------------------------------
(* The agent, in the terminal or in the background *)

Stay(p) == proc[p] = "none" /\ Goto(p, "boot") /\ UNCHANGED <<watched, pidFile, writers>>

Probe(p) == proc[p] = "boot" /\ Goto(p, "write") /\ UNCHANGED <<watched, pidFile, writers>>

WritePidFile(p) ==
  \/ proc[p] = "write" /\ Goto(p, "fill") /\ CreatePidFile(p) /\ UNCHANGED watched
  \/ proc[p] = "fill" /\ Goto(p, "listen") /\ FillPidFile(p, p) /\ UNCHANGED watched

Listen(p) == proc[p] = "listen" /\ Goto(p, "resident") /\ UNCHANGED <<watched, pidFile, writers>>

(* ctrl-c, or kill $(cat agent.pid). *)
Stop(p) == proc[p] = "resident" /\ Goto(p, "remove") /\ UNCHANGED <<watched, pidFile, writers>>

Remove(p) == proc[p] = "remove" /\ Goto(p, "leave") /\ RemovePidFile /\ UNCHANGED watched

Leave(p) == proc[p] = "leave" /\ Die(p)

Run(p) == Probe(p) \/ WritePidFile(p) \/ Listen(p) \/ Remove(p) \/ Leave(p)

-----------------------------------------------------------------------------
(* Any number of commands at once. *)
Next ==
  \E p \in Pid :
    \/ Keep(p) \/ Stay(p) \/ Daemonize(p) \/ Run(p) \/ Stop(p) \/ Die(p)
    \/ ForeignStart(p) \/ ForeignEnd(p)

Spec == Init /\ [][Next]_vars

Resident == { p \in Pid : proc[p] = "resident" }

Settled == \A p \in Pid : proc[p] \in {"none", "foreign", "zombie", "resident"}

(* An operator who waits for a command to be done before the next one, and *)
(* does not stay in the terminal beside a running agent.  Processes may    *)
(* still die, except a launcher that has emptied agent.pid.                *)
OrderlyNext ==
  \E p \in Pid :
    \/ Settled /\ Keep(p)
    \/ Settled /\ Resident = {} /\ Stay(p)
    \/ Daemonize(p) \/ Run(p) \/ Stop(p)
    \/ proc[p] # "keep_fill" /\ Die(p)
    \/ ForeignStart(p) \/ ForeignEnd(p)

OrderlySpec == Init /\ [][OrderlyNext]_vars

(* Commands and agents go on, foreign processes end, and the operator runs *)
(* `agent --keep` again and again, not always with the pid that agent.pid  *)
(* happens to hold (that launcher would find itself running).              *)
FairSpec ==
  /\ OrderlySpec
  /\ \A p \in Pid :
       WF_vars(Daemonize(p)) /\ WF_vars(Run(p)) /\ WF_vars(ForeignEnd(p))
  /\ SF_vars(\E p \in Pid : p # pidFile /\ Settled /\ Keep(p))

-----------------------------------------------------------------------------
(* Properties *)

(* What a launcher looks up is a pid: read_pid_file drops any other text   *)
(* agent.pid may hold.                                                     *)
TypeOK ==
  /\ proc \in [Pid -> {"none", "foreign", "zombie"} \cup Launcher \cup Agent]
  /\ watched \in [Pid -> Pid]
  /\ pidFile \in NoPid \cup Pid
  /\ writers \subseteq Pid

(* Agents that have not said goodbye. *)
Live == { p \in Pid : proc[p] \in Agent \ {"leave"} }

(* For an orderly operator there is never a second agent, whoever dies and *)
(* whoever gets the pid of a dead one.                                     *)
OneAgent == \A p, q \in Live : p = q

(* The inductive invariant of OrderlySpec.  There is one launcher at most,  *)
(* and one live agent, which is the launcher's child once there is one.    *)
OneLauncher == \A p, q \in Pid : proc[p] \in Launcher /\ proc[q] \in Launcher => p = q

Parent(l) == proc[l] \in {"keep_write", "keep_fill"}

(* Until a launcher has a child, a live agent is one it will find; nothing *)
(* else lives once it has decided to spawn.                                *)
LauncherOK ==
  \A l \in Pid, a \in Live :
    /\ proc[l] \in {"keep", "exists"} => proc[a] \in {"resident", "remove"}
    /\ proc[l] = "exists" => watched[l] = a
    /\ proc[l] \notin {"clear", "spawn"}
    /\ Parent(l) => watched[l] = a

(* A child's pid stays its own while its parent lives.                     *)
ChildrenOK ==
  \A l \in Pid : Parent(l) => proc[watched[l]] \in Agent \cup {"zombie"}

ZombiesOK == \A p \in Pid : proc[p] = "zombie" => \E l \in Pid : Parent(l) /\ watched[l] = p

WritersOK == \A p \in writers : proc[p] \in {"fill", "keep_fill"}

(* An agent that has written agent.pid is named there, unless the launcher *)
(* has just emptied it and is about to name the agent again.               *)
FileOK ==
  \A a \in Live :
    /\ proc[a] = "fill" => a \in writers /\ pidFile \in {"empty", a}
    /\ proc[a] \in {"listen", "resident", "remove"} =>
         \/ pidFile = a
         \/ pidFile = "empty" /\ \E l \in writers : proc[l] = "keep_fill"

OrderlyInv ==
  /\ TypeOK /\ OneLauncher /\ LauncherOK /\ ChildrenOK /\ ZombiesOK
  /\ WritersOK /\ FileOK /\ OneAgent

(* ... and when things have settled, agent.pid names the agent, so that    *)
(* `kill $(cat agent.pid)` stops it: the launcher and its child both write *)
(* the file, in any order, and the child may stop before the launcher is   *)
(* done.                                                                   *)
PidFileNamesAgent == Settled => \A p \in Resident : pidFile = p

(* Nothing agent.pid may hold locks the operator out for good: once        *)
(* processes stop dying before their end, no other program takes a pid,    *)
(* and nobody stops the agent, there is one.                               *)
KeepSucceeds ==
  <>[][~ \E p \in Pid : Stop(p) \/ (Die(p) /\ ~ Leave(p)) \/ ForeignStart(p)]_vars
    => <>[](Resident # {})
=============================================================================
