-------------------------- MODULE AgentService_proofs --------------------------
(* Proofs about the resident agent, for any number of process ids.           *)
EXTENDS AgentService, TLAPS

LEMMA InitOrderlyInv == Init => OrderlyInv
BY DEF Init, OrderlyInv, TypeOK, OneLauncher, LauncherOK, ChildrenOK, ZombiesOK, WritersOK,
       FileOK, OneAgent, Live, Parent, Launcher, Agent

(* One step per action; each has to keep a launcher and a live agent in    *)
(* step with each other and with agent.pid.                                *)
LEMMA NextOrderlyInv == OrderlyInv /\ [OrderlyNext]_vars => OrderlyInv'
<1> SUFFICES ASSUME OrderlyInv, [OrderlyNext]_vars PROVE OrderlyInv'
  OBVIOUS
<1> USE PidsAreNotText DEF OrderlyInv, TypeOK, OneLauncher, LauncherOK, ChildrenOK, ZombiesOK,
                           WritersOK, FileOK, OneAgent, Live, Parent, Launcher, Agent, NoPid
<1>1. ASSUME NEW p \in Pid, Settled, Keep(p) PROVE OrderlyInv'
  BY <1>1 DEF Settled, Keep, Goto
<1>2. ASSUME NEW p \in Pid, Settled, Resident = {}, Stay(p) PROVE OrderlyInv'
  BY <1>2 DEF Settled, Resident, Stay, Goto
<1>3. ASSUME NEW p \in Pid, ReadPidFile(p) PROVE OrderlyInv'
  BY <1>3 DEF ReadPidFile, Goto
<1>4. ASSUME NEW p \in Pid, ProcessExists(p) PROVE OrderlyInv'
  BY <1>4 DEF ProcessExists, Goto, Ended, ChildOf
<1>5. ASSUME NEW p \in Pid, Clear(p) PROVE OrderlyInv'
  BY <1>5 DEF Clear, Goto, RemovePidFile
<1>6. ASSUME NEW p \in Pid, Spawn(p) PROVE OrderlyInv'
  BY <1>6 DEF Spawn
<1>7. ASSUME NEW p \in Pid, KeepWrite(p) PROVE OrderlyInv'
  BY <1>7 DEF KeepWrite, Goto, CreatePidFile
<1>8. ASSUME NEW p \in Pid, KeepFill(p) PROVE OrderlyInv'
  BY <1>8 DEF KeepFill, FillPidFile, Ended, ChildOf
<1>9. ASSUME NEW p \in Pid, Probe(p) \/ Listen(p) \/ Stop(p) PROVE OrderlyInv'
  BY <1>9 DEF Probe, Listen, Stop, Goto
<1>10. ASSUME NEW p \in Pid, WritePidFile(p) PROVE OrderlyInv'
  BY <1>10 DEF WritePidFile, Goto, CreatePidFile, FillPidFile
<1>11. ASSUME NEW p \in Pid, Remove(p) PROVE OrderlyInv'
  BY <1>11 DEF Remove, Goto, RemovePidFile
<1>12. ASSUME NEW p \in Pid, proc[p] # "keep_fill", Die(p) PROVE OrderlyInv'
  BY <1>12 DEF Die, Ended, ChildOf
<1>13. ASSUME NEW p \in Pid, ForeignStart(p) \/ ForeignEnd(p) PROVE OrderlyInv'
  BY <1>13 DEF ForeignStart, ForeignEnd, Goto
<1>14. CASE UNCHANGED vars
  BY <1>14 DEF vars
<1> QED
  BY <1>1, <1>2, <1>3, <1>4, <1>5, <1>6, <1>7, <1>8, <1>9, <1>10, <1>11, <1>12, <1>13, <1>14
     DEF OrderlyNext, Daemonize, Run, Leave

THEOREM OrderlyInvariant == OrderlySpec => []OrderlyInv
BY InitOrderlyInv, NextOrderlyInv, PTL DEF OrderlySpec

(* Every variable keeps its type (agent.rs).                               *)
THEOREM AgentTypeCorrect == OrderlySpec => []TypeOK
<1>1. OrderlyInv => TypeOK
  BY DEF OrderlyInv
<1> QED
  BY <1>1, OrderlyInvariant, PTL

(* An orderly operator never has two agents (daemonize, run).              *)
THEOREM OneAgentCorrect == OrderlySpec => []OneAgent
<1>1. OrderlyInv => OneAgent
  BY DEF OrderlyInv
<1> QED
  BY <1>1, OrderlyInvariant, PTL

(* An orderly operator finds the agent's pid in agent.pid (write_pid_file). *)
THEOREM PidFileCorrect == OrderlySpec => []PidFileNamesAgent
<1>1. OrderlyInv => PidFileNamesAgent
  <2> SUFFICES ASSUME OrderlyInv, Settled, NEW a \in Resident PROVE pidFile = a
    BY DEF PidFileNamesAgent
  <2>1. a \in Live /\ proc[a] = "resident"
    BY DEF Resident, Live, Agent
  <2>2. \A l \in writers : proc[l] # "keep_fill"
    BY DEF Settled, OrderlyInv, TypeOK
  <2> QED
    BY <2>1, <2>2 DEF OrderlyInv, FileOK
<1> QED
  BY <1>1, OrderlyInvariant, PTL
=============================================================================
