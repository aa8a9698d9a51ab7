-------------------------- MODULE SyncAgentsProofs --------------------------
(***************************************************************************)
(* Theorems about sync-agents.py, for every inventory, number of           *)
(* directories and failures of agents.                                     *)
(***************************************************************************)
EXTENDS SyncAgents, FiniteSetTheorems, TLAPS

SyncSpec == SyncInit /\ [][SyncNext]_syncVars

Copying == {"clean", "put"}
Later == {"deps", "restart", "check"}
Ages == {"old", "new"}

Holding ==
    [tree : [Dirs -> Ages], stale : [Dirs -> SUBSET Leftovers], venv : Ages,
     active : BOOLEAN, code : [Dirs -> Ages], restarted : BOOLEAN, swallowed : BOOLEAN]

Doing == [pc : {"off", "connect"} \cup Copying \cup Later, at : Dirs]

SyncTyped ==
    /\ cmd \in [mode : {"none", "sync", "dry", "status", "list"}, restart : BOOLEAN,
                deps : BOOLEAN, named : SUBSET (Nodes \cup {Unknown}), env : BOOLEAN,
                local : SUBSET Dirs, selected : SUBSET Nodes, exit : -1..1]
    /\ node \in [Nodes -> Holding]
    /\ thread \in [Nodes -> Doing]
    /\ DOMAIN results \subseteq Nodes
    /\ \A n \in DOMAIN results : results[n] \in BOOLEAN

\* Directory d of a node is as in the repository.
Clear(n, d) == node[n].swallowed \/ node[n].stale[d] = {}
Copied(n, d) == d \in Dirs \ Missing => node[n].tree[d] = "new" /\ Clear(n, d)
Ready(n) == (\A d \in Dirs : Copied(n, d)) /\ (cmd.deps => node[n].venv = "new")
RunsNew(n) == cmd.restart => \A d \in Dirs \ Missing : node[n].code[d] = "new"

\* What a thread has done for its node when it gets where it is.
Along(n) ==
    /\ thread[n].pc = "connect" => thread[n].at = 1
    /\ thread[n].pc \in Copying => \A d \in Dirs : d < thread[n].at => Copied(n, d)
    /\ thread[n].pc = "put" => Clear(n, thread[n].at)
    /\ thread[n].pc \in Later => \A d \in Dirs : Copied(n, d)
    /\ thread[n].pc \in {"restart", "check"} => Ready(n)
    /\ thread[n].pc = "check" => RunsNew(n)

Kept(n) ==
    /\ Along(n)
    /\ n \in DOMAIN results => thread[n].pc = "off"
    /\ node[n].restarted => Ready(n)
    /\ cmd.mode = "sync" /\ n \in DOMAIN results /\ results[n] => Ready(n) /\ RunsNew(n)

\* The threads are those of the selected nodes, and none is left at the end.
Staffed ==
    /\ cmd.mode = "none" =>
        /\ DOMAIN results = {}
        /\ \A n \in Nodes : thread[n].pc = "off" /\ ~node[n].restarted
    /\ \A n \in Nodes :
        /\ n \in DOMAIN results \/ thread[n].pc # "off" => n \in cmd.selected
        /\ cmd.exit # -1 => thread[n].pc = "off"

Concluded ==
    /\ cmd.exit # 1 /\ ~cmd.env => cmd.named \subseteq Nodes
    /\ cmd.exit = 0 /\ cmd.mode = "sync" =>
        \A n \in cmd.selected : n \in DOMAIN results /\ results[n]

SyncInv == SyncTyped /\ (\A n \in Nodes : Kept(n)) /\ Staffed /\ Concluded

LEMMA DirsAre == Dirs \subseteq Int /\ 1 \in Dirs /\ NDirs \in Dirs
  BY SyncAssumption DEF Dirs

LEMMA SyncInitOK == SyncInit => SyncInv
  BY DirsAre DEF SyncInit, SyncInv, SyncTyped, Kept, Along, Staffed, Concluded, Ages,
     Copying, Later, Holding, Doing

\* What a step of the thread of n leaves of the other nodes.
Elsewhere(n) ==
    \A m \in Nodes \ {n} :
        /\ node'[m] = node[m] /\ thread'[m] = thread[m]
        /\ m \in DOMAIN results' <=> m \in DOMAIN results
        /\ m \in DOMAIN results => results'[m] = results[m]

LEMMA WorkedOK ==
  ASSUME SyncInv, NEW n \in Nodes, thread[n].pc # "off", cmd' = cmd,
         Elsewhere(n), SyncTyped', Kept(n)'
  PROVE  SyncInv'
<1>1. n \in cmd.selected /\ cmd.exit = -1 /\ cmd.mode # "none"
  BY DEF SyncInv, Staffed
<1>2. ASSUME NEW m \in Nodes \ {n} PROVE Kept(m)'
  BY <1>2 DEF Elsewhere, SyncInv, Kept, Along, Ready, RunsNew, Copied, Clear, Missing
<1>3. Staffed'
  BY <1>1 DEF Elsewhere, SyncInv, Staffed
<1>4. Concluded'
  BY <1>1 DEF SyncInv, Concluded
<1> QED BY <1>2, <1>3, <1>4 DEF SyncInv

\* A thread that leaves sync_node leaves a result, or the one that is there.
Left(n, ok) ==
    /\ thread' = [thread EXCEPT ![n].pc = "off"]
    /\ DOMAIN results' \subseteq Nodes
    /\ \A m \in DOMAIN results' : results'[m] \in BOOLEAN
    /\ \A m \in Nodes \ {n} :
        /\ m \in DOMAIN results' <=> m \in DOMAIN results
        /\ m \in DOMAIN results => results'[m] = results[m]
    /\ n \in DOMAIN results' =>
        results'[n] = ok \/ (n \in DOMAIN results /\ results'[n] = results[n])

LEMMA LeftOK ==
  ASSUME SyncTyped, NEW n \in Nodes, NEW ok \in BOOLEAN, Return(n, ok) \/ Store(n, ok)
  PROVE  Left(n, ok)
  BY DEF Return, Store, Goto, SyncTyped, Left

LEMMA LeaveOK ==
  ASSUME SyncInv, NEW n \in Nodes, NEW ok \in BOOLEAN, Return(n, ok) \/ Store(n, ok),
         thread[n].pc # "off", cmd' = cmd,
         node' = node \/ \E up \in BOOLEAN : node' = [node EXCEPT ![n].active = up],
         ok /\ cmd.mode = "sync" => Ready(n) /\ RunsNew(n)
  PROVE  SyncInv'
<1>1. Left(n, ok)
  BY LeftOK DEF SyncInv
<1>2. SyncTyped'
  <2>1. node' \in [Nodes -> Holding]
    <3>1. ASSUME NEW up \in BOOLEAN PROVE [node[n] EXCEPT !.active = up] \in Holding
      <4>1. node[n] \in Holding
        BY DEF SyncInv, SyncTyped
      <4> QED BY <4>1 DEF Holding
    <3> QED BY <3>1 DEF SyncInv, SyncTyped
  <2>2. thread' \in [Nodes -> Doing]
    BY <1>1 DEF SyncInv, SyncTyped, Left, Doing
  <2> QED BY <1>1, <2>1, <2>2 DEF SyncInv, SyncTyped, Left
<1>3. Elsewhere(n)
  <2>1. \A m \in Nodes \ {n} : node'[m] = node[m]
    BY DEF SyncInv, SyncTyped
  <2>2. \A m \in Nodes \ {n} : thread'[m] = thread[m]
    BY <1>1 DEF SyncInv, SyncTyped, Left
  <2> QED BY <1>1, <2>1, <2>2 DEF Left, Elsewhere
<1>4. /\ thread'[n].pc = "off"
      /\ \A f \in {node'[n]} :
            /\ f.tree = node[n].tree /\ f.stale = node[n].stale /\ f.venv = node[n].venv
            /\ f.code = node[n].code /\ f.restarted = node[n].restarted
            /\ f.swallowed = node[n].swallowed
  BY <1>1 DEF SyncInv, SyncTyped, Left, Holding, Doing
<1>5. (Ready(n) <=> Ready(n)') /\ (RunsNew(n) <=> RunsNew(n)')
  BY <1>4 DEF Ready, RunsNew, Copied, Clear, Missing
<1>6. Along(n)'
  BY <1>4 DEF Along, Copying, Later
<1>7. node'[n].restarted => Ready(n)'
  BY <1>4, <1>5 DEF SyncInv, Kept
<1>8. cmd'.mode = "sync" /\ n \in DOMAIN results' /\ results'[n] => Ready(n)' /\ RunsNew(n)'
  BY <1>1, <1>5 DEF SyncInv, Kept, Left
<1>9. Kept(n)'
  BY <1>4, <1>6, <1>7, <1>8 DEF Kept
<1> QED BY <1>2, <1>3, <1>9, WorkedOK

\* A thread that goes on: h is what its node holds then, t where it gets.
LEMMA GoOnOK ==
  ASSUME SyncInv, NEW n \in Nodes, NEW h \in Holding, NEW t \in Doing,
         thread[n].pc # "off", cmd' = cmd, results' = results,
         node' = [node EXCEPT ![n] = h], thread' = [thread EXCEPT ![n] = t],
         Along(n)', h.restarted => Ready(n)'
  PROVE  SyncInv'
<1>1. node'[n] = h /\ node' \in [Nodes -> Holding] /\ thread' \in [Nodes -> Doing]
  BY DEF SyncInv, SyncTyped
<1>2. SyncTyped'
  BY <1>1 DEF SyncInv, SyncTyped
<1>3. Elsewhere(n)
  BY DEF Elsewhere, SyncInv, SyncTyped
<1>4. n \notin DOMAIN results
  BY DEF SyncInv, Kept
<1>5. Kept(n)'
  BY <1>1, <1>4 DEF Kept
<1> QED BY <1>2, <1>3, <1>5, WorkedOK

\* What is ready stays so when files, dependencies or clean directories are added.
Better(n, h) ==
    /\ \A d \in Dirs : node[n].tree[d] = "new" => h.tree[d] = "new"
    /\ node[n].venv = "new" => h.venv = "new"
    /\ \A d \in Dirs : Clear(n, d) => h.swallowed \/ h.stale[d] = {}

LEMMA BetterOK ==
  ASSUME NEW n \in Nodes, NEW h \in Holding, node' = [node EXCEPT ![n] = h], cmd' = cmd,
         node \in [Nodes -> Holding], Better(n, h)
  PROVE  /\ \A d \in Dirs : Copied(n, d) => Copied(n, d)'
         /\ \A d \in Dirs : Clear(n, d) => Clear(n, d)'
         /\ Ready(n) => Ready(n)'
<1>1. node'[n] = h
  OBVIOUS
<1>2. \A d \in Dirs : Clear(n, d) => Clear(n, d)'
  BY <1>1 DEF Better, Clear
<1>3. \A d \in Dirs : Copied(n, d) => Copied(n, d)'
  BY <1>1, <1>2 DEF Better, Copied, Missing
<1> QED BY <1>1, <1>2, <1>3 DEF Better, Ready

LEMMA CommandOK ==
  ASSUME SyncInv, cmd.mode = "none",
         NEW mode \in {"sync", "dry", "status", "list"}, NEW restart \in BOOLEAN,
         NEW deps \in BOOLEAN, NEW env \in BOOLEAN,
         NEW named \in SUBSET (Nodes \cup {Unknown}), NEW local \in SUBSET Dirs,
         Command(mode, restart, deps, named, env, local)
  PROVE  SyncInv'
<1>1. SyncTyped'
  <2>1. cmd' \in [mode : {"none", "sync", "dry", "status", "list"}, restart : BOOLEAN,
                  deps : BOOLEAN, named : SUBSET (Nodes \cup {Unknown}), env : BOOLEAN,
                  local : SUBSET Dirs, selected : SUBSET Nodes, exit : -1..1]
    BY DEF Command
  <2>2. thread' \in [Nodes -> Doing]
    BY DirsAre DEF Command, SyncInv, SyncTyped, Doing
  <2> QED BY <2>1, <2>2 DEF Command, SyncInv, SyncTyped
<1>2. /\ node' = node /\ results' = results /\ DOMAIN results = {}
      /\ \A n \in Nodes : thread[n].pc = "off" /\ ~node[n].restarted
  BY DEF Command, SyncInv, Staffed
<1>3. \A n \in Nodes : thread'[n].pc = "off" \/ thread'[n] = [pc |-> "connect", at |-> 1]
  BY <1>2 DEF Command
<1>4. \A n \in Nodes : Kept(n)'
  BY <1>2, <1>3 DEF Kept, Along, Copying, Later
<1>5. cmd'.mode # "none" /\ (\A n \in Nodes : thread'[n].pc # "off" => n \in cmd'.selected)
      /\ (cmd'.exit # -1 => \A n \in Nodes : thread'[n].pc = "off")
  BY <1>2 DEF Command
<1>6. Staffed'
  BY <1>2, <1>5 DEF Staffed
<1>7. Concluded'
  BY DEF Command, Concluded
<1> QED BY <1>1, <1>4, <1>6, <1>7 DEF SyncInv

LEMMA ConnectOK ==
  ASSUME SyncInv, NEW n \in Nodes, Connect(n)
  PROVE  SyncInv'
<1>1. thread[n].pc = "connect" /\ thread[n].at = 1 /\ node' = node /\ cmd' = cmd
      /\ node[n] \in Holding /\ thread[n] \in Doing
  BY DEF Connect, SyncInv, SyncTyped, Kept, Along
<1>2. CASE cmd.mode = "dry" /\ Store(n, TRUE)
  BY <1>1, <1>2, LeaveOK
<1>3. CASE cmd.mode # "dry" /\ Store(n, FALSE)
  BY <1>1, <1>3, LeaveOK
<1>4. CASE cmd.mode = "sync" /\ Goto(n, "clean") /\ UNCHANGED results
  <2> DEFINE t == [thread[n] EXCEPT !.pc = "clean"]
  <2>1. t \in Doing /\ t.pc = "clean" /\ t.at = 1
    BY <1>1 DEF Doing, Copying
  <2>2. thread' = [thread EXCEPT ![n] = t] /\ node' = [node EXCEPT ![n] = node[n]]
    BY <1>1, <1>4 DEF Goto, SyncInv, SyncTyped
  <2>3. thread'[n] = t
    BY <2>2 DEF SyncInv, SyncTyped
  <2>4. Along(n)'
    BY <2>1, <2>3 DEF Along, Copying, Later, Dirs
  <2>5. node[n].restarted => Ready(n)'
    BY <1>1 DEF SyncInv, Kept, Ready, Copied, Clear, Missing
  <2> HIDE DEF t
  <2> QED BY <1>1, <1>4, <2>1, <2>2, <2>4, <2>5, GoOnOK
<1>5. CASE cmd.mode = "status" /\ Store(n, node[n].active)
  <2>1. node[n].active \in BOOLEAN
    BY <1>1 DEF Holding
  <2> QED BY <1>1, <1>5, <2>1, LeaveOK
<1> QED BY <1>2, <1>3, <1>4, <1>5 DEF Connect

\* The thread is done with a directory: the next one, or what comes after the last.
LEMMA NextDirOK ==
  ASSUME SyncInv, NEW n \in Nodes, NEW h \in Holding, thread[n].pc \in Copying,
         cmd' = cmd, results' = results, node' = [node EXCEPT ![n] = h], NextDir(n),
         Better(n, h), h.restarted = node[n].restarted,
         NEW at \in Dirs, at = thread[n].at, Copied(n, at)'
  PROVE  SyncInv'
<1> DEFINE t == IF thread[n].at < NDirs
                THEN [pc |-> "clean", at |-> thread[n].at + 1]
                ELSE [thread[n] EXCEPT !.pc = IF cmd.deps THEN "deps" ELSE "restart"]
<1>1. thread[n] \in Doing /\ thread[n].at \in Dirs /\ node \in [Nodes -> Holding]
  BY DEF SyncInv, SyncTyped, Doing
<1>2. t \in Doing
  BY <1>1, SyncAssumption DEF Doing, Copying, Later, Dirs
<1>3. thread' = [thread EXCEPT ![n] = t] /\ thread'[n] = t
  BY DEF NextDir, SyncInv, SyncTyped
<1>4. \A d \in Dirs : Copied(n, d) => Copied(n, d)'
  BY <1>1, BetterOK
<1>5. \A d \in Dirs : d < at => Copied(n, d)'
  BY <1>4 DEF SyncInv, Kept, Along
<1>6. ASSUME NEW d \in Dirs, d <= at PROVE Copied(n, d)'
  <2>1. CASE d = at
    BY <2>1
  <2>2. CASE d < at
    BY <1>5, <2>2
  <2> QED BY <1>6, <2>1, <2>2, DirsAre
<1>7. Along(n)'
  <2>1. CASE thread[n].at < NDirs
    <3>1. thread'[n].pc = "clean" /\ thread'[n].at = thread[n].at + 1
      BY <1>3, <2>1
    <3>2. \A d \in Dirs : d < thread'[n].at => d <= at
      BY <3>1, DirsAre
    <3>3. \A d \in Dirs : d < thread'[n].at => Copied(n, d)'
      BY <1>6, <3>2
    <3> QED BY <3>1, <3>3 DEF Along, Later
  <2>2. CASE ~(thread[n].at < NDirs)
    <3>1. \A d \in Dirs : Copied(n, d)'
      <4>1. \A d \in Dirs : d <= at
        BY <2>2, SyncAssumption DEF Dirs
      <4> QED BY <1>6, <4>1
    <3>2. thread'[n].pc = IF cmd.deps THEN "deps" ELSE "restart"
      BY <1>1, <1>3, <2>2 DEF Doing
    <3>3. ~cmd.deps => Ready(n)'
      BY <3>1 DEF Ready
    <3> QED BY <3>1, <3>2, <3>3 DEF Along, Copying
  <2> QED BY <2>1, <2>2
<1>8. h.restarted => Ready(n)'
  <2>1. Ready(n) => Ready(n)'
    BY <1>1, BetterOK
  <2>2. h.restarted = node[n].restarted
    OBVIOUS
  <2> QED BY <2>1, <2>2 DEF SyncInv, Kept
<1> HIDE DEF t
<1> QED
  <2>1. thread[n].pc # "off"
    BY DEF Copying
  <2> QED BY <1>2, <1>3, <1>7, <1>8, <2>1, GoOnOK

LEMMA CleanOK ==
  ASSUME SyncInv, NEW n \in Nodes, Clean(n)
  PROVE  SyncInv'
<1> DEFINE at == thread[n].at
<1>1. /\ thread[n].pc = "clean" /\ cmd' = cmd /\ results' = results
      /\ node[n] \in Holding /\ thread[n] \in Doing /\ node \in [Nodes -> Holding]
      /\ at \in Dirs
  BY DEF Clean, SyncInv, SyncTyped, Doing
<1>2. CASE at \in Missing
  <2>1. NextDir(n) /\ node' = [node EXCEPT ![n] = node[n]]
    BY <1>1, <1>2 DEF Clean
  <2>2. Better(n, node[n])
    BY DEF Better, Clear
  <2>3. \A d \in Dirs : d = at => Copied(n, d)'
    BY <1>1, <1>2 DEF Copied, Missing
  <2> QED BY <1>1, <2>1, <2>2, <2>3, NextDirOK DEF Copying
<1>3. CASE at \notin Missing
  <2>1. PICK left \in SUBSET node[n].stale[at] :
          /\ node' = [node EXCEPT ![n].stale[at] = left,
                                  ![n].swallowed = @ \/ left # {}]
          /\ Goto(n, "put")
    BY <1>3 DEF Clean
  <2> DEFINE h == [node[n] EXCEPT !.stale[at] = left, !.swallowed = @ \/ left # {}]
             t == [thread[n] EXCEPT !.pc = "put"]
  <2>2. h \in Holding /\ h.restarted = node[n].restarted
    BY <1>1 DEF Holding
  <2>3. t \in Doing /\ t.pc = "put" /\ t.at = at
    BY <1>1 DEF Doing, Copying
  <2>4. node' = [node EXCEPT ![n] = h] /\ thread' = [thread EXCEPT ![n] = t]
    BY <1>1, <2>1 DEF Goto, SyncInv, SyncTyped
  <2>5. Better(n, h)
    BY <1>1 DEF Better, Clear, Holding
  <2>6. h.swallowed \/ h.stale[at] = {}
    BY <1>1 DEF Holding
  <2>7. thread'[n] = t /\ node'[n] = h
    BY <1>1, <2>4 DEF SyncInv, SyncTyped
  <2> HIDE DEF h, t
  <2>8. \A d \in Dirs : Copied(n, d) => Copied(n, d)'
    BY <1>1, <2>2, <2>4, <2>5, BetterOK
  <2>9. Along(n)'
    <3>1. \A d \in Dirs : d < thread'[n].at => Copied(n, d)'
      BY <1>1, <2>3, <2>7, <2>8 DEF SyncInv, Kept, Along, Copying
    <3>2. Clear(n, thread[n].at)'
      BY <2>3, <2>6, <2>7 DEF Clear
    <3> QED BY <2>3, <2>7, <3>1, <3>2 DEF Along, Copying, Later
  <2>10. h.restarted => Ready(n)'
    <3>1. Ready(n) => Ready(n)'
      BY <1>1, <2>2, <2>4, <2>5, BetterOK
    <3> QED BY <2>2, <3>1 DEF SyncInv, Kept
  <2> QED BY <1>1, <2>2, <2>3, <2>4, <2>9, <2>10, GoOnOK
<1> QED BY <1>2, <1>3

LEMMA PutOK ==
  ASSUME SyncInv, NEW n \in Nodes, Put(n)
  PROVE  SyncInv'
<1> DEFINE at == thread[n].at
           h == [node[n] EXCEPT !.tree[at] = "new"]
<1>1. /\ thread[n].pc = "put" /\ cmd' = cmd /\ results' = results /\ NextDir(n)
      /\ node[n] \in Holding /\ node \in [Nodes -> Holding] /\ at \in Dirs
  BY DEF Put, SyncInv, SyncTyped, Doing
<1>2. node' = [node EXCEPT ![n] = h] /\ node'[n] = h
  BY <1>1 DEF Put
<1>3. h \in Holding /\ h.restarted = node[n].restarted /\ h.tree[at] = "new"
      /\ h.swallowed = node[n].swallowed /\ h.stale = node[n].stale
  BY <1>1 DEF Holding, Ages
<1>4. Better(n, h)
  BY <1>1 DEF Better, Clear, Holding
<1>5. Clear(n, at)
  BY <1>1 DEF SyncInv, Kept, Along
<1> HIDE DEF h
<1>6. \A d \in Dirs : d = at => Copied(n, d)'
  BY <1>2, <1>3, <1>5 DEF Copied, Clear
<1> QED BY <1>1, <1>2, <1>3, <1>4, <1>6, NextDirOK DEF Copying

LEMMA UvSyncOK ==
  ASSUME SyncInv, NEW n \in Nodes, UvSync(n)
  PROVE  SyncInv'
<1> DEFINE h == [node[n] EXCEPT !.venv = "new"]
           t == [thread[n] EXCEPT !.pc = "restart"]
<1>1. /\ thread[n].pc = "deps" /\ cmd' = cmd /\ results' = results
      /\ node[n] \in Holding /\ thread[n] \in Doing /\ node \in [Nodes -> Holding]
  BY DEF UvSync, SyncInv, SyncTyped
<1>2. /\ node' = [node EXCEPT ![n] = h] /\ node'[n] = h
      /\ thread' = [thread EXCEPT ![n] = t] /\ thread'[n] = t
  BY <1>1 DEF UvSync, Goto, SyncInv, SyncTyped
<1>3. h \in Holding /\ h.restarted = node[n].restarted /\ h.venv = "new"
  BY <1>1 DEF Holding, Ages
<1>4. t \in Doing /\ t.pc = "restart"
  BY <1>1 DEF Doing, Later
<1>5. Better(n, h)
  BY <1>1 DEF Better, Clear, Holding
<1> HIDE DEF h, t
<1>6. \A d \in Dirs : Copied(n, d)'
  BY <1>1, <1>2, <1>3, <1>5, BetterOK DEF SyncInv, Kept, Along, Later
<1>7. Ready(n)'
  BY <1>2, <1>3, <1>6 DEF Ready
<1>8. Along(n)'
  BY <1>2, <1>4, <1>6, <1>7 DEF Along, Copying
<1> QED BY <1>1, <1>2, <1>3, <1>4, <1>7, <1>8, GoOnOK

LEMMA BootedOK ==
  ASSUME SyncTyped, NEW n \in Nodes, NEW up \in BOOLEAN
  PROVE  LET h == Booted(n, up)
         IN  /\ h \in Holding /\ h.code = node[n].tree /\ h.tree = node[n].tree
             /\ h.stale = node[n].stale /\ h.venv = node[n].venv
             /\ h.restarted = node[n].restarted /\ h.swallowed = node[n].swallowed
  BY DEF SyncTyped, Booted, Holding

LEMMA RestartOK ==
  ASSUME SyncInv, NEW n \in Nodes, Restart(n)
  PROVE  SyncInv'
<1>1. /\ thread[n].pc = "restart" /\ cmd' = cmd /\ Ready(n) /\ SyncTyped
      /\ node[n] \in Holding /\ thread[n] \in Doing /\ node \in [Nodes -> Holding]
  BY DEF Restart, SyncInv, SyncTyped, Kept, Along
<1>2. CASE cmd.restart
  <2>1. PICK up \in BOOLEAN :
          node' = [node EXCEPT ![n] = [Booted(n, up) EXCEPT !.restarted = TRUE]]
    BY <1>2 DEF Restart
  <2> DEFINE h == [Booted(n, up) EXCEPT !.restarted = TRUE]
             t == [thread[n] EXCEPT !.pc = "check"]
  <2>2. /\ h \in Holding /\ h.code = node[n].tree /\ h.tree = node[n].tree
        /\ h.stale = node[n].stale /\ h.venv = node[n].venv
        /\ h.swallowed = node[n].swallowed
    <3> DEFINE b == Booted(n, up)
    <3>1. /\ b \in Holding /\ b.code = node[n].tree /\ b.tree = node[n].tree
          /\ b.stale = node[n].stale /\ b.venv = node[n].venv
          /\ b.swallowed = node[n].swallowed
      BY <1>1, BootedOK
    <3> HIDE DEF b
    <3>2. h = [b EXCEPT !.restarted = TRUE]
      BY DEF b
    <3> HIDE DEF h
    <3> QED BY <3>1, <3>2 DEF Holding
  <2>3. t \in Doing /\ t.pc = "check"
    BY <1>1 DEF Doing, Later
  <2>4. node' = [node EXCEPT ![n] = h] /\ node'[n] = h
    BY <1>1, <2>1
  <2>5. thread' = [thread EXCEPT ![n] = t] /\ thread'[n] = t /\ results' = results
    BY <1>1, <1>2 DEF Restart, Goto, SyncInv, SyncTyped
  <2> HIDE DEF h, t
  <2>6. Better(n, h)
    BY <2>2 DEF Better, Clear
  <2>7. Ready(n)'
    BY <1>1, <2>2, <2>4, <2>6, BetterOK
  <2>8. RunsNew(n)'
    BY <1>1, <2>2, <2>4 DEF RunsNew, Ready, Copied, Missing
  <2>9. Along(n)'
    BY <2>3, <2>5, <2>7, <2>8 DEF Along, Copying, Ready
  <2> QED BY <1>1, <2>2, <2>3, <2>4, <2>5, <2>7, <2>9, GoOnOK
<1>3. CASE ~cmd.restart
  BY <1>1, <1>3, LeaveOK DEF Restart, RunsNew
<1> QED BY <1>2, <1>3

LEMMA IsActiveOK ==
  ASSUME SyncInv, NEW n \in Nodes, IsActive(n)
  PROVE  SyncInv'
<1>1. thread[n].pc = "check" /\ node[n].active \in BOOLEAN /\ Ready(n) /\ RunsNew(n)
  BY DEF IsActive, SyncInv, SyncTyped, Holding, Kept, Along
<1> QED BY <1>1, LeaveOK DEF IsActive

LEMMA AbortOK ==
  ASSUME SyncInv, NEW n \in Nodes, Abort(n)
  PROVE  SyncInv'
<1>1. thread[n].pc # "off" /\ cmd' = cmd /\ Return(n, FALSE)
  BY DEF Abort
<1>2. (node[n].active /\ thread[n].pc # "restart") \in BOOLEAN
  OBVIOUS
<1>3. node' = node \/ \E up \in BOOLEAN : node' = [node EXCEPT ![n].active = up]
  BY <1>2 DEF Abort, SyncInv, SyncTyped
<1> QED BY <1>1, <1>3, LeaveOK

LEMMA AgentFailsOK ==
  ASSUME SyncInv, NEW n \in Nodes, AgentFails(n)
  PROVE  SyncInv'
<1>1. PICK up \in BOOLEAN : node' = [node EXCEPT ![n] = Booted(n, up)]
  BY DEF AgentFails
<1> DEFINE h == Booted(n, up)
<1>2. /\ cmd' = cmd /\ thread' = thread /\ results' = results
      /\ SyncTyped /\ node \in [Nodes -> Holding]
  BY DEF AgentFails, SyncInv, SyncTyped
<1>3. /\ h \in Holding /\ h.code = node[n].tree /\ h.tree = node[n].tree
      /\ h.stale = node[n].stale /\ h.venv = node[n].venv
      /\ h.restarted = node[n].restarted /\ h.swallowed = node[n].swallowed
  BY <1>2, BootedOK
<1>4. node' = [node EXCEPT ![n] = h] /\ node'[n] = h /\ node' \in [Nodes -> Holding]
  BY <1>1, <1>2, <1>3
<1> HIDE DEF h
<1>5. SyncTyped'
  BY <1>2, <1>4 DEF SyncTyped
<1>6. Better(n, h)
  BY <1>3 DEF Better, Clear
<1>7. /\ \A d \in Dirs : Copied(n, d) => Copied(n, d)'
      /\ \A d \in Dirs : Clear(n, d) => Clear(n, d)'
      /\ Ready(n) => Ready(n)'
  BY <1>2, <1>3, <1>4, <1>6, BetterOK
<1>8. Ready(n) => RunsNew(n)'
  BY <1>2, <1>3, <1>4 DEF RunsNew, Ready, Copied, Missing
<1>9. Along(n)'
  <2>1. thread[n].at \in Dirs
    BY <1>2 DEF SyncTyped, Doing
  <2> QED BY <1>2, <1>7, <1>8, <2>1 DEF SyncInv, Kept, Along
<1>10. Kept(n)'
  BY <1>2, <1>3, <1>4, <1>7, <1>8, <1>9 DEF SyncInv, Kept
<1>11. ASSUME NEW m \in Nodes \ {n} PROVE Kept(m)'
  BY <1>2, <1>4, <1>11 DEF SyncInv, Kept, Along, Ready, RunsNew, Copied, Clear, Missing
<1>12. Staffed'
  BY <1>2, <1>3, <1>4, <1>11 DEF SyncInv, SyncTyped, Staffed
<1>13. Concluded'
  BY <1>2 DEF SyncInv, Concluded
<1> QED BY <1>5, <1>10, <1>11, <1>12, <1>13 DEF SyncInv

\* As many good results as nodes selected: they are the results of these nodes.
LEMMA JoinOK ==
  ASSUME SyncInv, Join
  PROVE  SyncInv'
<1> DEFINE ok == {n \in DOMAIN results : results[n]}
<1>1. /\ node' = node /\ thread' = thread /\ results' = results
      /\ cmd.mode # "none" /\ cmd.exit = -1 /\ cmd' = [cmd EXCEPT !.exit = ExitStatus]
      /\ \A n \in Nodes : thread[n].pc = "off"
  BY DEF Join
<1>2. ExitStatus \in {0, 1}
  BY DEF ExitStatus
<1>3. /\ SyncTyped'
      /\ cmd'.exit = ExitStatus /\ cmd'.mode = cmd.mode /\ cmd'.restart = cmd.restart
      /\ cmd'.deps = cmd.deps /\ cmd'.named = cmd.named /\ cmd'.env = cmd.env
      /\ cmd'.local = cmd.local /\ cmd'.selected = cmd.selected
  <2>1. ExitStatus \in -1..1
    BY <1>2
  <2> HIDE DEF ok
  <2> QED BY <1>1, <2>1 DEF SyncInv, SyncTyped
<1>4. \A n \in Nodes : Kept(n)'
  BY <1>1, <1>3 DEF SyncInv, Kept, Along, Ready, RunsNew, Copied, Clear, Missing
<1>5. Staffed'
  BY <1>1, <1>3 DEF SyncInv, Staffed
<1>6. Concluded'
  <2>1. ok \subseteq cmd.selected /\ IsFiniteSet(cmd.selected)
    BY SyncAssumption, FS_Subset DEF SyncInv, SyncTyped, Staffed
  <2>2. ASSUME Cardinality(ok) = Cardinality(cmd.selected) PROVE ok = cmd.selected
    BY <2>1, <2>2, FS_Subset
  <2>3. ExitStatus = 0 /\ cmd.mode = "sync" => ok = cmd.selected
    BY <2>2 DEF ExitStatus
  <2> QED BY <1>1, <1>3, <2>3 DEF SyncInv, Concluded
<1> QED BY <1>3, <1>4, <1>5, <1>6 DEF SyncInv

LEMMA SyncStepOK == SyncInv /\ [SyncNext]_syncVars => SyncInv'
<1> SUFFICES ASSUME SyncInv, [SyncNext]_syncVars PROVE SyncInv'
  OBVIOUS
<1>1. CASE UNCHANGED syncVars
  BY <1>1 DEF syncVars, SyncInv, SyncTyped, Kept, Along, Ready, RunsNew, Copied, Clear,
     Missing, Staffed, Concluded
<1>2. ASSUME cmd.mode = "none", NEW mode \in {"sync", "dry", "status", "list"},
             NEW restart \in BOOLEAN, NEW deps \in BOOLEAN, NEW env \in BOOLEAN,
             NEW named \in SUBSET (Nodes \cup {Unknown}), NEW local \in SUBSET Dirs,
             Command(mode, restart, deps, named, env, local)
      PROVE  SyncInv'
  BY <1>2, CommandOK
<1>3. ASSUME NEW n \in Nodes,
             \/ Connect(n) \/ Clean(n) \/ Put(n) \/ UvSync(n)
             \/ Restart(n) \/ IsActive(n) \/ Abort(n) \/ AgentFails(n)
      PROVE  SyncInv'
  BY <1>3, ConnectOK, CleanOK, PutOK, UvSyncOK, RestartOK, IsActiveOK, AbortOK,
     AgentFailsOK
<1>4. CASE Join
  BY <1>4, JoinOK
<1> QED BY <1>1, <1>2, <1>3, <1>4 DEF SyncNext

LEMMA SyncInvHolds == SyncSpec => []SyncInv
  BY SyncInitOK, SyncStepOK, PTL DEF SyncSpec

(* The command, its threads and its results keep their types, for every    *)
(* inventory and tree (main, sync_node).                                   *)
THEOREM CommandTyped == SyncSpec => []SyncTypeOK
<1>1. SyncInv => SyncTypeOK
  BY DEF SyncInv, SyncTyped, Holding, Doing, Ages, SyncTypeOK
<1> QED BY <1>1, SyncInvHolds, PTL

(* sync_node returns before the restart whenever a copy or uv sync failed, *)
(* so no agent is restarted on half a tree, whatever fails when.           *)
THEOREM RestartedWhole == SyncSpec => []NoHalfRestart
<1>1. SyncInv => NoHalfRestart
  BY DEF SyncInv, Kept, Ready, Copied, Synced, NoHalfRestart
<1> QED BY <1>1, SyncInvHolds, PTL

(* Exit status 0 of a sync tells what the nodes hold and run, for every    *)
(* inventory and number of directories and however often agents fail.      *)
THEOREM ExitTellsTruth == SyncSpec => []ExitHonest
<1>1. ASSUME SyncInv, cmd.mode = "sync", cmd.exit = 0, NEW n \in cmd.selected
      PROVE  Ready(n) /\ RunsNew(n)
  <2>1. n \in Nodes /\ n \in DOMAIN results /\ results[n]
    BY <1>1 DEF SyncInv, SyncTyped, Concluded
  <2> QED BY <1>1, <2>1 DEF SyncInv, Kept
<1>2. SyncInv => ExitHonest
  <2> SUFFICES ASSUME SyncInv, cmd.mode = "sync", cmd.exit = 0 PROVE ExitHonest
    BY DEF ExitHonest
  <2>1. ~cmd.env => cmd.named \subseteq Nodes
    BY DEF SyncInv, Concluded
  <2>2. ASSUME NEW n \in cmd.selected
        PROVE  /\ Synced(n)
               /\ cmd.restart => \A d \in Dirs \ Missing : node[n].code[d] = "new"
               /\ cmd.deps => node[n].venv = "new"
               /\ node[n].swallowed \/ \A d \in Dirs \ Missing : node[n].stale[d] = {}
    <3>1. Ready(n) /\ RunsNew(n)
      BY <1>1
    <3> QED BY <3>1 DEF Ready, RunsNew, Copied, Clear, Synced
  <2> QED BY <2>1, <2>2 DEF ExitHonest
<1> QED BY <1>2, SyncInvHolds, PTL

=============================================================================
