----------------------------- MODULE SyncAgents -----------------------------
(***************************************************************************)
(* scripts/sync-agents.py: one thread per node copies the repository over  *)
(* SFTP, optionally runs uv sync and restarts the agent's unit, which      *)
(* systemd also restarts by itself when the agent fails.  A node's tree is *)
(* a sequence of directories in the order the upload visits them.          *)
(***************************************************************************)
EXTENDS Integers, FiniteSets

CONSTANTS
    Nodes,        \* the inventory AGENTS
    Unknown,      \* a name the inventory does not hold
    NDirs,        \* directories of the tree, SYNC_PATHS and what they hold
    Leftovers,    \* entries a directory of a node may hold and the repository not
    MaxCrashes    \* bound: agents that fail during the command

ASSUME SyncAssumption ==
    NDirs \in Nat \ {0} /\ Unknown \notin Nodes /\ IsFiniteSet(Nodes)

VARIABLES
    cmd,      \* the command: mode, options, selected nodes and exit status
    node,     \* what each node holds and runs
    thread,   \* what the command's thread for the node does
    results,  \* the results dictionary (node -> ok), or the rows of --status
    crashes   \* agents that failed so far

syncVars == <<cmd, node, thread, results, crashes>>

Dirs == 1..NDirs
Missing == Dirs \ cmd.local           \* paths the local repository lacks
Synced(n) == \A d \in Dirs \ Missing : node[n].tree[d] = "new"

SyncInit ==
    /\ cmd = [mode |-> "none", restart |-> FALSE, deps |-> FALSE, named |-> {},
              env |-> FALSE, local |-> {}, selected |-> {}, exit |-> -1]
    /\ node = [n \in Nodes |->
                [tree |-> [d \in Dirs |-> "old"], stale |-> [d \in Dirs |-> Leftovers],
                 venv |-> "old", active |-> TRUE, code |-> [d \in Dirs |-> "old"],
                 restarted |-> FALSE, swallowed |-> FALSE]]
    /\ thread = [n \in Nodes |-> [pc |-> "off", at |-> 1]]
    /\ results = <<>>
    /\ crashes = 0

(* main: ATF_AGENTS wins over the arguments and drops the names it does    *)
(* not know; an unknown argument ends the command; none selects them all.  *)
Command(mode, restart, deps, named, env, local) ==
    LET selected == IF named = {} THEN Nodes ELSE named \cap Nodes
        refused  == ~env /\ ~(named \subseteq Nodes)
        ends     == refused \/ mode = "list"
    IN  /\ cmd' = [mode |-> mode, restart |-> restart, deps |-> deps, named |-> named,
                   env |-> env, local |-> local, selected |-> selected,
                   exit |-> IF refused THEN 1 ELSE IF mode = "list" THEN 0 ELSE -1]
        /\ thread' = [n \in Nodes |-> IF ends \/ n \notin selected THEN thread[n]
                                      ELSE [pc |-> "connect", at |-> 1]]
        /\ UNCHANGED <<node, results, crashes>>

Goto(n, pc) == thread' = [thread EXCEPT ![n].pc = pc]

\* The thread leaves sync_node; unless the close of the connection raises, the
\* result is stored.
Return(n, ok) ==
    /\ Goto(n, "off")
    /\ results' \in {results, [m \in DOMAIN results \cup {n} |->
                                 IF m = n THEN ok ELSE results[m]]}

Store(n, ok) ==
    /\ Goto(n, "off")
    /\ results' = [m \in DOMAIN results \cup {n} |-> IF m = n THEN ok ELSE results[m]]

(* sync_node up to the SSH connection, whose failure is an ordinary result. *)
Connect(n) ==
    /\ thread[n].pc = "connect"
    /\ \/ cmd.mode = "dry" /\ Store(n, TRUE)
       \/ cmd.mode # "dry" /\ Store(n, FALSE)
       \/ cmd.mode = "sync" /\ Goto(n, "clean") /\ UNCHANGED results
       \/ cmd.mode = "status" /\ Store(n, node[n].active)
    /\ UNCHANGED <<cmd, node, crashes>>

\* What follows once the directory at hand is dealt with.
NextDir(n) ==
    thread' = [thread EXCEPT ![n] =
        IF @.at < NDirs THEN [pc |-> "clean", at |-> @.at + 1]
        ELSE [@ EXCEPT !.pc = IF cmd.deps THEN "deps" ELSE "restart"]]

(* _sftp_upload_dir, first half: the first error ends the removals, and    *)
(* nobody hears of it.  A path the repository lacks is skipped.            *)
Clean(n) ==
    /\ thread[n].pc = "clean"
    /\ LET d == thread[n].at IN
        IF d \in Missing
        THEN NextDir(n) /\ UNCHANGED node
        ELSE \E left \in SUBSET node[n].stale[d] :
                /\ node' = [node EXCEPT ![n].stale[d] = left,
                                        ![n].swallowed = @ \/ left # {}]
                /\ Goto(n, "put")
    /\ UNCHANGED <<cmd, results, crashes>>

\* Mutant: an error of the upload is swallowed like one of the removal.
PutCareless(n) ==
    /\ thread[n].pc = "put"
    /\ node' \in {node, [node EXCEPT ![n].tree[thread[n].at] = "new"]}
    /\ NextDir(n)
    /\ UNCHANGED <<cmd, results, crashes>>

(* Second half: the files of the directory. *)
Put(n) ==
    /\ thread[n].pc = "put"
    /\ node' = [node EXCEPT ![n].tree[thread[n].at] = "new"]
    /\ NextDir(n)
    /\ UNCHANGED <<cmd, results, crashes>>

UvSync(n) ==
    /\ thread[n].pc = "deps"
    /\ node' = [node EXCEPT ![n].venv = "new"]
    /\ Goto(n, "restart")
    /\ UNCHANGED <<cmd, results, crashes>>

(* systemctl restart loads what the disk holds; the unit may not come up.  *)
Booted(n, active) == [node[n] EXCEPT !.code = node[n].tree, !.active = active]

Restart(n) ==
    /\ thread[n].pc = "restart"
    /\ IF cmd.restart
       THEN /\ \E active \in BOOLEAN :
                 node' = [node EXCEPT ![n] = [Booted(n, active) EXCEPT !.restarted = TRUE]]
            /\ Goto(n, "check") /\ UNCHANGED results
       ELSE Return(n, TRUE) /\ UNCHANGED node
    /\ UNCHANGED <<cmd, crashes>>

IsActive(n) ==
    /\ thread[n].pc = "check"
    /\ Return(n, node[n].active)
    /\ UNCHANGED <<cmd, node, crashes>>

(* Whatever raises or returns an error after the connection ends the thread; *)
(* a restart that fails may leave the unit stopped.                          *)
Abort(n) ==
    /\ thread[n].pc \in {"clean", "put", "deps", "restart", "check"}
    /\ thread[n].pc = "restart" => cmd.restart
    /\ Return(n, FALSE)
    /\ node' \in {node, [node EXCEPT ![n].active = @ /\ thread[n].pc # "restart"]}
    /\ UNCHANGED <<cmd, crashes>>

\* Mutant: the results that are there are all ok.
ExitStatusOfResults == IF \A n \in DOMAIN results : results[n] THEN 0 ELSE 1

(* main after the joins: 0 only when every selected node is ok. *)
ExitStatus ==
    LET ok == {n \in DOMAIN results : results[n]}
    IN  IF IF cmd.mode = "status" THEN ok = DOMAIN results
           ELSE Cardinality(ok) = Cardinality(cmd.selected)
        THEN 0 ELSE 1

Join ==
    /\ cmd.mode # "none" /\ cmd.exit = -1
    /\ \A n \in Nodes : thread[n].pc = "off"
    /\ cmd' = [cmd EXCEPT !.exit = ExitStatus]
    /\ UNCHANGED <<node, thread, results, crashes>>

(* systemd, Restart=on-failure: the agent comes back with what lies on disk. *)
AgentFails(n) ==
    /\ crashes < MaxCrashes /\ node[n].active
    /\ crashes' = crashes + 1
    /\ \E active \in BOOLEAN : node' = [node EXCEPT ![n] = Booted(n, active)]
    /\ UNCHANGED <<cmd, thread, results>>

SyncNext ==
    \/ /\ cmd.mode = "none"
       /\ \E mode \in {"sync", "dry", "status", "list"}, restart, deps, env \in BOOLEAN,
             named \in SUBSET (Nodes \cup {Unknown}), local \in SUBSET Dirs :
               (env => named # {}) /\ Command(mode, restart, deps, named, env, local)
    \/ \E n \in Nodes :
        \/ Connect(n) \/ Clean(n) \/ Put(n) \/ UvSync(n)
        \/ Restart(n) \/ IsActive(n) \/ Abort(n) \/ AgentFails(n)
    \/ Join

(***************************************************************************)
(* Properties.                                                             *)
(***************************************************************************)
(* The command and its threads keep to the inventory and the tree: a       *)
(* thread is at one of its directories, a result is one of a known node.   *)
SyncTypeOK ==
    /\ cmd.exit \in -1..1 /\ cmd.selected \subseteq Nodes
    /\ DOMAIN results \subseteq Nodes
    /\ \A n \in Nodes : thread[n].at \in Dirs /\ node[n].tree \in [Dirs -> {"old", "new"}]

(* Exit status 0 of a real sync means that every known node that was named *)
(* holds the new files and, if it was to be restarted, runs nothing else,  *)
(* even when its agent fails and systemd restarts it, and that no entry is *)
(* left which the repository has not, save where a removal failed and was  *)
(* swallowed; a node named as an argument was known (main, sync_node,      *)
(* _sftp_upload_dir).                                                      *)
ExitHonest ==
    cmd.mode = "sync" /\ cmd.exit = 0 =>
        /\ ~cmd.env => cmd.named \subseteq Nodes
        /\ \A n \in cmd.selected :
            /\ Synced(n)
            /\ cmd.restart => \A d \in Dirs \ Missing : node[n].code[d] = "new"
            /\ cmd.deps => node[n].venv = "new"
            /\ node[n].swallowed \/ \A d \in Dirs \ Missing : node[n].stale[d] = {}

(* The command never restarts an agent on a tree it has copied only in     *)
(* part, or before the dependencies asked for are in (sync_node's returns). *)
NoHalfRestart ==
    \A n \in Nodes : node[n].restarted =>
        Synced(n) /\ (cmd.deps => node[n].venv = "new")

=============================================================================
