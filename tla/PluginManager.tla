---------------------------- MODULE PluginManager ----------------------------
(***************************************************************************)
(* plugins/: the manager, and its one plugin, an SMTP server run by a      *)
(* background task. Calls of the manager are coroutines of one event loop: *)
(* they are atomic up to the one place where a call waits, for the server  *)
(* task it has cancelled. A controller is a listener of aiosmtpd.          *)
(***************************************************************************)
EXTENDS Integers, Sequences

CONSTANTS
  Callers,        \* coroutines that call the manager
  Ports,          \* ports a configuration names
  MaxTasks        \* bound: server tasks in one behaviour
ASSUME PluginAssumption == MaxTasks \in Nat

VARIABLES
  plugin,         \* the plugin: is_running, its server and server task, its port
  active,         \* occurrences of its name in active_plugins
  servers,        \* SMTPServerRunner objects made: port and controller
  tasks,          \* server tasks made: server, status, whether cancelled
  calls,          \* per caller, the call that waits
  taken,          \* ports another program listens on
  overlapped      \* history: a call began while another was waiting

pluginVars == <<plugin, active, servers, tasks, calls, taken, overlapped>>

Idle == [op |-> "none", task |-> 0, old |-> 0]
Loaded == plugin.server # 0
Quiet == \A c \in Callers : calls[c] = Idle
Done(t) == tasks[t].status \in {"failed", "ended"}
Listening(s) == servers[s].controller = "up"
Busy(port) == port \in taken \/ \E s \in DOMAIN servers : Listening(s) /\ servers[s].port = port

Server(port) == [port |-> port, controller |-> "none"]
Task(s) == [server |-> s, status |-> "new", cancelled |-> FALSE]

PluginInit ==
  /\ plugin = [running |-> FALSE, server |-> 0, task |-> 0, port |-> 0]
  /\ active = 0 /\ servers = <<>> /\ tasks = <<>>
  /\ calls = [c \in Callers |-> Idle]
  /\ taken = {} /\ overlapped = FALSE
-----------------------------------------------------------------------------
\* load_plugin: initialize makes the server; a second call finds it loaded.
LoadPlugin(port) ==
  /\ ~Loaded
  /\ servers' = Append(servers, Server(port))
  /\ plugin' = [plugin EXCEPT !.server = Len(servers) + 1, !.port = port]
  /\ UNCHANGED <<active, tasks, calls, taken, overlapped>>

\* start_plugin: the plugin runs once its task exists, whatever becomes of it.
StartPlugin ==
  /\ Loaded /\ ~plugin.running /\ Len(tasks) < MaxTasks
  /\ tasks' = Append(tasks, Task(plugin.server))
  /\ plugin' = [plugin EXCEPT !.running = TRUE, !.task = Len(tasks) + 1]
  /\ active' = active + 1
  /\ overlapped' = (overlapped \/ ~Quiet)
  /\ UNCHANGED <<servers, calls, taken>>

\* run_forever begins: a cancelled one never does, and a port that is taken ends it.
RunForever(t) ==
  /\ tasks[t].status = "new"
  /\ LET s == tasks[t].server
         status == IF tasks[t].cancelled THEN "ended"
                   ELSE IF Busy(servers[s].port) THEN "failed" ELSE "up"
     IN /\ tasks' = [tasks EXCEPT ![t].status = status]
        /\ servers' = IF status = "ended" THEN servers
                      ELSE [servers EXCEPT ![s].controller = status]
  /\ UNCHANGED <<plugin, active, calls, taken, overlapped>>

\* run_forever's finally: the controller is stopped, for the first time.
RunEnds(t) ==
  /\ tasks[t].status = "up" /\ tasks[t].cancelled
  /\ tasks' = [tasks EXCEPT ![t].status = "ended"]
  /\ servers' = [servers EXCEPT ![tasks[t].server].controller = "down"]
  /\ UNCHANGED <<plugin, active, calls, taken, overlapped>>

(***************************************************************************)
(* The rest of SMTPPlugin.stop, and of its caller, after the wait for task *)
(* t. What the task failed with is raised, and so is stopping a controller *)
(* that is stopped: stop_plugin logs it, reload_config puts the earlier    *)
(* configuration back and raises it; is_running stays TRUE. The server is  *)
(* the plugin's at this moment, not the one the wait was for.              *)
(***************************************************************************)
Raises(t) == tasks[t].status = "failed" \/ servers[plugin.server].controller = "down"

Stopped ==
  IF servers[plugin.server].controller = "none" THEN servers
  ELSE [servers EXCEPT ![plugin.server].controller = "down"]

AfterWait(op, t, old, new) ==
  IF Raises(t)
  THEN /\ plugin' = IF op = "reload" THEN [plugin EXCEPT !.port = old] ELSE plugin
       /\ UNCHANGED <<active, servers, tasks>>
  ELSE \/ /\ op = "stop"
          /\ servers' = Stopped
          /\ plugin' = [plugin EXCEPT !.running = FALSE]
          /\ active' = IF active > 0 THEN active - 1 ELSE 0
          /\ UNCHANGED tasks
       \/ /\ op = "reload" /\ Len(tasks) < MaxTasks
          /\ servers' = Append(Stopped, Server(new))
          /\ tasks' = Append(tasks, Task(Len(servers) + 1))
          /\ plugin' = [plugin EXCEPT !.running = TRUE, !.port = new,
                                      !.server = Len(servers) + 1, !.task = Len(tasks) + 1]
          /\ UNCHANGED active

\* Seeded fault: a reload starts anew without stopping what runs.
CancelTaskForStop(c, op, port) ==
  /\ Loaded /\ plugin.running /\ calls[c] = Idle /\ op = "reload" /\ Len(tasks) < MaxTasks
  /\ servers' = Append(servers, Server(port))
  /\ tasks' = Append(tasks, Task(Len(servers) + 1))
  /\ plugin' = [plugin EXCEPT !.server = Len(servers) + 1, !.task = Len(tasks) + 1]
  /\ UNCHANGED <<active, calls, overlapped, taken>>
\* stop_plugin, stop_plugins and reload_plugin_config on a plugin that runs.
CancelTask(c, op, port) ==
  /\ Loaded /\ plugin.running /\ calls[c] = Idle
  /\ ~Done(plugin.task)
  /\ tasks' = [tasks EXCEPT ![plugin.task].cancelled = TRUE]
  /\ calls' = [calls EXCEPT ![c] = [op |-> op, task |-> plugin.task, old |-> plugin.port]]
  /\ plugin' = IF op = "reload" THEN [plugin EXCEPT !.port = port] ELSE plugin
  /\ overlapped' = (overlapped \/ ~Quiet)
  /\ UNCHANGED <<active, servers, taken>>

\* A task that is done is not waited for.
AtOnce(c, op, port) ==
  /\ Loaded /\ plugin.running /\ calls[c] = Idle /\ Done(plugin.task)
  /\ AfterWait(op, plugin.task, plugin.port, port)
  /\ overlapped' = (overlapped \/ ~Quiet)
  /\ UNCHANGED <<calls, taken>>

TaskAwaited(c) ==
  /\ calls[c] # Idle /\ Done(calls[c].task)
  /\ AfterWait(calls[c].op, calls[c].task, calls[c].old, plugin.port)
  /\ calls' = [calls EXCEPT ![c] = Idle]
  /\ UNCHANGED <<taken, overlapped>>

\* A plugin that does not run takes the configuration, and its server keeps the old.
ReloadIdle(port) ==
  /\ Loaded /\ ~plugin.running
  /\ plugin' = [plugin EXCEPT !.port = port]
  /\ UNCHANGED <<active, servers, tasks, calls, taken, overlapped>>

\* Another program takes a port that is free, or leaves it.
OtherProgram(port) ==
  /\ ~\E s \in DOMAIN servers : Listening(s) /\ servers[s].port = port
  /\ taken' = IF port \in taken THEN taken \ {port} ELSE taken \cup {port}
  /\ UNCHANGED <<plugin, active, servers, tasks, calls, overlapped>>

PluginNext ==
  \/ \E port \in Ports : LoadPlugin(port) \/ ReloadIdle(port) \/ OtherProgram(port)
  \/ StartPlugin
  \/ \E c \in Callers, op \in {"stop", "reload"}, port \in Ports :
       CancelTask(c, op, port) \/ AtOnce(c, op, port)
  \/ \E c \in Callers : TaskAwaited(c)
  \/ \E t \in DOMAIN tasks : RunForever(t) \/ RunEnds(t)

(***************************************************************************)
(* Properties.                                                             *)
(***************************************************************************)

\* As long as calls do not overlap, whatever listens is the server of a plugin
\* that runs, so that a stop reaches it (a stop and a reload at once leave a server
\* nothing refers to, SMTPPlugin.stop and BasePlugin.reload_config).
NoOrphan ==
  overlapped \/ \A s \in DOMAIN servers :
                  Listening(s) => plugin.running /\ s = plugin.server

\* The manager lists the plugin once at most, and only while it runs, over any
\* sequence of start, stop and reload; while calls do not overlap it lists whatever
\* runs (a reload that waits beside a stop starts the plugin anew without listing
\* it: active_plugins and is_running are kept by two objects).
ListedWhileRunning ==
  /\ active <= IF plugin.running THEN 1 ELSE 0
  /\ overlapped \/ (plugin.running => active = 1)

\* Whatever listens is served by a task that has not ended, also when calls overlap
\* (SMTPServerRunner.run_forever stops its controller before it ends).
ListenerHasTask ==
  \A s \in DOMAIN servers :
    Listening(s) => \E t \in DOMAIN tasks : tasks[t].server = s /\ tasks[t].status = "up"

\* Manager, plugin, background task and listener stay in step over every sequence
\* of calls (plugins/manager.py:66-160, plugins/smtp/plugin.py:35-63).
PluginInStep == NoOrphan /\ ListedWhileRunning /\ ListenerHasTask
=============================================================================
