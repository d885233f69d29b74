-------------------------- MODULE DesktopLifecycle --------------------------
(***************************************************************************)
(* The engine process as the desktop application keeps it                  *)
(* (src/desktop/src-tauri/src/lib.rs and process.rs).  Every command runs  *)
(* under one mutex, except start_engine_now, which gives the mutex up      *)
(* while it dry-runs the routing file and takes it again to spawn; the     *)
(* autostart thread and the start command both run it.  Engines boot, bind *)
(* the listen port or die on their own, and another program may hold the   *)
(* port.  A command under the mutex is one step: what the engine processes *)
(* do meanwhile happens before or after it.  The manager's state is what   *)
(* the window shows and no command reads: it is left out.                  *)
(***************************************************************************)
EXTENDS Naturals

CONSTANTS Starter,        \* threads that run start_engine_now
          Engine,         \* processes the application may spawn
          NoEngine,       \* no engine, and no start whose dry run is on
          MaxSaves,       \* bound: how often the configuration is written
          NetstatFinds    \* whether pid_listening_on finds the listener (Windows)

\* What is asked of the constants
ASSUME DesktopAssumption ==
    /\ NoEngine \notin Engine
    /\ NoEngine \notin 0 .. MaxSaves
    /\ MaxSaves \in Nat
    /\ NetstatFinds \in BOOLEAN

VARIABLES app,       \* the manager and the processes it acts on
          env,       \* per starter: NoEngine, or the configuration its environment was loaded for
          written,   \* version of routes.toml and maskclaw.toml
          boot,      \* per engine: <<environment loaded for, files read>>
          exit,      \* running, or stopped once the exit handler has run
          overtaken, \* starters whose unlocked dry run another command overtook
          stale,     \* engines that an overtaken start spawned
          abandoned, \* engines that an overtaken start dropped while they were alive
          spared,    \* engines the system refused to kill, or spawned after the last stop
          unsynced   \* a save returned an error after it wrote a file

desktopVars == <<app, env, written, boot, exit, overtaken, stale, abandoned, spared, unsynced>>

DesktopInit ==
    /\ app = [child |-> NoEngine, foreign |-> FALSE,
              process |-> [e \in Engine |-> "unborn"]]
    /\ env = [s \in Starter |-> NoEngine]
    /\ written = 0
    /\ boot = [e \in Engine |-> <<0, 0>>]
    /\ exit = "running"
    /\ overtaken = {}
    /\ stale = {}
    /\ abandoned = {}
    /\ spared = {}
    /\ unsynced = FALSE

Live(a, e) == a.process[e] \in {"booting", "serving"}
listen_port_busy(a) == a.foreign \/ \E e \in Engine : a.process[e] = "serving"

\* kill_pid on whoever listens, and the wait for the port: without a pid, nothing.
free_listen_port(a) ==
    IF ~listen_port_busy(a) \/ ~NetstatFinds THEN a
    ELSE [a EXCEPT !.foreign = FALSE,
                   !.process = [e \in Engine |-> IF @[e] = "serving" THEN "gone" ELSE @[e]]]

\* A child that exited is forgotten when it is next asked about.
child_is_live(a) == a.child # NoEngine /\ Live(a, a.child)
Forgotten(a) == IF child_is_live(a) THEN a ELSE [a EXCEPT !.child = NoEngine]

mark_failed(a) == [a EXCEPT !.child = NoEngine]

(***************************************************************************)
(* The locked parts, each as the set of ways it can end.                   *)
(***************************************************************************)
Ended(how, a) == [how |-> how, app |-> a]

\* ProcessManager::stop; a kill the system refuses leaves the child attached.
stop(a) ==
    IF a.child = NoEngine THEN {Ended("ok", a)}
    ELSE {Ended("ok", [a EXCEPT !.child = NoEngine, !.process[a.child] = "gone"])}
         \cup IF Live(a, a.child) THEN {Ended("refused", a)} ELSE {}

\* No routing file, or a keyring that cannot be read, ends the start as it is.
prepare_start(a) ==
    LET known == Forgotten(a)
        ready == free_listen_port(known)
    IN  IF child_is_live(a) THEN {Ended("finished", a)}
        ELSE {Ended("error", ready), Ended("spawn", ready)}

Unborn(a) == {e \in Engine : a.process[e] = "unborn"}

\* The previous child, if any, is dropped; dropping it does not kill it.
attach_running(a, e) == [a EXCEPT !.child = e, !.process[e] = "booting"]

\* Without a server binary it ends before it can mark anything failed.
spawn_locked(a) ==
    LET ready == free_listen_port(a)
    IN  {Ended("error", ready), Ended("error", mark_failed(ready))}
        \cup IF Unborn(a) = {} THEN {}
             ELSE {Ended("spawned", attach_running(ready, CHOOSE e \in Unborn(a) : TRUE))}

\* With the dry run inside the lock, as restarts and saves do it.
start_locked_with_dry_run(a, dry_run) ==
    UNION {IF p.how # "spawn" THEN {p}
           ELSE spawn_locked(p.app)
                \cup (IF dry_run THEN {Ended("error", mark_failed(p.app))} ELSE {})
           : p \in prepare_start(a)}

\* A restart that starts without stopping first.
restart_locked_with_dry_run_NoStop(a, dry_run) == start_locked_with_dry_run(a, dry_run)

restart_locked_with_dry_run(a, dry_run) ==
    UNION {IF s.how = "ok" THEN start_locked_with_dry_run(s.app, dry_run) ELSE {s}
           : s \in stop(a)}

(***************************************************************************)
(* Commands.  Taking the lock overtakes every start whose dry run is on.   *)
(* None of them asks whether the application is quitting: one that waits   *)
(* for the lock may get it after the exit handler's stop.                  *)
(***************************************************************************)
InDryRun == {s \in Starter : env[s] # NoEngine}
TakeLock(who) == overtaken' = (overtaken \cup InDryRun) \ who

\* What a command leaves: the application, and the engine it spawned, if any.
Leaves(end, for) ==
    /\ app' = end.app
    /\ spared' = IF end.how = "refused" \/ (end.how = "spawned" /\ exit = "stopped")
                 THEN spared \cup {end.app.child} ELSE spared
    /\ IF end.how = "spawned"
       THEN boot' = [boot EXCEPT ![end.app.child] = <<for, @[2]>>]
       ELSE UNCHANGED boot

\* What a start that was overtaken does to the engine it finds, and the engine it spawns.
Overtakes(s) ==
    /\ abandoned' = abandoned \cup
           {e \in Engine : s \in overtaken /\ app.child = e /\ Live(app', e) /\ app'.child # e}
    /\ stale' = stale \cup
           {e \in Engine : s \in overtaken /\ app.process[e] = "unborn" /\ Live(app', e)}

\* start_engine_now up to the point where it gives the lock up.
Prepare(s) ==
    /\ env[s] = NoEngine
    /\ \E end \in prepare_start(app) :
          /\ Leaves(end, written)
          /\ env' = [env EXCEPT ![s] = IF end.how = "spawn" THEN written ELSE NoEngine]
    /\ TakeLock({s})
    /\ UNCHANGED <<written, exit, stale, abandoned, unsynced>>

\* Its dry run failed or timed out: mark_failed, whatever happened meanwhile.
DryRunFails(s) ==
    /\ env[s] # NoEngine
    /\ app' = mark_failed(app)
    /\ env' = [env EXCEPT ![s] = NoEngine]
    /\ TakeLock({s})
    /\ Overtakes(s)
    /\ UNCHANGED <<written, boot, exit, spared, unsynced>>

\* Its dry run passed: the lock again, and the spawn without a second look.
Spawn(s) ==
    /\ env[s] # NoEngine
    /\ \E end \in spawn_locked(app) :
          /\ Leaves(end, env[s])
          /\ unsynced' = (unsynced /\ (end.how # "spawned" \/ s \in overtaken))
    /\ env' = [env EXCEPT ![s] = NoEngine]
    /\ TakeLock({s})
    /\ Overtakes(s)
    /\ UNCHANGED <<written, exit>>

StopEngine ==
    /\ \E end \in stop(app) : Leaves(end, written)
    /\ TakeLock({})
    /\ UNCHANGED <<env, written, exit, stale, abandoned, unsynced>>

Restart ==
    /\ \E end \in restart_locked_with_dry_run(app, TRUE) :
          /\ Leaves(end, written)
          /\ unsynced' = (unsynced /\ end.how # "spawned")
    /\ TakeLock({})
    /\ UNCHANGED <<env, written, exit, stale, abandoned>>

\* write_toml_and_restart, and the sidecar save that skips the dry run.
Save(dry_run) ==
    /\ written < MaxSaves
    /\ written' = written + 1
    /\ \E end \in restart_locked_with_dry_run(app, dry_run) :
          /\ Leaves(end, written')
          /\ unsynced' = (end.how \in {"error", "refused"})
    /\ TakeLock({})
    /\ UNCHANGED <<env, exit, stale, abandoned>>

\* The routing file is written, then the sidecar or the settings file cannot be.
SaveFailsHalfway ==
    /\ written < MaxSaves
    /\ written' = written + 1
    /\ unsynced' = TRUE
    /\ TakeLock({})
    /\ UNCHANGED <<app, env, boot, exit, stale, abandoned, spared>>

\* The exit handler's stop.  Quit in the tray is StopEngine, and then this.  When the process
\* is gone, nothing more of the application happens.
Quit ==
    /\ exit = "running"
    /\ \E end \in stop(app) : Leaves(end, written)
    /\ exit' = "stopped"
    /\ TakeLock({})
    /\ UNCHANGED <<env, written, stale, abandoned, unsynced>>

(***************************************************************************)
(* The engine processes and the rest of the machine.                       *)
(***************************************************************************)
\* switchyard-server reads its files, then binds; a taken port ends it.
Boot(e) ==
    /\ app.process[e] = "booting"
    /\ app' = [app EXCEPT !.process[e] = IF listen_port_busy(app) THEN "gone" ELSE "serving"]
    /\ boot' = [boot EXCEPT ![e][2] = written]
    /\ UNCHANGED <<env, written, exit, overtaken, stale, abandoned, spared, unsynced>>

Die(e) ==
    /\ Live(app, e)
    /\ app' = [app EXCEPT !.process[e] = "gone"]
    /\ UNCHANGED <<env, written, boot, exit, overtaken, stale, abandoned, spared, unsynced>>

Foreign ==
    /\ app.foreign \/ ~listen_port_busy(app)
    /\ app' = [app EXCEPT !.foreign = ~@]
    /\ UNCHANGED <<env, written, boot, exit, overtaken, stale, abandoned, spared, unsynced>>

DesktopNext ==
    \/ \E s \in Starter : Prepare(s) \/ DryRunFails(s) \/ Spawn(s)
    \/ StopEngine
    \/ Restart
    \/ \E dry_run \in BOOLEAN : Save(dry_run)
    \/ SaveFailsHalfway
    \/ Quit
    \/ \E e \in Engine : Boot(e) \/ Die(e)
    \/ Foreign

DesktopSpec == DesktopInit /\ [][DesktopNext]_desktopVars

-----------------------------------------------------------------------------

\* An engine that is alive is the one the manager holds, unless a start that another command
\* overtook in its unlocked dry run dropped it (attach_running and mark_failed forget the child
\* they find and kill nothing: process.rs).  After the exit handler's stop the one it holds is
\* an engine whose kill the system refused, or one that a command spawned which got the mutex
\* after that stop.
NoEngineLost ==
    \A e \in Engine : Live(app, e) =>
        \/ e \in abandoned
        \/ app.child = e /\ (exit = "stopped" => e \in spared)

\* The engine that serves has read the files last saved and got the keys that those files name,
\* unless the save that wrote them returned an error, or the engine was spawned or dropped by an
\* overtaken start: no other command leaves an engine of an earlier configuration behind the
\* port and reports success (src-tauri lib.rs, write_toml_and_restart).
ServesWhatWasSaved ==
    \A e \in Engine :
        app.process[e] = "serving" => \/ boot[e] = <<written, written>>
                                     \/ unsynced
                                     \/ e \in stale \cup abandoned

\* The desktop application loses no engine process but to an overtaken start, a refused kill or
\* a command behind the last stop, and but for those the engine serves the configuration that
\* was saved (src-tauri lib.rs).
DesktopSound == NoEngineLost /\ ServesWhatWasSaved

\* The settings page says of a save: "Save dry-runs the file, then restarts the engine."
\* (src/desktop/src/components/Settings.tsx:81): what serves after a save that reported success
\* was started with that save's keys and files.
SavedIsServed ==
    \A e \in Engine :
        app.process[e] = "serving" /\ ~unsynced => boot[e] = <<written, written>>
=============================================================================
