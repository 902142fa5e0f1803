--------------------------- MODULE SecretsRotation ---------------------------
(***************************************************************************)
(* One container of the service and its secrets file.  The container       *)
(* command sources the file and starts node; the process reads the file    *)
(* again as its baseline, polls it by path and exits when the content has   *)
(* changed, so that the restart sources the new one (secrets-rotation.ts). *)
(* The agent that writes the file, the shell and fs.watchFile are external *)
(* and modelled as the code's comments and Node's documentation use them.  *)
(***************************************************************************)
EXTENDS Naturals

CONSTANTS
  Versions,    \* contents of the file
  Absent,      \* no file
  MaxChanges   \* bound: rotations and removals by the agent

ASSUME SecretsAssumption == Absent \notin Versions /\ MaxChanges \in Nat

VARIABLES
  agent,       \* there is a sidecar that keeps the file
  pathSet,     \* SECRETS_FILE is set
  file,        \* content at the path, or Absent
  stamp,       \* identity (inode, times) of the last file written
  changes,     \* bookkeeping: changes made so far
  phase,       \* "down", "sourced" (the command ran the file), "running"
  env,         \* secrets in the environment of the process
  lastContent, \* lastContent of registerSecretsRotationRestart
  restarting,  \* its latch
  watch,       \* fs.watchFile: "off", "starting" (first stat pending), "on"
  seen,        \* the stat it has reported last
  due,         \* calls of the listener that are due: callbacks and retries
  closes,      \* history: calls of app.close() in this process,
  restarts,    \* and in all processes so far
  written,     \* history: the content written last, also while there is no file,
  rotations    \* and how often it was another one than before

fileVars == <<agent, pathSet, file, stamp, changes, written, rotations>>
procVars == <<phase, env, lastContent, restarting, watch, seen, due, closes, restarts>>
vars == <<agent, pathSet, file, stamp, changes, written, rotations,
          phase, env, lastContent, restarting, watch, seen, due, closes, restarts>>

Contents == Versions \cup {Absent}

\* What stat returns: all zero for a path that does not exist.
Stat == IF file = Absent THEN 0 ELSE stamp

(***************************************************************************)
(* The sidecar.                                                            *)
(***************************************************************************)
\* Atomic rename of a new file over the old one, at any time; a removed file comes back.
Rotate(v) ==
  /\ agent
  /\ changes < MaxChanges \/ file = Absent
  /\ file' = v
  /\ stamp' = stamp + 1
  /\ changes' = IF changes < MaxChanges THEN changes + 1 ELSE changes
  /\ written' = v
  /\ rotations' = IF v = written THEN rotations ELSE rotations + 1
  /\ UNCHANGED <<agent, pathSet>> /\ UNCHANGED procVars

\* Delete+recreate window.
Remove ==
  /\ agent
  /\ file # Absent
  /\ changes < MaxChanges
  /\ file' = Absent
  /\ changes' = changes + 1
  /\ UNCHANGED <<agent, pathSet, stamp, written, rotations>> /\ UNCHANGED procVars

(***************************************************************************)
(* The process.                                                            *)
(***************************************************************************)
\* The container command sources the file before exec.
Source ==
  /\ phase = "down"
  /\ agent => file # Absent
  /\ phase' = "sourced"
  /\ env' = file
  /\ UNCHANGED fileVars
  /\ UNCHANGED <<lastContent, restarting, watch, seen, due, closes, restarts>>

Exits ==
  /\ phase' = "down"
  /\ env' = Absent
  /\ lastContent' = Absent
  /\ restarting' = FALSE
  /\ watch' = "off"
  /\ seen' = 0
  /\ due' = 0
  /\ closes' = 0
  /\ UNCHANGED restarts

\* registerSecretsRotationRestart reads the baseline and starts the watch.
Register ==
  /\ phase = "sourced"
  /\ file # Absent
  /\ phase' = "running"
  /\ lastContent' = file
  /\ watch' = "starting"
  /\ UNCHANGED fileVars
  /\ UNCHANGED <<env, restarting, seen, due, closes, restarts>>

\* The baseline cannot be read, because there is no file or for another reason: no watch
\* if it is the default path, an exception if SECRETS_FILE names it.
RegisterUnreadable ==
  /\ phase = "sourced"
  /\ IF pathSet
       THEN Exits
       ELSE /\ phase' = "running"
            /\ UNCHANGED <<env, lastContent, restarting, watch, seen, due, closes, restarts>>
  /\ UNCHANGED fileVars

\* The first stat is only remembered, unless the file is not there.
WatchStarts ==
  /\ watch = "starting"
  /\ watch' = "on"
  /\ seen' = Stat
  /\ due' = IF Stat = 0 THEN due + 1 ELSE due
  /\ UNCHANGED fileVars
  /\ UNCHANGED <<phase, env, lastContent, restarting, closes, restarts>>

\* A later stat calls the listener when it differs from the last one.
Poll ==
  /\ watch = "on"
  /\ seen # Stat
  /\ seen' = Stat
  /\ due' = due + 1
  /\ UNCHANGED fileVars
  /\ UNCHANGED <<phase, env, lastContent, restarting, watch, closes, restarts>>

\* Mutant: the content is not compared.
ListenerUncompared ==
  /\ due > 0
  /\ file # Absent
  /\ due' = due - 1
  /\ lastContent' = file
  /\ IF restarting
       THEN UNCHANGED <<restarting, closes, restarts>>
       ELSE restarting' = TRUE /\ closes' = closes + 1 /\ restarts' = restarts + 1
  /\ UNCHANGED fileVars
  /\ UNCHANGED <<phase, env, watch, seen>>

\* The listener reads the file; a changed content restarts, once.
Listener ==
  /\ due > 0
  /\ file # Absent
  /\ due' = due - 1
  /\ lastContent' = file
  /\ IF file = lastContent \/ restarting
       THEN UNCHANGED <<restarting, closes, restarts>>
       ELSE restarting' = TRUE /\ closes' = closes + 1 /\ restarts' = restarts + 1
  /\ UNCHANGED fileVars
  /\ UNCHANGED <<phase, env, watch, seen>>

\* Mutant: the listener gives up.
ListenerGivesUp ==
  /\ due > 0
  /\ due' = due - 1
  /\ UNCHANGED fileVars
  /\ UNCHANGED <<phase, env, lastContent, restarting, watch, seen, closes, restarts>>

\* The file is gone, or the read fails: the listener calls itself again
\* later, so that one call stays due.
ListenerUnreadable == due > 0 /\ UNCHANGED vars

\* app.close() settles, either way, and the process exits.
CloseSettles == restarting /\ Exits /\ UNCHANGED fileVars

\* The force-exit timer fires first.
ForceExit == restarting /\ Exits /\ UNCHANGED fileVars

\* A crash, SIGTERM or SIGINT.
Stop == phase # "down" /\ Exits /\ UNCHANGED fileVars

Init ==
  /\ file \in Contents
  /\ agent \in BOOLEAN /\ (agent <=> file # Absent)
  /\ pathSet \in BOOLEAN
  /\ stamp = 1
  /\ changes = 0
  /\ phase = "down"
  /\ env = Absent
  /\ lastContent = Absent
  /\ restarting = FALSE
  /\ watch = "off"
  /\ seen = 0
  /\ due = 0
  /\ closes = 0 /\ restarts = 0
  /\ written = file /\ rotations = 0

Next ==
  \/ \E v \in Versions : Rotate(v)
  \/ Remove
  \/ Source
  \/ Register
  \/ RegisterUnreadable
  \/ WatchStarts
  \/ Poll
  \/ Listener
  \/ ListenerUnreadable
  \/ CloseSettles
  \/ ForceExit
  \/ Stop

Spec == Init /\ [][Next]_vars

\* watchFile and the timers keep firing while the process lives; nothing is
\* assumed of app.close(), which may hang.
LiveSpec == /\ Spec
            /\ WF_vars(WatchStarts)
            /\ WF_vars(Poll)
            /\ WF_vars(Listener)
            /\ WF_vars(ForceExit)

(***************************************************************************)
(* Properties.                                                             *)
(***************************************************************************)
\* Type invariant of the file, the watch and the process.
TypeOK ==
  /\ agent \in BOOLEAN /\ pathSet \in BOOLEAN
  /\ file \in Contents
  /\ stamp \in Nat \ {0} /\ changes \in Nat
  /\ phase \in {"down", "sourced", "running"}
  /\ env \in Contents /\ lastContent \in Contents
  /\ restarting \in BOOLEAN
  /\ watch \in {"off", "starting", "on"}
  /\ seen \in Nat /\ due \in Nat /\ closes \in Nat
  /\ written \in Contents /\ rotations \in Nat /\ restarts \in Nat

\* However many rotations the watcher reports while a slow app.close() is
\* under way, a process closes its app once (restarting, secrets-rotation.ts).
CloseOnce == closes =< 1

\* A rotation restarts a container once at most, over all the processes that follow each
\* other: a rename with the same content, a removed file that comes back, a late retry, a
\* second change during a slow close or a start in the middle of a rotation never adds a
\* restart, so that there is no restart loop (raw === lastContent, restarting).
NoNeedlessRestart == restarts <= rotations

\* A live process whose environment does not hold the secrets of the file.
Stale == phase = "running" /\ file # Absent /\ file # env

\* The file is not the one of the watcher's last stat, nor its content the last one read.
Noticeable == watch = "on" /\ seen # Stat /\ file # lastContent

\* No process stays alive on stale secrets that it can notice: the poll, the retry of an
\* unreadable file and the forced exit get rid of it even if close() hangs, also if an
\* earlier rotation slipped through its start.  What it cannot notice is a content it has
\* taken for its baseline, a change before the first stat, and anything at all once the
\* read of the baseline has failed at the default path.
StaleSecretsDropped == Stale /\ Noticeable ~> ~Stale \/ (file = lastContent /\ ~restarting)
=============================================================================
