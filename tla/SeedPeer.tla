------------------------------- MODULE SeedPeer -------------------------------
(***************************************************************************)
(* scripts/seed_slave.sh: the runs of the script that are under way, and   *)
(* the binaries of the peers they write.  A build is the set of commits it *)
(* was made of.  The sync of sources, models, configuration and unit files *)
(* is left out, but for the exits in it.                                   *)
(***************************************************************************)
EXTENDS FiniteSets

CONSTANTS Peers,      \* the enabled peers
          Seeds,      \* the runs of the script that can be under way
          Commits,    \* the commits that can be made
          Unhealthy,  \* those with which a build passes its tests and does not come up
          NoPeer

ASSUME SeedAssumption == /\ Unhealthy \subseteq Commits
                         /\ NoPeer \notin Peers

VARIABLES built,     \* target/release of the master
          binary,    \* what is installed on each peer
          previous,  \* the rollback copy of each peer
          running,   \* what the service of each peer was last started from
          doubt,     \* history: peers where, since a seed last succeeded, a copy was
                     \* skipped, or a script ended between its copy and its verdict
          step,      \* where each run of the script is
          target     \* the peer it seeds

peerVars == <<binary, previous, running, doubt>>
seedVars == <<step, target>>

Builds == SUBSET Commits
Comes(build) == build \cap Unhealthy = {}
Steps == {"free", "backup", "copy", "restart", "verify", "rollback", "restartOld",
          "recheck", "succeeded", "failed"}
Seeding(s) == step[s] \notin {"free", "succeeded", "failed"}

SeedTypeOK == /\ built \in Builds
              /\ binary \in [Peers -> Builds]
              /\ previous \in [Peers -> Builds]
              /\ running \in [Peers -> Builds]
              /\ doubt \subseteq Peers
              /\ step \in [Seeds -> Steps]
              /\ target \in [Seeds -> Peers \cup {NoPeer}]
              /\ \A s \in Seeds : target[s] = NoPeer <=> step[s] = "free"

(* The peers have been seeded before: a rollback copy is there, and from    *)
(* then on always (without one the cp of the rollback does nothing).        *)
SeedInit == /\ built = {}
            /\ binary = [p \in Peers |-> {}]
            /\ previous = [p \in Peers |-> {}]
            /\ running = [p \in Peers |-> {}]
            /\ doubt = {}
            /\ step = [s \in Seeds |-> "free"]
            /\ target = [s \in Seeds |-> NoPeer]

-----------------------------------------------------------------------------
SeedGoto(s, from, to) == /\ step[s] = from
                         /\ step' = [step EXCEPT ![s] = to]
                         /\ UNCHANGED <<built, target>>

Launch(s, p) == /\ step[s] = "free"
                /\ step' = [step EXCEPT ![s] = "backup"]
                /\ target' = [target EXCEPT ![s] = p]

(* What the commands of the script do to a peer.                            *)
BackedUp(p)  == /\ previous' = [previous EXCEPT ![p] = binary[p]]
                /\ UNCHANGED <<binary, running>>
Installed(p) == /\ binary' = [binary EXCEPT ![p] = built]
                /\ UNCHANGED <<previous, running>>
Restored(p)  == /\ binary' = [binary EXCEPT ![p] = previous[p]]
                /\ UNCHANGED <<previous, running>>
Started(p)   == /\ running' = [running EXCEPT ![p] = binary[p]]
                /\ UNCHANGED <<binary, previous>>
Untouched    == UNCHANGED <<binary, previous, running>>

(* `cp ... || true`: a full disk, or the text of a process that runs, and   *)
(* the script goes on all the same.                                         *)
CopySkipped(p) == Untouched /\ doubt' = doubt \cup {p}

(* A bug the checks must notice: the copy is taken after the new binary.    *)
BackupLate(s) == /\ SeedGoto(s, "backup", "copy")
                 /\ previous' = [previous EXCEPT ![target[s]] = built]
                 /\ UNCHANGED <<binary, running, doubt>>

Backup(s) == /\ SeedGoto(s, "backup", "copy")
             /\ \/ BackedUp(target[s]) /\ UNCHANGED doubt
                \/ CopySkipped(target[s])

CopyBinary(s) == /\ SeedGoto(s, "copy", "restart")
                 /\ Installed(target[s])
                 /\ UNCHANGED doubt

(* systemctl restart, of what is installed, after the rest is synced.       *)
Restart(s) == /\ SeedGoto(s, "restart", "verify")
              /\ Started(target[s])
              /\ UNCHANGED doubt

(* Healthy within 180 s, and the commands that report it work or fail; or   *)
(* not: the build does not come up, comes up late, or ssh does not work.    *)
Verify(s) == /\ Untouched
             /\ \/ /\ SeedGoto(s, "verify", "succeeded")
                   /\ Comes(running[target[s]])
                   /\ doubt' = doubt \ {target[s]}
                \/ /\ SeedGoto(s, "verify", "failed")
                   /\ Comes(running[target[s]])
                   /\ UNCHANGED doubt
                \/ SeedGoto(s, "verify", "rollback") /\ UNCHANGED doubt

RollBack(s) == /\ SeedGoto(s, "rollback", "restartOld")
               /\ \/ Restored(target[s]) /\ UNCHANGED doubt
                  \/ CopySkipped(target[s])

RestartOld(s) == /\ SeedGoto(s, "restartOld", "recheck")
                 /\ Started(target[s])
                 /\ UNCHANGED doubt

(* The script fails whether the rollback came up or not.                    *)
Recheck(s) == SeedGoto(s, "recheck", "failed") /\ UNCHANGED peerVars

SeedRuns(s) == \/ Backup(s) \/ CopyBinary(s) \/ Restart(s) \/ Verify(s)
               \/ RollBack(s) \/ RestartOld(s) \/ Recheck(s)

(* What becomes of the peer when the script ends where it is: the command   *)
(* under way has done its work or not.                                      *)
CutShort(s) ==
  /\ \/ step[s] = "backup" /\ BackedUp(target[s])
     \/ step[s] = "copy" /\ Installed(target[s])
     \/ step[s] = "rollback" /\ Restored(target[s])
     \/ step[s] \in {"restart", "restartOld"} /\ Started(target[s])
     \/ Untouched
  /\ doubt' = IF step[s] \in {"copy", "restart", "verify", "rollback", "restartOld"}
                THEN doubt \cup {target[s]} ELSE doubt

(* set -e: a command of the preflight, of a sync or of ssh fails, or there  *)
(* is no model on the peer, and the script ends where it is.                *)
Break(s) == /\ step[s] \in {"backup", "copy", "restart", "rollback", "restartOld"}
            /\ SeedGoto(s, step[s], "failed")
            /\ CutShort(s)

(* Restart=always: the unit is started again, after a crash or a reboot.    *)
PeerRestarts(p) == /\ Started(p)
                   /\ UNCHANGED <<built, doubt, seedVars>>

(* The process is gone: its parent has its exit code, or killed it.         *)
Gone(s) == /\ step' = [step EXCEPT ![s] = "free"]
           /\ target' = [target EXCEPT ![s] = NoPeer]
=============================================================================
