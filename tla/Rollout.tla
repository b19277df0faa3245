------------------------------- MODULE Rollout -------------------------------
(***************************************************************************)
(* How new code reaches the master and its peers: the admin endpoints      *)
(* update and github_sync (omega-server/src/handlers.rs), the pull and     *)
(* push of scripts/github_sync.sh, and seed_slave.sh, which both start.    *)
(* A branch is the set of its commits.  Endpoints serialize on             *)
(* update_lock; a child they started is killed when its budget is spent or *)
(* the client is gone, but not the child's children: a seed_slave.sh, a    *)
(* git merge or a cargo build.                                             *)
(***************************************************************************)
EXTENDS SeedPeer

CONSTANTS Jobs,     \* the calls of an endpoint, or of the script by hand
          Broken,   \* the commits with which the tests fail
          NoJob, NoSeed

ASSUME RolloutAssumption == /\ Broken \subseteq Commits
                            /\ NoJob \notin Jobs
                            /\ NoSeed \notin Seeds

VARIABLES head,      \* HEAD of the master's working copy
          prior,     \* what HEAD was before it last moved: @{1}
          remote,    \* the branch on GitHub
          origin,    \* origin/main: that branch when it was last fetched
          lock,      \* who has update_lock
          kind, at,  \* what each job is, and where
          todo,      \* the peers a job has still to seed
          child,     \* the seed_slave.sh a job is waiting for
          failing,   \* the jobs with a peer that was not seeded well
          answer,    \* what the job that ended last has answered, until one begins
          stray,     \* children of a killed github_sync.sh, still at work
          before,    \* history: HEAD when a pull began
          trusted    \* history: heads committed here, or pulled and verified

gitVars == <<head, prior, remote, origin, stray>>
jobVars == <<lock, kind, at, todo, child, failing, answer, before>>
vars == <<built, binary, previous, running, doubt, step, target,
          head, prior, remote, origin, stray,
          lock, kind, at, todo, child, failing, answer, before, trusted>>

Kinds == {"update", "pull", "forcedPull"}   \* the last is `pull --force` by hand
Pulling(j) == at[j] \in {"merge", "test", "build"}

TypeOK == /\ SeedTypeOK
          /\ {head, prior, remote, origin} \subseteq Builds
          /\ lock \in Jobs \cup {NoJob}
          /\ kind \in [Jobs -> Kinds]
          /\ at \in [Jobs -> {"idle", "lock", "fetch", "merge", "test", "build", "seed"}]
          /\ todo \in [Jobs -> SUBSET Peers]
          /\ child \in [Jobs -> Seeds \cup {NoSeed}]
          /\ failing \subseteq Jobs
          /\ answer \in {"none", "ok", "failed"}
          /\ stray \subseteq {"merge", "build"}
          /\ before \in [Jobs -> Builds]
          /\ trusted \subseteq Builds
          /\ \A j \in Jobs : child[j] # NoSeed => /\ at[j] = "seed"
                                                  /\ target[child[j]] \in todo[j]

Init == /\ SeedInit
        /\ head = {} /\ prior = {} /\ remote = {} /\ origin = {}
        /\ lock = NoJob
        /\ kind = [j \in Jobs |-> "update"]
        /\ at = [j \in Jobs |-> "idle"]
        /\ todo = [j \in Jobs |-> {}]
        /\ child = [j \in Jobs |-> NoSeed]
        /\ failing = {}
        /\ answer = "none"
        /\ stray = {}
        /\ before = [j \in Jobs |-> {}]
        /\ trusted = {{}}

-----------------------------------------------------------------------------
Goto(j, from, to) == /\ at[j] = from
                     /\ at' = [at EXCEPT ![j] = to]

(* The handler returns or is dropped, and the lock guard with it; all that  *)
(* is left of the job is its answer.                                        *)
Finish(j, result) == /\ at' = [at EXCEPT ![j] = "idle"]
                     /\ answer' = result
                     /\ lock' = IF lock = j THEN NoJob ELSE lock
                     /\ todo' = [todo EXCEPT ![j] = {}]
                     /\ child' = [child EXCEPT ![j] = NoSeed]
                     /\ failing' = failing \ {j}
                     /\ kind' = [kind EXCEPT ![j] = "update"]
                     /\ before' = [before EXCEPT ![j] = {}]

MoveHead(h) == /\ head' = h
               /\ prior' = IF h = head THEN prior ELSE head

Request(j, k) == /\ Goto(j, "idle", IF k = "forcedPull" THEN "fetch" ELSE "lock")
                 /\ kind' = [kind EXCEPT ![j] = k]
                 /\ answer' = "none"
                 /\ UNCHANGED <<built, peerVars, seedVars, gitVars, trusted,
                                lock, todo, child, failing, before>>

BeginSeeding(j, from) == Goto(j, from, "seed") /\ todo' = [todo EXCEPT ![j] = Peers]

(* A bug the checks must notice: nobody asks whether the lock is free.      *)
LockShared(j) ==
  /\ \/ kind[j] = "update" /\ BeginSeeding(j, "lock")
     \/ kind[j] = "pull" /\ Goto(j, "lock", "fetch") /\ UNCHANGED todo
  /\ lock' = j
  /\ UNCHANGED <<built, peerVars, seedVars, gitVars, trusted, kind, child, failing, answer, before>>

Lock(j) ==
  /\ lock = NoJob
  /\ lock' = j
  /\ \/ kind[j] = "update" /\ BeginSeeding(j, "lock")
     \/ kind[j] = "pull" /\ Goto(j, "lock", "fetch") /\ UNCHANGED todo
  /\ UNCHANGED <<built, peerVars, seedVars, gitVars, trusted, kind, child, failing, answer, before>>

(********************************* pull *************************************)
(* refresh_divergence, right after git fetch.                               *)
Behind == remote \ head
Ahead  == head \ remote
GitFetch == origin' = remote

(* "already up to date": ok, whatever the peers run.                        *)
UpToDate(j) == /\ at[j] = "fetch"
               /\ Behind = {} /\ kind[j] # "forcedPull"
               /\ GitFetch
               /\ Finish(j, "ok")
               /\ UNCHANGED <<built, peerVars, seedVars, head, prior, remote, stray, trusted>>

Diverged(j) == /\ at[j] = "fetch"
               /\ Behind # {} \/ kind[j] = "forcedPull"
               /\ Ahead # {}
               /\ GitFetch
               /\ Finish(j, "failed")
               /\ UNCHANGED <<built, peerVars, seedVars, head, prior, remote, stray, trusted>>

(* git fetch fails, or there are uncommitted changes, or a protected file   *)
(* is tracked or not ignored.                                               *)
Refused(j) == /\ at[j] = "fetch"
              /\ origin' \in {origin, remote}
              /\ Finish(j, "failed")
              /\ UNCHANGED <<built, peerVars, seedVars, head, prior, remote, stray, trusted>>

(* Forced and up to date: nothing to merge, but verified all the same.      *)
Fetch(j) == /\ Ahead = {}
            /\ \/ Behind # {} /\ Goto(j, "fetch", "merge")
               \/ Behind = {} /\ kind[j] = "forcedPull" /\ Goto(j, "fetch", "test")
            /\ GitFetch
            /\ before' = [before EXCEPT ![j] = head]
            /\ UNCHANGED <<built, peerVars, seedVars, head, prior, remote, stray, trusted,
                           lock, kind, todo, child, failing, answer>>

(* git merge --ff-only origin/main.                                         *)
Merge(j) == /\ Goto(j, "merge", "test")
            /\ head \subseteq origin
            /\ MoveHead(origin)
            /\ UNCHANGED <<built, peerVars, seedVars, remote, origin, stray, trusted,
                           lock, kind, todo, child, failing, answer, before>>

MergeFails(j) == /\ at[j] = "merge"
                 /\ Finish(j, "failed")
                 /\ UNCHANGED <<built, peerVars, seedVars, gitVars, trusted>>

Test(j) == /\ head \cap Broken = {}
           /\ Goto(j, "test", "build")
           /\ UNCHANGED <<built, peerVars, seedVars, gitVars, trusted,
                          lock, kind, todo, child, failing, answer, before>>

(* cargo build --release has succeeded: on to the peers.                    *)
Build(j) == /\ BeginSeeding(j, "build")
            /\ built' = head
            /\ trusted' = trusted \cup {head}
            /\ UNCHANGED <<peerVars, seedVars, gitVars, lock, kind, child, failing, answer, before>>

(* A bug the checks must notice: failing tests end the pull, nothing more.  *)
DieWithoutRollback(j) ==
  /\ at[j] = "test" => head \cap Broken # {}
  /\ at[j] \in {"test", "build"}
  /\ Finish(j, "failed")
  /\ UNCHANGED <<built, peerVars, seedVars, gitVars, trusted>>

(* The tests or the build failed: git reset --hard '@{1}', and die.         *)
RollbackHead(j) == /\ at[j] = "test" => head \cap Broken # {}
                   /\ at[j] \in {"test", "build"}
                   /\ MoveHead(prior)
                   /\ Finish(j, "failed")
                   /\ UNCHANGED <<built, peerVars, seedVars, remote, origin, stray, trusted>>

(*********************** the peers, one after the other *********************)
StartSeed(j) == /\ at[j] = "seed"
                /\ child[j] = NoSeed
                /\ \E p \in todo[j], s \in Seeds : /\ Launch(s, p)
                                                   /\ child' = [child EXCEPT ![j] = s]
                /\ UNCHANGED <<built, peerVars, gitVars, trusted,
                               lock, kind, at, todo, failing, answer, before>>

(* A bug the checks must notice: the job goes on waiting for what is over.  *)
SeededStillWaiting(j) ==
  LET s == child[j]
  IN  /\ s # NoSeed /\ ~Seeding(s)
      /\ Gone(s)
      /\ todo' = [todo EXCEPT ![j] = @ \ {target[s]}]
      /\ UNCHANGED <<built, peerVars, gitVars, trusted, lock, kind, at, child, failing, answer, before>>

(* A bug the checks must notice: the exit code is not looked at.            *)
SeededAnyhow(j) ==
  LET s == child[j]
  IN  /\ s # NoSeed /\ ~Seeding(s)
      /\ Gone(s)
      /\ child' = [child EXCEPT ![j] = NoSeed]
      /\ todo' = [todo EXCEPT ![j] = @ \ {target[s]}]
      /\ UNCHANGED <<built, peerVars, gitVars, trusted, lock, kind, at, failing, answer, before>>

Seeded(j) ==
  LET s == child[j]
  IN  /\ s # NoSeed /\ ~Seeding(s)
      /\ Gone(s)
      /\ child' = [child EXCEPT ![j] = NoSeed]
      /\ todo' = [todo EXCEPT ![j] = @ \ {target[s]}]
      /\ failing' = IF step[s] = "failed" THEN failing \cup {j} ELSE failing
      /\ UNCHANGED <<built, peerVars, gitVars, trusted, lock, kind, at, answer, before>>

(* The report says ok, or that a peer failed.                               *)
AllSeeded(j) == /\ at[j] = "seed"
                /\ todo[j] = {}
                /\ Finish(j, IF j \in failing THEN "failed" ELSE "ok")
                /\ UNCHANGED <<built, peerVars, seedVars, gitVars, trusted>>

(******************************** interruptions *****************************)
(* update.timeout_seconds is over for one peer: its script is killed.       *)
SeedTimesOut(j) ==
  LET s == child[j]
  IN  /\ kind[j] = "update" /\ s # NoSeed
      /\ Gone(s)
      /\ CutShort(s)
      /\ child' = [child EXCEPT ![j] = NoSeed]
      /\ todo' = [todo EXCEPT ![j] = @ \ {target[s]}]
      /\ failing' = failing \cup {j}
      /\ UNCHANGED <<built, gitVars, trusted, lock, kind, at, answer, before>>

(* The client of the endpoint disconnects, or the pull's budget is over:    *)
(* the script is killed; what github_sync.sh has started runs on.           *)
Killed(j) == /\ at[j] # "idle" /\ kind[j] # "forcedPull"
             /\ IF kind[j] = "update" /\ child[j] # NoSeed
                  THEN Gone(child[j]) /\ CutShort(child[j])
                  ELSE UNCHANGED <<seedVars, peerVars>>
             /\ stray' = stray \cup ({at[j]} \cap {"merge", "build"})
             /\ Finish(j, "none")
             /\ UNCHANGED <<built, head, prior, remote, origin, trusted>>

(* The git merge, or the cargo build, of a script that has been killed.     *)
StrayMerge == /\ "merge" \in stray
              /\ stray' = stray \ {"merge"}
              /\ \/ head \subseteq origin /\ MoveHead(origin)
                 \/ UNCHANGED <<head, prior>>
              /\ UNCHANGED <<built, peerVars, seedVars, remote, origin, jobVars, trusted>>

StrayBuild == /\ "build" \in stray
              /\ stray' = stray \ {"build"}
              /\ built' \in {built, head}
              /\ UNCHANGED <<peerVars, seedVars, head, prior, remote, origin, jobVars, trusted>>

OrphanExits(s) == /\ step[s] \in {"succeeded", "failed"}
                  /\ \A j \in Jobs : child[j] # s
                  /\ Gone(s)
                  /\ UNCHANGED <<built, peerVars, gitVars, jobVars, trusted>>

(******************************** development *******************************)
RemoteCommit == /\ \E c \in Commits \ (remote \cup head) : remote' = remote \cup {c}
                /\ UNCHANGED <<built, peerVars, seedVars, head, prior, origin, stray,
                               jobVars, trusted>>

(* Nobody works on the master while a pull has its head in hand: so a       *)
(* fast-forward that was possible when it fetched still is when it merges.  *)
LocalCommit == /\ ~ \E j \in Jobs : Pulling(j)
               /\ \E c \in Commits \ (remote \cup head) : MoveHead(head \cup {c})
               /\ trusted' = trusted \cup {head'}
               /\ UNCHANGED <<built, peerVars, seedVars, remote, origin, stray, jobVars>>

LocalBuild == /\ ~ \E j \in Jobs : Pulling(j)
              /\ built' = head
              /\ UNCHANGED <<peerVars, seedVars, gitVars, jobVars, trusted>>

(* cmd_push fetches, and refuses unless it is a fast-forward of what is     *)
(* there; all that cmd_status changes is what it fetches.                   *)
Push == /\ Ahead # {} /\ Behind = {}
        /\ remote' = head /\ origin' = head
        /\ UNCHANGED <<built, peerVars, seedVars, head, prior, stray, jobVars, trusted>>

Status == /\ GitFetch
          /\ UNCHANGED <<built, peerVars, seedVars, head, prior, remote, stray, jobVars, trusted>>

-----------------------------------------------------------------------------
Script(j) == \/ Lock(j) \/ UpToDate(j) \/ Diverged(j) \/ Refused(j) \/ Fetch(j)
             \/ Merge(j) \/ MergeFails(j) \/ Test(j) \/ Build(j) \/ RollbackHead(j)
             \/ StartSeed(j) \/ Seeded(j) \/ AllSeeded(j)
Calls(kinds) == \E j \in Jobs : (\E k \in kinds : Request(j, k)) \/ Script(j)
Peer == /\ \/ \E s \in Seeds : SeedRuns(s)
           \/ \E p \in Peers : PeerRestarts(p)
        /\ UNCHANGED <<gitVars, jobVars, trusted>>
SeedBreaks(s) == Break(s) /\ UNCHANGED <<gitVars, jobVars, trusted>>
Development == RemoteCommit \/ LocalCommit \/ Push \/ Status
Interruption == \/ \E j \in Jobs : SeedTimesOut(j) \/ Killed(j)
                \/ \E s \in Seeds : OrphanExits(s) \/ SeedBreaks(s)
                \/ StrayMerge \/ StrayBuild

Anything(kinds) == Calls(kinds) \/ Peer \/ Development \/ LocalBuild \/ Interruption

Spec         == Init /\ [][Anything(Kinds)]_vars
EndpointSpec == Init /\ [][Anything({"update", "pull"})]_vars

(* A pull by hand has the master for itself, as a call of an endpoint has.  *)
CallsInTurn ==
  \E j \in Jobs :
    /\ \/ \E k \in {"update", "pull"} : Request(j, k)
       \/ (\A i \in Jobs : at[i] = "idle") /\ Request(j, "forcedPull")
       \/ Script(j)
    /\ \A i \in Jobs \ {j} : kind[i] = "forcedPull" => at[i] = "idle"

(* A seed of an update is given up at any point, a pull neither while it    *)
(* has HEAD in hand nor while it seeds a peer.                              *)
HarmlessInterruption ==
  \/ \E j \in Jobs : \/ SeedTimesOut(j)
                    \/ /\ Killed(j) /\ ~Pulling(j)
                       /\ kind[j] # "update" /\ child[j] # NoSeed => ~Seeding(child[j])
  \/ \E s \in Seeds : OrphanExits(s) \/ SeedBreaks(s)

(* No script is killed where a child of it works on, and the master is not  *)
(* rebuilt under the hands of a script.                                     *)
Orderly == \/ CallsInTurn \/ Peer \/ Development \/ HarmlessInterruption
           \/ (\A j \in Jobs : at[j] \in {"idle", "lock"}) /\ LocalBuild

OrderlySpec == Init /\ [][Orderly]_vars

(* The script by hand, and no endpoint.                                     *)
ByHandSpec == Init /\ [][Calls({"forcedPull"}) \/ Peer \/ Development]_vars

-----------------------------------------------------------------------------
(* "Serialize with the admin update endpoint so a peer never gets two seeds *)
(* at once."                                                                *)
OneSeedPerPeer ==
  \A s, u \in Seeds : s # u /\ Seeding(s) /\ Seeding(u) => target[s] # target[u]

(* Between seeds a peer runs a build that comes up: one that does not is   *)
(* replaced by the one before it.  Not so where, since the last seed that   *)
(* succeeded, the script has gone on after a copy that failed, or has ended *)
(* between the new binary and the verdict on it.                            *)
PeersStayUp ==
  \A p \in Peers \ doubt :
    (\A s \in Seeds : Seeding(s) => target[s] # p) => Comes(running[p])

(* Whatever a pull brings, HEAD is left at code that was committed on the   *)
(* master or that passed the tests and the build.                           *)
HeadIsVerified == (\A j \in Jobs : ~Pulling(j)) => head \in trusted

(* A job that answers ok leaves every peer on the master's build, whatever  *)
(* broke or was given up on the way; only a pull that finds nothing to pull *)
(* answers ok without having looked at a peer.                              *)
OkMeansDeployed ==
  [][\A j \in Jobs : at[j] # "idle" /\ at'[j] = "idle" /\ answer' = "ok" =>
       \/ \A p \in Peers : running[p] = built
       \/ at[j] = "fetch" /\ kind[j] # "forcedPull" /\ remote \subseteq head]_vars

(* "The previously-deployed binary is kept as .previous and restored        *)
(* automatically if the new build fails to become healthy": what a rollback *)
(* restores comes up.                                                       *)
RollbackComesUp == \A s \in Seeds : step[s] = "recheck" => Comes(running[target[s]])

(* "Rolling back to pre-merge state."                                       *)
RollbackRestoresHead == [][\A j \in Jobs : RollbackHead(j) => head' = before[j]]_vars
=============================================================================
