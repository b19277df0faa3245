---------------------------- MODULE RolloutProofs ----------------------------
(***************************************************************************)
(* Theorems about Rollout, for any number of peers, jobs, seeds and        *)
(* commits.                                                                *)
(***************************************************************************)
EXTENDS Rollout, TLAPS

(* No seed_slave.sh has two parents: otherwise the exit of one's child      *)
(* would take away the other's.                                             *)
ChildrenDistinct ==
  \A i, j \in Jobs : i # j /\ child[i] # NoSeed => child[i] # child[j]

(* A job of an endpoint holds the lock until it is done.                    *)
LockHeld ==
  \A j \in Jobs : at[j] \notin {"idle", "lock"} /\ kind[j] # "forcedPull" => lock = j

ChainInv == TypeOK /\ ChildrenDistinct /\ LockHeld

(* The steps of a job that start and wait for no seed.                      *)
Alone(j) == \/ Lock(j) \/ UpToDate(j) \/ Diverged(j) \/ Refused(j) \/ Fetch(j)
            \/ Merge(j) \/ MergeFails(j) \/ Test(j) \/ Build(j) \/ RollbackHead(j)
            \/ AllSeeded(j)

(* Those after which the branches are as they were, or fetched.             *)
Ends(j) == UpToDate(j) \/ Diverged(j) \/ Refused(j) \/ MergeFails(j) \/ AllSeeded(j)

LEMMA EndsFinish ==
  ASSUME NEW j \in Jobs, Ends(j)
  PROVE  /\ at[j] # "idle" /\ \E result \in {"ok", "failed"} : Finish(j, result)
         /\ UNCHANGED <<built, peerVars, seedVars, head, prior, remote, stray, trusted>>
         /\ origin' \in {origin, remote}
<1> USE DEF GitFetch, gitVars
<1>1. CASE UpToDate(j) \/ Diverged(j)
  BY <1>1 DEF UpToDate, Diverged
<1>2. CASE Refused(j)
  BY <1>2 DEF Refused
<1>3. CASE MergeFails(j) \/ AllSeeded(j)
  BY <1>3 DEF MergeFails, AllSeeded
<1>4. QED
  BY <1>1, <1>2, <1>3 DEF Ends

LEMMA ChainInit == Init => ChainInv
BY SeedAssumption, RolloutAssumption
DEF Init, SeedInit, ChainInv, TypeOK, SeedTypeOK, ChildrenDistinct, LockHeld, Builds,
    Steps, Kinds

(* A child is a seed under way, for one of the peers its job has to seed.   *)
LEMMA ChildrenSeed ==
  ASSUME TypeOK, NEW j \in Jobs, child[j] # NoSeed
  PROVE  /\ child[j] \in Seeds /\ step[child[j]] # "free"
         /\ target[child[j]] \in Peers /\ at[j] = "seed"
BY SeedAssumption DEF TypeOK, SeedTypeOK

LEMMA HeadMoves ==
  ASSUME TypeOK, NEW h \in Builds, MoveHead(h) PROVE head' \in Builds /\ prior' \in Builds
BY DEF TypeOK, MoveHead

(* Whoever finishes gives back the lock, and forgets the child it has.      *)
LEMMA FinishKeeps ==
  ASSUME ChainInv, NEW j \in Jobs, NEW result \in {"none", "ok", "failed"},
         Finish(j, result)
  PROVE  /\ lock' \in Jobs \cup {NoJob}
         /\ kind' \in [Jobs -> Kinds]
         /\ at' \in [Jobs -> {"idle", "lock", "fetch", "merge", "test", "build", "seed"}]
         /\ todo' \in [Jobs -> SUBSET Peers]
         /\ child' \in [Jobs -> Seeds \cup {NoSeed}]
         /\ failing' \subseteq Jobs
         /\ answer' \in {"none", "ok", "failed"}
         /\ before' \in [Jobs -> Builds]
         /\ \A i \in Jobs : child'[i] # NoSeed =>
              /\ i # j /\ child'[i] = child[i] /\ at'[i] = at[i] /\ todo'[i] = todo[i]
         /\ ChildrenDistinct' /\ LockHeld'
BY RolloutAssumption DEF ChainInv, TypeOK, Finish, ChildrenDistinct, LockHeld, Kinds, Builds

(* A seed that ends is nobody's child any more, and the rest keep theirs.   *)
LEMMA GoneKeeps ==
  ASSUME ChainInv, NEW s \in Seeds, Gone(s), UNCHANGED built,
         {binary, previous, running}' \subseteq [Peers -> Builds], doubt' \subseteq Peers
  PROVE  /\ SeedTypeOK'
         /\ \A i \in Jobs : child[i] # NoSeed /\ child[i] # s => target'[child[i]] = target[child[i]]
BY SeedAssumption DEF ChainInv, TypeOK, SeedTypeOK, Gone, Steps

LEMMA CutShortKeeps ==
  ASSUME ChainInv, NEW s \in Seeds, step[s] # "free", CutShort(s)
  PROVE  {binary, previous, running}' \subseteq [Peers -> Builds] /\ doubt' \subseteq Peers
<1>1. target[s] \in Peers
  BY DEF ChainInv, TypeOK, SeedTypeOK
<1>2. doubt' \subseteq Peers
  BY <1>1 DEF ChainInv, TypeOK, SeedTypeOK, CutShort
<1>3. {binary, previous, running}' \subseteq [Peers -> Builds]
  BY <1>1 DEF ChainInv, TypeOK, SeedTypeOK, CutShort, BackedUp, Installed, Restored, Started,
     Untouched
<1>4. QED
  BY <1>2, <1>3

LEMMA PeersTyped ==
  ASSUME ChainInv, NEW s \in Seeds, step[s] # "free", UNCHANGED peerVars \/ CutShort(s)
  PROVE  {binary, previous, running}' \subseteq [Peers -> Builds] /\ doubt' \subseteq Peers
BY CutShortKeeps DEF ChainInv, TypeOK, SeedTypeOK, peerVars

LEMMA SeedRunsKeeps ==
  ASSUME ChainInv, NEW s \in Seeds, SeedRuns(s) \/ Break(s)
  PROVE  SeedTypeOK' /\ target' = target
<1> USE DEF ChainInv, TypeOK, SeedTypeOK, Steps, BackedUp, Installed, Restored, Started,
            Untouched, CopySkipped
<1>1. CASE Backup(s)
  BY <1>1 DEF Backup, SeedGoto
<1>2. CASE CopyBinary(s)
  BY <1>2 DEF CopyBinary, SeedGoto
<1>3. CASE Restart(s) \/ RestartOld(s)
  BY <1>3 DEF Restart, RestartOld, SeedGoto
<1>4. CASE Verify(s) \/ Recheck(s)
  BY <1>4 DEF Verify, Recheck, SeedGoto, peerVars
<1>5. CASE RollBack(s)
  BY <1>5 DEF RollBack, SeedGoto
<1>6. CASE Break(s)
  <2>1. step[s] # "free" /\ step' = [step EXCEPT ![s] = "failed"] /\ UNCHANGED <<built, target>>
    BY <1>6 DEF Break, SeedGoto
  <2>2. {binary, previous, running}' \subseteq [Peers -> Builds] /\ doubt' \subseteq Peers
    BY <1>6, <2>1, CutShortKeeps DEF Break
  <2>3. QED
    BY <2>1, <2>2
<1>7. QED
  BY <1>1, <1>2, <1>3, <1>4, <1>5, <1>6 DEF SeedRuns

(* Development and builds do not touch jobs or seeds.                       *)
LEMMA DevelopmentKeeps ==
  ASSUME ChainInv, Development \/ LocalBuild PROVE ChainInv'
<1> USE DEF ChainInv, TypeOK, SeedTypeOK, ChildrenDistinct, LockHeld, peerVars, seedVars,
        jobVars, Seeding
<1>1. CASE RemoteCommit
  BY <1>1 DEF RemoteCommit, Builds
<1>2. CASE LocalCommit
  <2>1. PICK c \in Commits \ (remote \cup head) : MoveHead(head \cup {c})
    BY <1>2 DEF LocalCommit
  <2>2. head \cup {c} \in Builds
    BY <2>1 DEF Builds
  <2>3. head' \in Builds /\ prior' \in Builds
    BY <2>1, <2>2, HeadMoves
  <2>4. QED
    BY <1>2, <2>3 DEF LocalCommit
<1>3. CASE Push \/ Status
  BY <1>3 DEF Push, Status, GitFetch
<1>4. CASE LocalBuild
  BY <1>4 DEF LocalBuild, gitVars
<1>5. QED
  BY <1>1, <1>2, <1>3, <1>4 DEF Development

LEMMA AloneKeeps ==
  ASSUME ChainInv, NEW j \in Jobs, Alone(j) PROVE ChainInv'
<1>1. CASE Lock(j)
  BY <1>1, RolloutAssumption DEF Lock, BeginSeeding, Goto, ChainInv, TypeOK, SeedTypeOK, ChildrenDistinct,
     LockHeld, peerVars, seedVars, gitVars, Builds, Kinds, Seeding
<1>2. CASE Ends(j)
  <2>1. PICK result \in {"ok", "failed"} : Finish(j, result)
    BY <1>2, EndsFinish
  <2>2. /\ UNCHANGED <<built, peerVars, seedVars, head, prior, remote, stray, trusted>>
        /\ origin' \in {origin, remote}
    BY <1>2, EndsFinish
  <2>3. QED
    BY <2>1, <2>2, FinishKeeps DEF ChainInv, TypeOK, SeedTypeOK, peerVars, seedVars
<1>3. CASE Fetch(j) \/ Test(j)
  <2>1. CASE Fetch(j)
    BY <2>1 DEF Fetch, Goto, GitFetch, ChainInv, TypeOK, SeedTypeOK, ChildrenDistinct,
       LockHeld, peerVars, seedVars, gitVars
  <2>2. CASE Test(j)
    BY <2>2 DEF Test, Goto, ChainInv, TypeOK, SeedTypeOK, ChildrenDistinct,
       LockHeld, peerVars, seedVars, gitVars
  <2>3. QED
    BY <1>3, <2>1, <2>2
<1>4. CASE Merge(j)
  <2>1. head' \in Builds /\ prior' \in Builds
    BY <1>4, HeadMoves DEF Merge, ChainInv, TypeOK
  <2>2. QED
    BY <1>4, <2>1 DEF Merge, Goto, ChainInv, TypeOK, SeedTypeOK, ChildrenDistinct,
       LockHeld, peerVars, seedVars, Seeding
<1>5. CASE Build(j)
  BY <1>5 DEF Build, BeginSeeding, Goto, ChainInv, TypeOK, SeedTypeOK, ChildrenDistinct,
     LockHeld, peerVars, seedVars, gitVars, Seeding, Builds
<1>6. CASE RollbackHead(j)
  <2>1. head' \in Builds /\ prior' \in Builds
    BY <1>6, HeadMoves DEF RollbackHead, ChainInv, TypeOK
  <2>2. Finish(j, "failed") /\ UNCHANGED <<built, peerVars, seedVars, remote, origin, stray, trusted>>
    BY <1>6 DEF RollbackHead
  <2>3. QED
    BY <2>1, <2>2, FinishKeeps DEF ChainInv, TypeOK, SeedTypeOK, peerVars, seedVars
<1>7. QED
  BY <1>1, <1>2, <1>3, <1>4, <1>5, <1>6 DEF Alone, Ends

(* The steps that end a child, or leave it to itself.                       *)
LEMMA WaitingKeeps ==
  ASSUME ChainInv, NEW j \in Jobs, Seeded(j) \/ SeedTimesOut(j) \/ Killed(j)
  PROVE  ChainInv'
<1> DEFINE s == child[j]
<1>1. CASE Seeded(j) \/ SeedTimesOut(j)
  <2>1. /\ s # NoSeed /\ Gone(s)
        /\ child' = [child EXCEPT ![j] = NoSeed]
        /\ todo' = [todo EXCEPT ![j] = @ \ {target[s]}]
        /\ failing' \in {failing, failing \cup {j}}
        /\ UNCHANGED <<built, gitVars, trusted, lock, kind, at, answer, before>>
        /\ UNCHANGED peerVars \/ CutShort(s)
    BY <1>1 DEF Seeded, SeedTimesOut
  <2>2. s \in Seeds /\ step[s] # "free"
    BY <2>1, ChildrenSeed DEF ChainInv
  <2>3. SeedTypeOK' /\ \A i \in Jobs : child[i] # NoSeed /\ child[i] # s =>
                        target'[child[i]] = target[child[i]]
    BY <2>1, <2>2, GoneKeeps, PeersTyped
  <2>4. ChildrenDistinct' /\ LockHeld'
    BY <2>1 DEF ChainInv, ChildrenDistinct, LockHeld, TypeOK
  <2>5. \A i \in Jobs : child'[i] # NoSeed =>
           at'[i] = "seed" /\ target'[child'[i]] \in todo'[i]
    BY <2>1, <2>3 DEF ChainInv, ChildrenDistinct, TypeOK
  <2>6. QED
    BY <2>1, <2>3, <2>4, <2>5 DEF ChainInv, TypeOK, gitVars
<1>2. CASE Killed(j)
  <2>1. /\ Finish(j, "none")
        /\ UNCHANGED <<built, head, prior, remote, origin, trusted>>
        /\ stray' \subseteq {"merge", "build"}
        /\ UNCHANGED <<seedVars, peerVars>> \/ (s # NoSeed /\ Gone(s) /\ CutShort(s))
    BY <1>2 DEF Killed, ChainInv, TypeOK
  <2>2. /\ SeedTypeOK'
        /\ \A i \in Jobs \ {j} : child[i] # NoSeed => target'[child[i]] = target[child[i]]
    <3>1. CASE UNCHANGED <<seedVars, peerVars>>
      BY <2>1, <3>1 DEF ChainInv, TypeOK, SeedTypeOK, peerVars, seedVars
    <3>2. CASE s # NoSeed /\ Gone(s) /\ CutShort(s)
      <4>1. s \in Seeds /\ step[s] # "free"
        BY <3>2, ChildrenSeed DEF ChainInv
      <4>2. \A i \in Jobs \ {j} : child[i] # NoSeed => child[i] # s
        BY <3>2 DEF ChainInv, ChildrenDistinct
      <4>3. QED
        BY <2>1, <3>2, <4>1, <4>2, GoneKeeps, PeersTyped
    <3>3. QED
      BY <2>1, <3>1, <3>2
  <2>3. QED
    BY <2>1, <2>2, FinishKeeps DEF ChainInv, TypeOK
<1>3. QED
  BY <1>1, <1>2

LEMMA StartSeedKeeps ==
  ASSUME ChainInv, NEW j \in Jobs, StartSeed(j) PROVE ChainInv'
<1>1. PICK p \in todo[j], s \in Seeds : Launch(s, p) /\ child' = [child EXCEPT ![j] = s]
  BY DEF StartSeed
<1>2. /\ at[j] = "seed" /\ p \in Peers /\ step[s] = "free"
      /\ UNCHANGED <<built, peerVars, gitVars, trusted, lock, kind, at, todo, failing, answer, before>>
  BY <1>1 DEF StartSeed, Launch, ChainInv, TypeOK
<1>3. \A i \in Jobs : child[i] # NoSeed => child[i] # s
  BY <1>2, ChildrenSeed DEF ChainInv
<1>4. SeedTypeOK'
  BY <1>1, <1>2, SeedAssumption DEF Launch, ChainInv, TypeOK, SeedTypeOK, Steps, peerVars
<1>5. ChildrenDistinct' /\ LockHeld'
  BY <1>1, <1>2, <1>3 DEF ChainInv, ChildrenDistinct, LockHeld, TypeOK
<1>6. \A i \in Jobs : child'[i] # NoSeed =>
         at'[i] = "seed" /\ target'[child'[i]] \in todo'[i]
  BY <1>1, <1>2, <1>3 DEF Launch, ChainInv, TypeOK, SeedTypeOK
<1>7. QED
  BY <1>1, <1>2, <1>4, <1>5, <1>6 DEF ChainInv, TypeOK, gitVars

LEMMA ChainNext == ChainInv /\ [Anything(Kinds)]_vars => ChainInv'
<1> SUFFICES ASSUME ChainInv, [Anything(Kinds)]_vars PROVE ChainInv'
  OBVIOUS
<1>1. ASSUME NEW j \in Jobs, NEW k \in Kinds, Request(j, k) PROVE ChainInv'
  BY <1>1, RolloutAssumption DEF Request, Goto, ChainInv, TypeOK, SeedTypeOK,
     ChildrenDistinct, LockHeld, peerVars, seedVars, gitVars, Seeding, Kinds
<1>2. ASSUME NEW j \in Jobs, Script(j) PROVE ChainInv'
  BY <1>2, AloneKeeps, WaitingKeeps, StartSeedKeeps DEF Script, Alone
<1>3. CASE Peer
  <2>1. ASSUME NEW p \in Peers, PeerRestarts(p), UNCHANGED <<gitVars, jobVars, trusted>>
        PROVE  ChainInv'
    BY <2>1 DEF PeerRestarts, Started, ChainInv, TypeOK, SeedTypeOK, ChildrenDistinct, LockHeld,
       gitVars, jobVars, seedVars
  <2>2. ASSUME NEW s \in Seeds, SeedRuns(s), UNCHANGED <<gitVars, jobVars, trusted>>
        PROVE  ChainInv'
    BY <2>2, SeedRunsKeeps DEF ChainInv, TypeOK, ChildrenDistinct, LockHeld, gitVars, jobVars
  <2>3. QED
    BY <1>3, <2>1, <2>2 DEF Peer
<1>4. CASE Interruption
  <2>1. ASSUME NEW s \in Seeds, OrphanExits(s) PROVE ChainInv'
    <3>1. Gone(s) /\ UNCHANGED <<built, peerVars, gitVars, jobVars, trusted>>
      BY <2>1 DEF OrphanExits
    <3>2. \A i \in Jobs : child[i] # s
      BY <2>1 DEF OrphanExits
    <3>3. {binary, previous, running}' \subseteq [Peers -> Builds] /\ doubt' \subseteq Peers
      BY <3>1 DEF ChainInv, TypeOK, SeedTypeOK, peerVars
    <3>4. QED
      BY <3>1, <3>2, <3>3, GoneKeeps DEF ChainInv, TypeOK, ChildrenDistinct, LockHeld, gitVars, jobVars
  <2>2. ASSUME NEW s \in Seeds, SeedBreaks(s) PROVE ChainInv'
    BY <2>2, SeedRunsKeeps DEF SeedBreaks, ChainInv, TypeOK, ChildrenDistinct, LockHeld,
       gitVars, jobVars
  <2>3. CASE StrayMerge
    <3>1. head' \in Builds /\ prior' \in Builds
      BY <2>3, HeadMoves DEF StrayMerge, ChainInv, TypeOK
    <3>2. QED
      BY <2>3, <3>1 DEF StrayMerge, ChainInv, TypeOK, SeedTypeOK, ChildrenDistinct, LockHeld,
         peerVars, seedVars, jobVars
  <2>4. CASE StrayBuild
    BY <2>4 DEF StrayBuild, ChainInv, TypeOK, SeedTypeOK, ChildrenDistinct, LockHeld,
       peerVars, seedVars, jobVars
  <2>5. QED
    BY <1>4, <2>1, <2>2, <2>3, <2>4, WaitingKeeps DEF Interruption
<1>5. CASE UNCHANGED vars
  BY <1>5 DEF vars, ChainInv, TypeOK, SeedTypeOK, ChildrenDistinct, LockHeld
<1>6. QED
  BY <1>1, <1>2, <1>3, <1>4, <1>5, DevelopmentKeeps DEF Anything, Calls

(* Every variable keeps its type, whatever is called, killed or broken.     *)
THEOREM TypeCorrect == Spec => []TypeOK
<1>1. ChainInv => TypeOK
  BY DEF ChainInv
<1>2. QED
  BY <1>1, ChainInit, ChainNext, PTL DEF Spec

-----------------------------------------------------------------------------
(*************************** uninterrupted rollouts **************************)
(* What a rollout achieves when nothing interrupts it where it does harm:  *)
(* theorems about OrderlySpec.                                             *)

(* No seed_slave.sh is at work that its job does not wait for.              *)
SeedsHaveParents == \A s \in Seeds : Seeding(s) => \E j \in Jobs : child[j] = s

(* A pull by hand has the master for itself.                                *)
ForcedAlone ==
  \A i, j \in Jobs : i # j /\ kind[i] = "forcedPull" /\ at[i] # "idle" => at[j] = "idle"

OrderInv == ChainInv /\ SeedsHaveParents /\ ForcedAlone

Works(j) == at[j] \notin {"idle", "lock"}

LEMMA OneWorks ==
  ASSUME OrderInv, NEW i \in Jobs, NEW j \in Jobs, Works(i), Works(j) PROVE i = j
BY DEF OrderInv, ChainInv, LockHeld, ForcedAlone, Works

LEMMA OneSeeds ==
  ASSUME OrderInv, NEW s \in Seeds, NEW u \in Seeds, Seeding(s), Seeding(u) PROVE s = u
<1>1. PICK i \in Jobs, j \in Jobs : child[i] = s /\ child[j] = u
  BY DEF OrderInv, SeedsHaveParents
<1>2. Works(i) /\ Works(j)
  BY <1>1, ChildrenSeed, RolloutAssumption DEF OrderInv, ChainInv, Works
<1>3. QED
  BY <1>1, <1>2, OneWorks

LEMMA OrderlyIsAStep == Orderly => Anything(Kinds)
<1>1. CallsInTurn => Calls(Kinds)
  BY DEF CallsInTurn, Calls, Kinds
<1>2. HarmlessInterruption => Interruption
  BY DEF HarmlessInterruption, Interruption
<1>3. QED
  BY <1>1, <1>2 DEF Orderly, Anything

(* What a job does in its turn.                                             *)
Turn(j) == /\ \/ \E k \in {"update", "pull"} : Request(j, k)
              \/ (\A i \in Jobs : at[i] = "idle") /\ Request(j, "forcedPull")
              \/ Script(j)
           /\ \A i \in Jobs \ {j} : kind[i] = "forcedPull" => at[i] = "idle"

(* Where a harmless interruption strikes.                                   *)
Harmless(j) ==
  \/ SeedTimesOut(j)
  \/ /\ Killed(j) /\ ~Pulling(j)
     /\ kind[j] # "update" /\ child[j] # NoSeed => ~Seeding(child[j])

LEMMA ScriptsWork ==
  ASSUME OrderInv, NEW j \in Jobs, Script(j)
  PROVE  /\ at[j] # "idle" /\ \A i \in Jobs \ {j} : at'[i] = at[i]
         /\ \A i \in Jobs : kind'[i] = "forcedPull" => kind[i] = "forcedPull"
<1> USE DEF OrderInv, ChainInv, TypeOK
<1>1. CASE Alone(j) \/ StartSeed(j)
  BY <1>1 DEF Alone, Lock, UpToDate, Diverged, Refused, Fetch, Merge, MergeFails, Test, Build, RollbackHead,
     AllSeeded, StartSeed, BeginSeeding, Finish, Goto
<1>2. CASE Seeded(j)
  BY <1>2 DEF Seeded
<1>3. QED
  BY <1>1, <1>2 DEF Script, Alone

(* A job that is alone has no child, so it leaves none behind.              *)
LEMMA AloneHasNoChild ==
  ASSUME OrderInv, NEW j \in Jobs, Alone(j)
  PROVE  child' = child /\ UNCHANGED seedVars
<1> USE DEF OrderInv, ChainInv, TypeOK, SeedTypeOK
<1>1. CASE \E result \in {"ok", "failed"} : Finish(j, result)
  <2>1. at[j] # "seed" \/ todo[j] = {}
    BY <1>1 DEF Alone, Lock, UpToDate, Diverged, Refused, Fetch, Merge, MergeFails, Test, Build, RollbackHead,
       AllSeeded, BeginSeeding, Goto
  <2>2. child[j] = NoSeed
    BY <2>1
  <2>3. child' = child
    BY <1>1, <2>2 DEF Finish
  <2>4. QED
    BY <1>1, <2>3 DEF Alone, Lock, UpToDate, Diverged, Refused, Fetch, Merge, MergeFails, Test, Build, RollbackHead,
       AllSeeded, BeginSeeding
<1>2. CASE ~ \E result \in {"ok", "failed"} : Finish(j, result)
  BY <1>2 DEF Alone, Lock, UpToDate, Diverged, Refused, Fetch, Merge, MergeFails, Test, Build, RollbackHead, AllSeeded
<1>3. QED
  BY <1>1, <1>2

(* A child that is gone was at work for nobody else.                        *)
LEMMA GoneKeepsParents ==
  ASSUME OrderInv, NEW j \in Jobs, child[j] # NoSeed, Gone(child[j]),
         child' = [child EXCEPT ![j] = NoSeed]
  PROVE  SeedsHaveParents'
BY DEF OrderInv, ChainInv, TypeOK, SeedTypeOK, SeedsHaveParents, Seeding, Gone

LEMMA TurnsKeepOrder ==
  ASSUME OrderInv, NEW j \in Jobs, Turn(j) PROVE SeedsHaveParents' /\ ForcedAlone'
<1>1. CASE \E k \in {"update", "pull"} : Request(j, k)
  BY <1>1 DEF Turn, Request, Goto, OrderInv, ChainInv, TypeOK, ForcedAlone, SeedsHaveParents,
     Seeding, seedVars
<1>2. CASE (\A i \in Jobs : at[i] = "idle") /\ Request(j, "forcedPull")
  BY <1>2 DEF Request, Goto, OrderInv, ChainInv, TypeOK, ForcedAlone, SeedsHaveParents,
     Seeding, seedVars
<1>3. CASE Script(j)
  <2>1. ForcedAlone'
    BY <1>3, ScriptsWork DEF Turn, OrderInv, ForcedAlone
  <2>2. CASE Alone(j)
    BY <2>1, <2>2, AloneHasNoChild DEF OrderInv, SeedsHaveParents, Seeding, seedVars
  <2>3. CASE StartSeed(j)
    <3>1. PICK p \in todo[j], s \in Seeds : Launch(s, p) /\ child' = [child EXCEPT ![j] = s]
      BY <2>3 DEF StartSeed
    <3>2. child[j] = NoSeed
      BY <2>3 DEF StartSeed
    <3>3. SeedsHaveParents'
      BY <3>1, <3>2, RolloutAssumption DEF Launch, OrderInv, ChainInv, TypeOK, SeedTypeOK, SeedsHaveParents, Seeding
    <3>4. QED
      BY <2>1, <3>3
  <2>4. CASE Seeded(j)
    BY <2>1, <2>4, GoneKeepsParents DEF Seeded
  <2>5. QED
    BY <1>3, <2>2, <2>3, <2>4 DEF Script, Alone
<1>4. QED
  BY <1>1, <1>2, <1>3 DEF Turn

LEMMA HarmlessKeepsOrder ==
  ASSUME OrderInv, NEW j \in Jobs, Harmless(j) PROVE SeedsHaveParents' /\ ForcedAlone'
<1>1. CASE SeedTimesOut(j)
  BY <1>1, GoneKeepsParents DEF SeedTimesOut, OrderInv, ForcedAlone
<1>2. CASE Killed(j) /\ (kind[j] # "update" /\ child[j] # NoSeed => ~Seeding(child[j]))
  <2>1. Finish(j, "none")
    BY <1>2 DEF Killed
  <2>2. ForcedAlone'
    BY <2>1 DEF Finish, OrderInv, ChainInv, TypeOK, ForcedAlone
  <2>3. CASE kind[j] = "update" /\ child[j] # NoSeed
    BY <1>2, <2>1, <2>2, <2>3, GoneKeepsParents DEF Killed, Finish
  <2>4. CASE ~(kind[j] = "update" /\ child[j] # NoSeed)
    BY <1>2, <2>1, <2>2, <2>4 DEF Killed, Finish, OrderInv, ChainInv, TypeOK, SeedTypeOK,
       SeedsHaveParents, Seeding, seedVars
  <2>5. QED
    BY <2>3, <2>4
<1>3. QED
  BY <1>1, <1>2 DEF Harmless

(* Every orderly step is one of these.                                      *)
LEMMA OrderlySteps ==
  ASSUME Orderly
  PROVE  \/ \E j \in Jobs : Turn(j) \/ Harmless(j)
         \/ \E s \in Seeds : /\ SeedRuns(s) \/ Break(s)
                            /\ UNCHANGED <<gitVars, jobVars, trusted>>
         \/ \E s \in Seeds : OrphanExits(s)
         \/ \E p \in Peers : PeerRestarts(p) /\ UNCHANGED <<gitVars, jobVars, trusted>>
         \/ Development
         \/ (\A j \in Jobs : at[j] \in {"idle", "lock"}) /\ LocalBuild
BY DEF Orderly, CallsInTurn, Turn, Harmless, HarmlessInterruption, Peer, SeedBreaks

LEMMA SeedStepsOn ==
  ASSUME OrderInv, NEW s \in Seeds, SeedRuns(s) \/ Break(s)
  PROVE  /\ UNCHANGED <<built, target>> /\ Seeding(s)
         /\ \A u \in Seeds \ {s} : step'[u] = step[u]
<1> USE DEF OrderInv, ChainInv, TypeOK, SeedTypeOK, SeedGoto, Seeding, peerVars
<1>1. CASE Backup(s) \/ CopyBinary(s) \/ Break(s) \/ RollBack(s)
  BY <1>1 DEF Backup, CopyBinary, Break, RollBack
<1>2. CASE Restart(s) \/ RestartOld(s)
  BY <1>2 DEF Restart, RestartOld
<1>3. CASE Verify(s) \/ Recheck(s)
  BY <1>3 DEF Verify, Recheck
<1>4. QED
  BY <1>1, <1>2, <1>3 DEF SeedRuns

LEMMA OrderNext == OrderInv /\ [Orderly]_vars => OrderInv'
<1> SUFFICES ASSUME OrderInv, [Orderly]_vars PROVE OrderInv'
  OBVIOUS
<1>1. ChainInv'
  BY OrderlyIsAStep, ChainNext DEF OrderInv
<1>2. SeedsHaveParents' /\ ForcedAlone'
  <2>1. CASE \E j \in Jobs : Turn(j) \/ Harmless(j)
    BY <2>1, TurnsKeepOrder, HarmlessKeepsOrder
  <2>2. ASSUME NEW s \in Seeds, SeedRuns(s) \/ Break(s), UNCHANGED jobVars
        PROVE  SeedsHaveParents' /\ ForcedAlone'
    BY <2>2, SeedStepsOn DEF OrderInv, SeedsHaveParents, ForcedAlone, jobVars, Seeding
  <2>3. ASSUME NEW s \in Seeds, OrphanExits(s) PROVE SeedsHaveParents' /\ ForcedAlone'
    BY <2>3 DEF OrphanExits, Gone, OrderInv, ChainInv, TypeOK, SeedTypeOK, SeedsHaveParents, ForcedAlone, jobVars, Seeding
  <2>4. ASSUME NEW p \in Peers, PeerRestarts(p), UNCHANGED jobVars
        PROVE  SeedsHaveParents' /\ ForcedAlone'
    BY <2>4 DEF PeerRestarts, OrderInv, SeedsHaveParents, ForcedAlone, jobVars, seedVars, Seeding
  <2>5. CASE Development \/ LocalBuild
    BY <2>5 DEF Development, LocalBuild, RemoteCommit, LocalCommit, Push, Status, OrderInv,
       SeedsHaveParents, ForcedAlone, jobVars, seedVars, Seeding
  <2>6. CASE UNCHANGED vars
    BY <2>6 DEF vars, OrderInv, SeedsHaveParents, ForcedAlone, Seeding
  <2>7. QED
    BY <2>1, <2>2, <2>3, <2>4, <2>5, <2>6, OrderlySteps
<1>3. QED
  BY <1>1, <1>2 DEF OrderInv

LEMMA OrderInit == Init => OrderInv
BY ChainInit DEF OrderInv, Init, SeedInit, SeedsHaveParents, ForcedAlone, Seeding

(* "A peer never gets two seeds at once", as long as nothing leaves a seed  *)
(* behind that nobody waits for.                                            *)
THEOREM SeedsAreExclusive == OrderlySpec => []OneSeedPerPeer
<1>1. OrderInv => OneSeedPerPeer
  BY OneSeeds DEF OneSeedPerPeer
<1>2. QED
  BY <1>1, OrderInit, OrderNext, PTL DEF OrderlySpec

-----------------------------------------------------------------------------
(* Where a rollback leads.  `prior` is good code, or else the branch on     *)
(* GitHub has what HEAD lacks, so that the next pull merges before it       *)
(* tests.  While a pull tests and builds, `prior` is good code, and the     *)
(* branch has what `prior` lacks if HEAD is not good code itself.           *)
HeadInv ==
  /\ origin \subseteq remote
  /\ (\A j \in Jobs : ~Pulling(j)) => head \in trusted
  /\ prior \in trusted \/ ~(remote \subseteq head)
  /\ \A j \in Jobs : at[j] = "merge" =>
       /\ head \in trusted /\ head \subseteq remote
       /\ ~(origin \subseteq head)
  /\ \A j \in Jobs : at[j] \in {"test", "build"} =>
       /\ prior \in trusted
       /\ head \in trusted \/ ~(remote \subseteq prior)

LEMMA HeadUndisturbed ==
  ASSUME OrderInv, HeadInv, UNCHANGED gitVars, UNCHANGED trusted,
         \A i \in Jobs : at'[i] = at[i] \/ (~Pulling(i) /\ ~Pulling(i)')
  PROVE  HeadInv'
BY DEF HeadInv, Pulling, gitVars

LEMMA NobodyElsePulls ==
  ASSUME OrderInv, NEW j \in Jobs, Works(j)
  PROVE  \A i \in Jobs \ {j} : ~Pulling(i)
BY OneWorks DEF Works, Pulling

LEMMA PullKeepsHead ==
  ASSUME OrderInv, HeadInv, NEW j \in Jobs,
         Fetch(j) \/ Merge(j) \/ MergeFails(j) \/ Test(j) \/ Build(j) \/ RollbackHead(j)
  PROVE  HeadInv'
<1> USE DEF OrderInv, ChainInv, TypeOK
<1>1. Works(j) /\ \A i \in Jobs \ {j} : ~Pulling(i)
  <2>1. Works(j)
    BY DEF Fetch, Merge, MergeFails, Test, Build, RollbackHead, Goto, BeginSeeding, Works
  <2>2. QED
    BY <2>1, NobodyElsePulls
<1>2. \A i \in Jobs \ {j} : at'[i] = at[i]
  BY DEF Fetch, Merge, MergeFails, Test, Build, RollbackHead, Goto, BeginSeeding, Finish
<1>3. CASE Fetch(j)
  <2>1. ~Pulling(j) /\ head \in trusted
    BY <1>1, <1>3 DEF Fetch, Goto, Pulling, HeadInv
  <2>2. UNCHANGED <<head, prior, remote, trusted>> /\ origin' = remote /\ head \subseteq remote
    BY <1>3 DEF Fetch, GitFetch, Ahead
  <2>3. \/ at'[j] = "merge" /\ ~(remote \subseteq head)
        \/ at'[j] = "test" /\ remote \subseteq head
    BY <1>3 DEF Fetch, Behind, Goto
  <2>4. QED
    BY <1>1, <1>2, <2>1, <2>2, <2>3 DEF HeadInv, Pulling
<1>4. CASE Merge(j)
  <2>1. /\ head \in trusted /\ ~(origin \subseteq head)
        /\ at[j] = "merge" /\ at'[j] = "test"
    BY <1>4 DEF Merge, Goto, HeadInv
  <2>2. head' = origin /\ prior' = head /\ UNCHANGED <<remote, origin, trusted>>
    BY <1>4, <2>1 DEF Merge, MoveHead
  <2>3. ~(remote \subseteq head) /\ origin \subseteq remote
    BY <2>1 DEF HeadInv
  <2>4. QED
    BY <1>1, <1>2, <2>1, <2>2, <2>3 DEF HeadInv, Pulling
<1>5. CASE Test(j)
  BY <1>1, <1>2, <1>5 DEF Test, Goto, HeadInv, Pulling, gitVars
<1>6. CASE Build(j)
  <2>1. at[j] = "build" /\ at'[j] = "seed" /\ UNCHANGED gitVars /\ trusted' = trusted \cup {head}
    BY <1>6 DEF Build, BeginSeeding, Goto
  <2>2. QED
    BY <1>1, <1>2, <2>1 DEF HeadInv, Pulling, gitVars
<1>7. CASE RollbackHead(j)
  <2>1. /\ prior \in trusted
        /\ head \in trusted \/ ~(remote \subseteq prior)
        /\ at'[j] = "idle"
    BY <1>7 DEF RollbackHead, Finish, HeadInv
  <2>2. head' = prior /\ prior' \in {prior, head} /\ UNCHANGED <<remote, origin, trusted>>
    BY <1>7 DEF RollbackHead, MoveHead
  <2>3. QED
    BY <1>1, <1>2, <2>1, <2>2 DEF HeadInv, Pulling
<1>8. CASE MergeFails(j)
  BY <1>1, <1>2, <1>8 DEF MergeFails, Finish, HeadInv, Pulling, gitVars
<1>9. QED
  BY <1>3, <1>4, <1>5, <1>6, <1>7, <1>8

LEMMA DevelopmentKeepsHead ==
  ASSUME OrderInv, HeadInv, Development PROVE HeadInv'
<1> USE DEF OrderInv, ChainInv, TypeOK
<1>1. CASE RemoteCommit
  <2>1. PICK c \in Commits : remote' = remote \cup {c}
    BY <1>1 DEF RemoteCommit
  <2>2. UNCHANGED <<head, prior, origin, at, trusted>>
    BY <1>1 DEF RemoteCommit, jobVars
  <2>3. QED
    BY <2>1, <2>2 DEF HeadInv, Pulling
<1>2. CASE LocalCommit
  <2>1. PICK c \in Commits \ (remote \cup head) : MoveHead(head \cup {c})
    BY <1>2 DEF LocalCommit
  <2>2. /\ \A j \in Jobs : ~Pulling(j)
        /\ UNCHANGED <<remote, origin, at>> /\ trusted' = trusted \cup {head'}
    BY <1>2 DEF LocalCommit, jobVars
  <2>3. prior' = head /\ head \in trusted
    BY <2>1, <2>2 DEF MoveHead, HeadInv
  <2>4. QED
    BY <2>2, <2>3 DEF HeadInv, Pulling
<1>3. CASE Push
  <2>1. /\ remote \subseteq head /\ ~(head \subseteq remote)
        /\ remote' = head /\ origin' = head /\ UNCHANGED <<head, prior, at, trusted>>
    BY <1>3 DEF Push, Ahead, Behind, jobVars
  <2>2. \A j \in Jobs : at[j] # "merge"
    BY <2>1 DEF HeadInv
  <2>3. QED
    BY <2>1, <2>2 DEF HeadInv, Pulling
<1>4. CASE Status
  BY <1>4 DEF Status, GitFetch, jobVars, HeadInv, Pulling
<1>5. QED
  BY <1>1, <1>2, <1>3, <1>4 DEF Development

LEMMA TurnKeepsHead ==
  ASSUME OrderInv, HeadInv, NEW j \in Jobs, Turn(j) \/ Harmless(j) PROVE HeadInv'
<1> USE DEF OrderInv, ChainInv, TypeOK
<1>1. ASSUME NEW k \in Kinds, Request(j, k) PROVE HeadInv'
  BY <1>1, HeadUndisturbed DEF Request, Goto, Pulling
<1>2. CASE Lock(j) \/ AllSeeded(j)
  BY <1>2, HeadUndisturbed DEF Lock, BeginSeeding, AllSeeded, Finish, Goto, Pulling
<1>3. CASE UpToDate(j) \/ Diverged(j) \/ Refused(j)
  <2>1. /\ at[j] = "fetch" /\ at' = [at EXCEPT ![j] = "idle"]
        /\ UNCHANGED <<head, prior, remote, trusted>>
        /\ origin' \in {origin, remote}
    BY <1>3, EndsFinish DEF Ends, UpToDate, Diverged, Refused, Finish
  <2>2. \A i \in Jobs : ~Pulling(i)
    BY <2>1, NobodyElsePulls DEF Works, Pulling
  <2>3. QED
    BY <2>1, <2>2 DEF HeadInv, Pulling
<1>4. CASE StartSeed(j) \/ Seeded(j) \/ SeedTimesOut(j)
  BY <1>4, HeadUndisturbed DEF StartSeed, Seeded, SeedTimesOut
<1>5. CASE Killed(j) /\ ~Pulling(j)
  <2>1. /\ UNCHANGED <<head, prior, remote, origin, trusted>>
        /\ at' = [at EXCEPT ![j] = "idle"]
    BY <1>5 DEF Killed, Finish
  <2>2. QED
    BY <1>5, <2>1 DEF HeadInv, Pulling
<1>6. CASE Script(j)
  BY <1>2, <1>3, <1>4, <1>6, PullKeepsHead DEF Script
<1>7. QED
  BY <1>1, <1>4, <1>5, <1>6 DEF Turn, Harmless, Kinds

LEMMA HeadNext == OrderInv /\ HeadInv /\ [Orderly]_vars => HeadInv'
<1> SUFFICES ASSUME OrderInv, HeadInv, [Orderly]_vars PROVE HeadInv'
  OBVIOUS
<1>1. CASE UNCHANGED <<gitVars, jobVars, trusted>> \/ UNCHANGED vars
  BY <1>1, HeadUndisturbed DEF vars, gitVars, jobVars
<1>2. ASSUME NEW s \in Seeds, OrphanExits(s) PROVE HeadInv'
  BY <1>1, <1>2 DEF OrphanExits
<1>3. CASE LocalBuild
  BY <1>1, <1>3 DEF LocalBuild
<1>4. QED
  BY <1>1, <1>2, <1>3, OrderlySteps, TurnKeepsHead, DevelopmentKeepsHead

(* The rollback of a pull goes back to code that is good, also when it had  *)
(* nothing to merge and also after an earlier rollback.                     *)
THEOREM HeadStaysVerified == OrderlySpec => []HeadIsVerified
<1>1. Init => HeadInv
  BY DEF Init, HeadInv, Pulling
<1>2. HeadInv => HeadIsVerified
  BY DEF HeadInv, HeadIsVerified
<1>3. QED
  BY <1>1, <1>2, OrderInit, OrderNext, HeadNext, PTL DEF OrderlySpec

-----------------------------------------------------------------------------
(* What a seed leaves behind wherever it is.  From the backup on there is a *)
(* build that comes up to go back to, unless the peer is in doubt; and what *)
(* was last started is what is installed when the script looks at it.       *)
Sound(p) == Comes(binary[p]) /\ Comes(running[p])

SeedInv(s) ==
  /\ step[s] \in {"verify", "recheck"} => running[target[s]] = binary[target[s]]
  /\ target[s] \notin doubt =>
       /\ step[s] \in {"backup", "copy"} => Sound(target[s])
       /\ step[s] \in {"copy", "restart", "verify", "rollback"} => Comes(previous[target[s]])
       /\ step[s] \in {"restartOld", "recheck"} => Comes(binary[target[s]])

PeersInv ==
  /\ \A p \in Peers \ doubt : (\A s \in Seeds : Seeding(s) => target[s] # p) => Sound(p)
  /\ \A s \in Seeds : Seeding(s) => SeedInv(s)

LEMMA PeersUndisturbed ==
  ASSUME PeersInv, UNCHANGED <<peerVars, seedVars>> PROVE PeersInv'
BY DEF PeersInv, SeedInv, Sound, Seeding, peerVars, seedVars

(* Where a script ends, the peer is in doubt or as sound as it was.         *)
LEMMA CutShortLeavesSound ==
  ASSUME OrderInv, NEW s \in Seeds, Seeding(s), SeedInv(s), CutShort(s),
         NEW p \in Peers, target[s] = p
  PROVE  p \notin doubt' => Sound(p)'
<1> USE DEF OrderInv, ChainInv, TypeOK, SeedTypeOK
<1>1. CASE step[s] \in {"copy", "restart", "verify", "rollback", "restartOld"}
  BY <1>1 DEF CutShort
<1>2. CASE step[s] = "backup"
  BY <1>2 DEF CutShort, SeedInv, Sound, BackedUp, Untouched
<1>3. CASE step[s] = "recheck"
  BY <1>3 DEF CutShort, SeedInv, Sound, Untouched
<1>4. QED
  BY <1>1, <1>2, <1>3 DEF Seeding, Steps

LEMMA CutShortElsewhere ==
  ASSUME OrderInv, NEW s \in Seeds, step[s] # "free", CutShort(s)
  PROVE  \A p \in Peers \ {target[s]} :
            /\ p \in doubt' => p \in doubt
            /\ p \in doubt => p \in doubt'
            /\ binary'[p] = binary[p] /\ running'[p] = running[p] /\ previous'[p] = previous[p]
BY DEF OrderInv, ChainInv, TypeOK, SeedTypeOK, CutShort, BackedUp, Installed, Restored, Started,
   Untouched

LEMMA SeedKeepsPeers ==
  ASSUME OrderInv, PeersInv, NEW s \in Seeds, SeedRuns(s) \/ Break(s)
  PROVE  PeersInv'
<1> USE DEF OrderInv, ChainInv, TypeOK, SeedTypeOK
<1>1. /\ Seeding(s) /\ UNCHANGED target
      /\ \A u \in Seeds \ {s} : ~Seeding(u) /\ ~Seeding(u)'
  BY SeedStepsOn, OneSeeds DEF Seeding
<1>2. target[s] \in Peers
  BY <1>1 DEF Seeding
<1>3. SeedInv(s) /\ \A p \in Peers \ {target[s]} : p \notin doubt => Sound(p)
  BY <1>1 DEF PeersInv
<1>4. /\ Seeding(s)' => SeedInv(s)'
      /\ ~Seeding(s)' /\ target[s] \notin doubt' => Sound(target[s])'
      /\ \A p \in Peers \ {target[s]} : p \notin doubt' => Sound(p)'
  <2> USE DEF SeedInv, Sound, Seeding, SeedGoto, BackedUp, Installed, Restored, Started,
              Untouched, CopySkipped
  <2>1. CASE Backup(s)
    BY <1>2, <1>3, <2>1 DEF Backup
  <2>2. CASE CopyBinary(s)
    BY <1>2, <1>3, <2>2 DEF CopyBinary
  <2>3. CASE Restart(s)
    BY <1>2, <1>3, <2>3 DEF Restart
  <2>4. CASE Verify(s)
    BY <1>2, <1>3, <2>4 DEF Verify
  <2>5. CASE RollBack(s)
    BY <1>2, <1>3, <2>5 DEF RollBack
  <2>6. CASE RestartOld(s)
    BY <1>2, <1>3, <2>6 DEF RestartOld
  <2>7. CASE Recheck(s)
    BY <1>2, <1>3, <2>7 DEF Recheck, peerVars
  <2>8. CASE Break(s)
    <3>1. CutShort(s) /\ ~Seeding(s)'
      BY <2>8 DEF Break
    <3>2. \A p \in Peers : target[s] = p => (p \notin doubt' => Sound(p)')
      BY <1>1, <1>3, <3>1, CutShortLeavesSound
    <3>3. \A p \in Peers \ {target[s]} : p \notin doubt' => Sound(p)'
      BY <1>1, <1>3, <3>1, CutShortElsewhere
    <3>4. QED
      BY <1>1, <1>2, <3>1, <3>2, <3>3
  <2>9. QED
    BY <2>1, <2>2, <2>3, <2>4, <2>5, <2>6, <2>7, <2>8 DEF SeedRuns
<1>5. QED
  BY <1>1, <1>2, <1>4 DEF PeersInv

(* A seed that is gone was over, or has been cut short.                     *)
LEMMA GoneKeepsPeers ==
  ASSUME OrderInv, PeersInv, NEW s \in Seeds, Gone(s), step[s] # "free",
         \/ ~Seeding(s) /\ UNCHANGED peerVars
         \/ CutShort(s)
  PROVE  PeersInv'
<1> USE DEF OrderInv, ChainInv, TypeOK, SeedTypeOK
<1>1. \A u \in Seeds \ {s} : step'[u] = step[u] /\ target'[u] = target[u]
  BY DEF Gone
<1>2. ~Seeding(s)' /\ target[s] \in Peers
  BY DEF Gone, Seeding
<1>3. CASE ~Seeding(s)
  <2>1. UNCHANGED peerVars
    BY <1>3 DEF CutShort, Untouched, Seeding, peerVars
  <2>2. QED
    BY <1>1, <1>2, <1>3, <2>1 DEF PeersInv, SeedInv, Sound, Seeding, peerVars
<1>4. CASE Seeding(s)
  <2>1. \A u \in Seeds \ {s} : ~Seeding(u) /\ ~Seeding(u)'
    BY <1>1, <1>4, OneSeeds DEF Seeding
  <2>2. \A p \in Peers : target[s] = p => (p \notin doubt' => Sound(p)')
    BY <1>4, CutShortLeavesSound DEF PeersInv
  <2>3. \A p \in Peers \ {target[s]} : p \notin doubt => Sound(p)
    BY <2>1 DEF PeersInv
  <2>4. \A p \in Peers \ {target[s]} : p \notin doubt' => Sound(p)'
    BY <1>4, <2>3, CutShortElsewhere DEF Sound
  <2>5. QED
    BY <1>2, <2>1, <2>2, <2>4 DEF PeersInv
<1>5. QED
  BY <1>3, <1>4

LEMMA StartKeepsPeers ==
  ASSUME OrderInv, PeersInv, NEW j \in Jobs, StartSeed(j) PROVE PeersInv'
<1> USE DEF OrderInv, ChainInv, TypeOK, SeedTypeOK
<1>1. PICK p \in todo[j], s \in Seeds : Launch(s, p) /\ child' = [child EXCEPT ![j] = s]
  BY DEF StartSeed
<1>2. at[j] = "seed" /\ child[j] = NoSeed /\ UNCHANGED peerVars /\ p \in Peers
  BY <1>1 DEF StartSeed
<1>3. \A u \in Seeds : ~Seeding(u)
  <2> SUFFICES ASSUME NEW u \in Seeds, Seeding(u) PROVE FALSE
    OBVIOUS
  <2>1. PICK i \in Jobs : child[i] = u
    BY DEF SeedsHaveParents
  <2>2. Works(i) /\ Works(j)
    BY <1>2, <2>1, RolloutAssumption DEF Works
  <2>3. QED
    BY <1>2, <2>1, <2>2, OneWorks, RolloutAssumption
<1>4. /\ step' = [step EXCEPT ![s] = "backup"] /\ target' = [target EXCEPT ![s] = p]
  BY <1>1 DEF Launch
<1>5. \A q \in Peers \ doubt : Sound(q)
  BY <1>3 DEF PeersInv
<1>6. QED
  BY <1>2, <1>3, <1>4, <1>5 DEF PeersInv, SeedInv, Sound, Seeding, peerVars

LEMMA TurnKeepsPeers ==
  ASSUME OrderInv, PeersInv, NEW j \in Jobs, Turn(j) \/ Harmless(j) PROVE PeersInv'
<1> USE DEF OrderInv, ChainInv, TypeOK, SeedTypeOK
<1>1. CASE \E k \in Kinds : Request(j, k)
  BY <1>1, PeersUndisturbed DEF Request, seedVars
<1>2. CASE Alone(j)
  <2>1. UNCHANGED peerVars
    BY <1>2 DEF Alone, Lock, UpToDate, Diverged, Refused, Fetch, Merge, MergeFails, Test, Build, RollbackHead, AllSeeded
  <2>2. QED
    BY <1>2, <2>1, AloneHasNoChild, PeersUndisturbed
<1>3. CASE Seeded(j) \/ SeedTimesOut(j)
  <2>1. /\ child[j] \in Seeds /\ Gone(child[j])
        /\ \/ ~Seeding(child[j]) /\ UNCHANGED peerVars
           \/ CutShort(child[j])
    BY <1>3 DEF Seeded, SeedTimesOut
  <2>2. step[child[j]] # "free"
    BY <1>3, ChildrenSeed DEF Seeded, SeedTimesOut
  <2>3. QED
    BY <2>1, <2>2, GoneKeepsPeers
<1>4. CASE Killed(j)
  <2>1. CASE kind[j] = "update" /\ child[j] # NoSeed
    BY <1>4, <2>1, ChildrenSeed, GoneKeepsPeers DEF Killed
  <2>2. CASE ~(kind[j] = "update" /\ child[j] # NoSeed)
    BY <1>4, <2>2, PeersUndisturbed DEF Killed
  <2>3. QED
    BY <2>1, <2>2
<1>5. QED
  BY <1>1, <1>2, <1>3, <1>4, StartKeepsPeers DEF Turn, Harmless, Script, Alone, Kinds

LEMMA PeersNext == OrderInv /\ PeersInv /\ [Orderly]_vars => PeersInv'
<1> SUFFICES ASSUME OrderInv, PeersInv, [Orderly]_vars PROVE PeersInv'
  OBVIOUS
<1>1. CASE Development \/ LocalBuild
  BY <1>1, PeersUndisturbed DEF Development, RemoteCommit, LocalCommit, Push, Status, LocalBuild
<1>2. ASSUME NEW s \in Seeds, OrphanExits(s) PROVE PeersInv'
  BY <1>2, GoneKeepsPeers DEF OrphanExits, Seeding
<1>3. ASSUME NEW p \in Peers, PeerRestarts(p) PROVE PeersInv'
  BY <1>3 DEF PeerRestarts, Started, OrderInv, ChainInv, TypeOK, SeedTypeOK, PeersInv, SeedInv, Sound,
     Seeding, seedVars
<1>4. CASE UNCHANGED vars
  BY <1>4, PeersUndisturbed DEF vars, peerVars, seedVars
<1>5. QED
  BY <1>1, <1>2, <1>3, <1>4, OrderlySteps, TurnKeepsPeers, SeedKeepsPeers

(* "Restored automatically if the new build fails to become healthy": also  *)
(* where scripts are killed and commands fail, every peer is left with a    *)
(* build that comes up, or else in doubt.                                   *)
THEOREM PeersAreLeftUp == OrderlySpec => []PeersStayUp
<1>1. Init => PeersInv
  BY DEF Init, SeedInit, PeersInv, Sound, Comes, Seeding
<1>2. PeersInv => PeersStayUp
  BY DEF PeersInv, PeersStayUp, Sound
<1>3. QED
  BY <1>1, <1>2, OrderInit, OrderNext, PeersNext, PTL DEF OrderlySpec

-----------------------------------------------------------------------------
(* What a job knows of the peers it has seeded: until one fails, they all   *)
(* run what is built; and so does the one whose seed succeeds.              *)
Deployed(p) == binary[p] = built /\ running[p] = built

ChildInv(s) ==
  /\ step[s] \in {"restart", "verify"} => binary[target[s]] = built
  /\ step[s] \in {"verify", "succeeded"} => Deployed(target[s])

DeployInv ==
  \A j \in Jobs : at[j] = "seed" =>
    /\ j \notin failing => \A p \in Peers \ todo[j] : Deployed(p)
    /\ child[j] # NoSeed => ChildInv(child[j])

LEMMA DeployUndisturbed ==
  ASSUME DeployInv, UNCHANGED <<built, binary, running, seedVars, failing, todo, child>>,
         \A j \in Jobs : at'[j] = "seed" => at[j] = "seed"
  PROVE  DeployInv'
BY DEF DeployInv, ChildInv, Deployed, seedVars

LEMMA SeedKeepsDeployed ==
  ASSUME OrderInv, DeployInv, NEW s \in Seeds, SeedRuns(s) \/ Break(s), UNCHANGED jobVars
  PROVE  DeployInv'
<1> USE DEF OrderInv, ChainInv, TypeOK, SeedTypeOK
<1>1. Seeding(s) /\ UNCHANGED <<built, target, at, todo, child, failing>>
  BY SeedStepsOn DEF jobVars
<1>2. PICK j \in Jobs : child[j] = s
  BY <1>1 DEF SeedsHaveParents
<1>3. at[j] = "seed" /\ target[s] \in todo[j] /\ target[s] \in Peers
  BY <1>2, ChildrenSeed, RolloutAssumption
<1>4. \A i \in Jobs : at[i] = "seed" => i = j
  BY <1>3, OneWorks DEF Works
<1>5. ChildInv(s)
  BY <1>2, <1>3, RolloutAssumption DEF DeployInv
<1>6. /\ ChildInv(s)'
      /\ \A p \in Peers \ {target[s]} : binary'[p] = binary[p] /\ running'[p] = running[p]
  <2> USE DEF ChildInv, Deployed, SeedGoto, BackedUp, Installed, Restored, Started, Untouched,
              CopySkipped, peerVars
  <2>1. CASE Backup(s)
    BY <1>3, <1>5, <2>1 DEF Backup
  <2>2. CASE CopyBinary(s)
    BY <1>3, <1>5, <2>2 DEF CopyBinary
  <2>3. CASE Restart(s)
    BY <1>3, <1>5, <2>3 DEF Restart
  <2>4. CASE Verify(s)
    BY <1>3, <1>5, <2>4 DEF Verify
  <2>5. CASE RollBack(s)
    BY <1>3, <1>5, <2>5 DEF RollBack
  <2>6. CASE RestartOld(s)
    BY <1>3, <1>5, <2>6 DEF RestartOld
  <2>7. CASE Recheck(s)
    BY <1>3, <1>5, <2>7 DEF Recheck
  <2>8. CASE Break(s)
    <3>1. CutShort(s) /\ step[s] # "free" /\ step'[s] = "failed"
      BY <2>8 DEF Break
    <3>2. QED
      BY <3>1, CutShortElsewhere
  <2>9. QED
    BY <2>1, <2>2, <2>3, <2>4, <2>5, <2>6, <2>7, <2>8 DEF SeedRuns
<1>7. QED
  BY <1>1, <1>2, <1>3, <1>4, <1>6 DEF DeployInv, Deployed

LEMMA TurnKeepsDeployed ==
  ASSUME OrderInv, DeployInv, NEW j \in Jobs, Turn(j) \/ Harmless(j) PROVE DeployInv'
<1> USE DEF OrderInv, ChainInv, TypeOK, SeedTypeOK
<1>1. CASE \E k \in Kinds : Request(j, k)
  BY <1>1, DeployUndisturbed DEF Request, Goto, peerVars
<1>2. CASE Lock(j) \/ Build(j)
  <2>1. /\ ~ \E i \in Jobs : i # j /\ at[i] = "seed"
        /\ at'[j] = "seed" => todo'[j] = Peers
        /\ \A i \in Jobs \ {j} : at'[i] = at[i]
        /\ child' = child
    <3>1. \A i \in Jobs \ {j} : at'[i] = at[i]
      BY <1>2 DEF Lock, Build, BeginSeeding, Goto
    <3>2. at'[j] = "seed" => todo'[j] = Peers
      BY <1>2 DEF Lock, Build, BeginSeeding, Goto
    <3>3. CASE Lock(j)
      <4>1. at[j] = "lock" /\ lock = NoJob /\ child' = child
        BY <3>3 DEF Lock, BeginSeeding, Goto
      <4>2. ~ \E i \in Jobs : i # j /\ at[i] = "seed"
        BY <4>1, RolloutAssumption DEF ForcedAlone, LockHeld
      <4>3. QED
        BY <3>1, <3>2, <4>1, <4>2
    <3>4. CASE Build(j)
      BY <3>4, <3>1, <3>2, OneWorks DEF Build, BeginSeeding, Goto, Works
    <3>5. QED
      BY <1>2, <3>3, <3>4
  <2>2. child[j] = NoSeed
    BY <1>2 DEF Lock, Build, BeginSeeding, Goto
  <2>3. QED
    BY <2>1, <2>2 DEF DeployInv
<1>3. CASE Ends(j) \/ RollbackHead(j) \/ Killed(j)
  <2>1. /\ \E result \in {"ok", "failed", "none"} : Finish(j, result)
        /\ at[j] # "idle" /\ UNCHANGED built
    BY <1>3, EndsFinish DEF RollbackHead, Killed
  <2>2. at' = [at EXCEPT ![j] = "idle"]
    BY <2>1 DEF Finish
  <2>3. \A i \in Jobs \ {j} : /\ at'[i] = at[i] /\ todo'[i] = todo[i] /\ child'[i] = child[i]
                              /\ i \in failing <=> i \in failing'
    BY <2>1 DEF Finish
  <2>4. CASE UNCHANGED <<seedVars, peerVars>>
    BY <2>1, <2>2, <2>3, <2>4 DEF DeployInv, ChildInv, Deployed, peerVars, seedVars
  <2>5. CASE ~UNCHANGED <<seedVars, peerVars>>
    <3>1. child[j] # NoSeed
      BY <1>3, <2>5, EndsFinish DEF RollbackHead, Killed
    <3>2. at[j] = "seed"
      BY <3>1
    <3>3. \A i \in Jobs : at'[i] # "seed"
      BY <2>2, <3>2, OneWorks DEF Works
    <3>4. QED
      BY <3>3 DEF DeployInv
  <2>6. QED
    BY <2>4, <2>5
<1>4. CASE Fetch(j) \/ Merge(j) \/ Test(j)
  BY <1>4, DeployUndisturbed DEF Fetch, Merge, Test, Goto, peerVars
<1>5. CASE StartSeed(j)
  <2>1. PICK p \in todo[j], s \in Seeds : Launch(s, p) /\ child' = [child EXCEPT ![j] = s]
    BY <1>5 DEF StartSeed
  <2>2. UNCHANGED <<built, peerVars, at, todo, failing>> /\ at[j] = "seed"
    BY <1>5 DEF StartSeed
  <2>3. \A i \in Jobs : at[i] = "seed" => i = j
    BY <2>2, OneWorks DEF Works
  <2>4. ChildInv(s)'
    BY <2>1 DEF ChildInv, Launch
  <2>5. child'[j] = s
    BY <2>1
  <2>6. QED
    BY <2>2, <2>3, <2>4, <2>5 DEF DeployInv, Deployed, peerVars
<1>6. CASE Seeded(j) \/ SeedTimesOut(j)
  <2>1. /\ child[j] # NoSeed /\ child' = [child EXCEPT ![j] = NoSeed]
        /\ todo' = [todo EXCEPT ![j] = @ \ {target[child[j]]}]
        /\ UNCHANGED <<built, at>>
    BY <1>6 DEF Seeded, SeedTimesOut
  <2>2. /\ at[j] = "seed" /\ target[child[j]] \in Peers
        /\ child[j] \in Seeds /\ step[child[j]] # "free"
    BY <2>1, ChildrenSeed
  <2>3. \A i \in Jobs : at[i] = "seed" => i = j
    BY <2>2, OneWorks DEF Works
  <2>4. j \notin failing' => /\ j \notin failing /\ step[child[j]] = "succeeded"
                            /\ UNCHANGED peerVars
    BY <1>6, <2>2 DEF Seeded, SeedTimesOut, Seeding
  <2>5. j \notin failing' => \A p \in Peers \ todo'[j] : Deployed(p)'
    BY <2>1, <2>2, <2>4 DEF DeployInv, ChildInv, Deployed, peerVars
  <2>6. QED
    BY <2>1, <2>3, <2>5 DEF DeployInv
<1>7. QED
  BY <1>1, <1>2, <1>3, <1>4, <1>5, <1>6 DEF Turn, Harmless, Script, Ends, Kinds

LEMMA DeployNext == OrderInv /\ DeployInv /\ [Orderly]_vars => DeployInv'
<1> SUFFICES ASSUME OrderInv, DeployInv, [Orderly]_vars PROVE DeployInv'
  OBVIOUS
<1>1. CASE Development
  BY <1>1, DeployUndisturbed DEF Development, RemoteCommit, LocalCommit, Push, Status, peerVars, jobVars
<1>2. CASE (\A j \in Jobs : at[j] \in {"idle", "lock"}) /\ LocalBuild
  BY <1>2 DEF LocalBuild, DeployInv, jobVars
<1>3. ASSUME NEW s \in Seeds, OrphanExits(s) PROVE DeployInv'
  BY <1>3 DEF OrphanExits, Gone, DeployInv, ChildInv, Deployed, peerVars, jobVars
<1>4. ASSUME NEW p \in Peers, PeerRestarts(p), UNCHANGED jobVars PROVE DeployInv'
  BY <1>4 DEF PeerRestarts, Started, OrderInv, ChainInv, TypeOK, SeedTypeOK, DeployInv, ChildInv,
     Deployed, seedVars, jobVars
<1>5. CASE UNCHANGED vars
  BY <1>5, DeployUndisturbed DEF vars, seedVars
<1>6. QED
  BY <1>1, <1>2, <1>3, <1>4, <1>5, OrderlySteps, TurnKeepsDeployed, SeedKeepsDeployed

OkDeployed(j) == \/ \A p \in Peers : running[p] = built
                 \/ at[j] = "fetch" /\ kind[j] # "forcedPull" /\ remote \subseteq head

(* A job that ends and answers ok has seeded every peer, or had nothing to  *)
(* pull.                                                                    *)
LEMMA OkAnswers ==
  ASSUME OrderInv, DeployInv, Orderly, NEW j \in Jobs,
         at[j] # "idle", at'[j] = "idle", answer' = "ok"
  PROVE  OkDeployed(j)
<1> USE DEF OrderInv, ChainInv, TypeOK
<1>1. PICK i \in Jobs : Turn(i) \/ Harmless(i)
  BY OrderlySteps DEF OrphanExits, PeerRestarts, Development, RemoteCommit, LocalCommit, Push,
     Status, LocalBuild, jobVars
<1>2. CASE \E k \in Kinds : Request(i, k)
  BY <1>2 DEF Request, Goto
<1>3. CASE Lock(i) \/ Fetch(i) \/ Merge(i) \/ Test(i) \/ Build(i) \/ StartSeed(i) \/ Seeded(i)
  BY <1>3 DEF Lock, Fetch, Merge, Test, Build, StartSeed, Seeded, Goto, BeginSeeding
<1>4. CASE SeedTimesOut(i)
  BY <1>4 DEF SeedTimesOut
<1>5. CASE Diverged(i) \/ Refused(i) \/ MergeFails(i) \/ RollbackHead(i) \/ Killed(i)
  BY <1>5 DEF Diverged, Refused, MergeFails, RollbackHead, Killed, Finish
<1>6. CASE UpToDate(i)
  BY <1>6 DEF UpToDate, Finish, OkDeployed, Behind
<1>7. CASE AllSeeded(i)
  <2>1. i = j /\ i \notin failing /\ at[i] = "seed" /\ todo[i] = {}
    BY <1>7 DEF AllSeeded, Finish
  <2>2. QED
    BY <2>1 DEF DeployInv, Deployed, OkDeployed
<1>8. QED
  BY <1>1, <1>2, <1>3, <1>4, <1>5, <1>6, <1>7 DEF Turn, Harmless, Script, Kinds

(* A job that answers ok has every peer on what the master has built, or is *)
(* a pull that had nothing to pull: whatever else was killed or broke.      *)
THEOREM OkIsDeployed == OrderlySpec => OkMeansDeployed
<1> DEFINE Ok == \A j \in Jobs : at[j] # "idle" /\ at'[j] = "idle" /\ answer' = "ok" =>
                   OkDeployed(j)
<1>1. Init => DeployInv
  BY DEF Init, DeployInv
<1>2. OrderInv /\ DeployInv /\ [Orderly]_vars => [Ok]_vars
  BY OkAnswers
<1>3. [Ok]_vars => [\A j \in Jobs : at[j] # "idle" /\ at'[j] = "idle" /\ answer' = "ok" =>
                      \/ \A p \in Peers : running[p] = built
                      \/ at[j] = "fetch" /\ kind[j] # "forcedPull" /\ remote \subseteq head]_vars
  BY DEF OkDeployed
<1>4. QED
  BY <1>1, <1>2, <1>3, OrderInit, OrderNext, DeployNext, PTL DEF OrderlySpec, OkMeansDeployed
=============================================================================
