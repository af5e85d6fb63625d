----------------------------- MODULE GitRepoProofs -----------------------------
(***************************************************************************)
(* Theorems about GitRepo, for all directories, any number of commits and  *)
(* every configuration.                                                    *)
(*                                                                         *)
(* Where a git command runs depends on every call of setRepoPath() so far. *)
(* The invariant says what is left of that history at each point: before   *)
(* the first call the stored path is the target and the process is at home;*)
(* after it the stored path is home, and the process is at home too but    *)
(* for the stretch from the first call to the next one.                    *)
(***************************************************************************)
EXTENDS GitRepo, TLAPS

(* The path each of the two tasks chooses when it is initialised at home.  *)
PathAtHome(task) == IF Given(task) # {} THEN Given(task) ELSE {posts[home]}

AtHome == pc \in {"waiting", "clone", "fetch", "checkout", "pull", "leave_pull", "idle"}
            => cwd = home

StoredPath ==
  /\ pc = "waiting" => repo_path = {} /\ target = {}
  /\ pc \in {"clone", "fetch"} => repo_path = target
  /\ pc \in {"enter_checkout", "checkout", "initialized", "pull", "leave_pull",
             "idle", "stopped"} => repo_path = {home}

Chosen ==
  /\ target # {} => target = PathAtHome("pull_updates")
  /\ find_path # {} /\ (pc # "stopped" \/ Given("find_posts") # {}) =>
       find_path = PathAtHome("find_posts")

(* What holds of the directories also where something else than the task   *)
(* may end the process.                                                    *)
DirInv == TypeOK /\ AtHome /\ StoredPath /\ home \in dirs

IInv == DirInv /\ Chosen

LEMMA InitIInv == Init => IInv
BY DirAssumption DEF Init, IInv, DirInv, TypeOK, AtHome, StoredPath, Chosen, PC

(* A path is a single directory, and made if nobody has given it.          *)
LEMMA Path ==
  ASSUME TypeOK, NEW task \in {"pull_updates", "find_posts"}
  PROVE  /\ Given(task) \in NoneOrOne(Paths)
         /\ RepoPath(task) \subseteq Dir /\ MadeFor(task) \subseteq Dir
         /\ cwd = home => RepoPath(task) = PathAtHome(task)
<1>1. paths[task] \in NoneOrOne(Paths) /\ paths["REPO_PATH"] \in NoneOrOne(Paths)
  BY DEF TypeOK, PathSource
<1>2. Given(task) \in NoneOrOne(Paths)
  BY <1>1 DEF Given
<1>3. Given(task) \subseteq Dir /\ posts[cwd] \in Dir
  BY <1>2, DirAssumption DEF NoneOrOne, TypeOK
<1> QED BY <1>2, <1>3 DEF RepoPath, MadeFor, PathAtHome

(* The configuration does not change while the process runs, nor do the    *)
(* paths that follow from it.                                              *)
LEMMA SamePaths ==
  ASSUME UNCHANGED settings
  PROVE  \A task : Given(task)' = Given(task) /\ PathAtHome(task)' = PathAtHome(task)
BY DEF settings, Given, PathAtHome

LEMMA SetRepoPathType ==
  ASSUME NEW p \in Dir, TypeOK, CanSetRepoPath, setRepoPath(p)
  PROVE  cwd' \in Dir /\ cwd' \in dirs /\ cwd' \in repo_path /\ repo_path' = {p}
BY DEF TypeOK, CanSetRepoPath, setRepoPath

(* The steps of initialize().                                              *)
LEMMA InitializeSteps ==
  ASSUME DirInv, Initialize \/ NoUrl \/ Clone \/ InitializeThrows
  PROVE  DirInv' /\ (Chosen => Chosen')
<1> USE DirAssumption, SamePaths DEF DirInv, AtHome, StoredPath, Chosen
<1>1. CASE Initialize
  BY <1>1, Path DEF Initialize, TypeOK, settings, PC
<1>2. CASE NoUrl
  BY <1>2 DEF NoUrl, Terminate, TypeOK, settings, disk, PC
<1>3. CASE Clone
  <2>1. /\ clone' \in [Dir -> SUBSET (0 .. MaxCommits)]
        /\ dirs' \subseteq Dir /\ home \in dirs'
    BY <1>3 DEF Clone, TypeOK
  <2> QED BY <1>3, <2>1 DEF Clone, TypeOK, settings, PC
<1>4. CASE InitializeThrows
  BY <1>4 DEF InitializeThrows, Terminate, TypeOK, settings, disk, PC
<1> QED BY <1>1, <1>2, <1>3, <1>4

(* The steps that change directory.                                        *)
LEMMA DirectorySteps ==
  ASSUME DirInv, Fetch \/ EnterCheckout \/ Checkout \/ EnterPull \/ LeavePull
  PROVE  DirInv' /\ (Chosen => Chosen')
<1> USE DirAssumption, SamePaths DEF DirInv, AtHome, StoredPath, Chosen
<1>1. CASE Fetch
  BY <1>1, SetRepoPathType DEF Fetch, TypeOK, settings, disk, PC
<1>2. CASE EnterCheckout
  <2>1. setRepoPath(home) BY <1>2 DEF EnterCheckout
  <2> QED BY <1>2, <2>1, SetRepoPathType DEF EnterCheckout, TypeOK, settings, disk, PC
<1>3. CASE Checkout
  BY <1>3, SetRepoPathType DEF Checkout, TypeOK, settings, disk, PC
<1>4. CASE EnterPull
  <2>1. setRepoPath(home) BY <1>4 DEF EnterPull
  <2> QED BY <1>4, <2>1, SetRepoPathType DEF EnterPull, TypeOK, settings, disk, PC
<1>5. CASE LeavePull
  BY <1>5, SetRepoPathType DEF LeavePull, TypeOK, settings, disk, PC
<1> QED BY <1>1, <1>2, <1>3, <1>4, <1>5

(* Everything else.                                                        *)
LEMMA RemainingSteps ==
  ASSUME DirInv,
         Pull \/ PullThrows \/ StopBeforeRun \/ FindPostsInitialize \/ Push \/ Restart
           \/ UNCHANGED vars
  PROVE  DirInv' /\ (Chosen => Chosen')
<1> USE DirAssumption, SamePaths DEF DirInv, AtHome, StoredPath, Chosen
<1>1. CASE Pull
  <2>1. clone' \in [Dir -> SUBSET (0 .. MaxCommits)]
    BY <1>1 DEF Pull, TypeOK
  <2> QED BY <1>1, <2>1 DEF Pull, TypeOK, settings, PC
<1>2. CASE PullThrows
  BY <1>2 DEF PullThrows, TypeOK, settings, disk, PC
<1>3. CASE StopBeforeRun
  BY <1>3 DEF StopBeforeRun, TypeOK, settings, disk, PC
<1>4. CASE FindPostsInitialize
  <2>1. /\ find_path' = RepoPath("find_posts") /\ find_path' \subseteq Dir
        /\ dirs' \subseteq Dir /\ home \in dirs'
    BY <1>4, Path DEF FindPostsInitialize, TypeOK
  <2>2. UNCHANGED <<settings, clone, upstream, cwd, repo_path, target, pc>>
    BY <1>4 DEF FindPostsInitialize
  <2>3. pc # "stopped" \/ Given("find_posts") # {} =>
          find_path' = PathAtHome("find_posts")
    <3>1. CASE pc # "stopped"
      BY <1>4, <2>1, <3>1, Path DEF FindPostsInitialize
    <3>2. CASE Given("find_posts") # {}
      BY <2>1, <3>2 DEF RepoPath, PathAtHome
    <3> QED BY <3>1, <3>2
  <2>4. DirInv'
    BY <2>1, <2>2 DEF TypeOK, settings
  <2>5. ASSUME Chosen PROVE Chosen'
    BY <2>2, <2>3, <2>5
  <2> QED BY <2>4, <2>5
<1>5. CASE Push
  BY <1>5 DEF Push, TypeOK, settings, PC
<1>6. CASE Restart
  BY <1>6 DEF Restart, TypeOK, settings, disk, PC
<1>7. CASE UNCHANGED vars
  BY <1>7 DEF vars, TypeOK, settings, disk, PC
<1> QED BY <1>1, <1>2, <1>3, <1>4, <1>5, <1>6, <1>7

LEMMA NextDirInv == DirInv /\ [Next]_vars => DirInv' /\ (Chosen => Chosen')
BY InitializeSteps, DirectorySteps, RemainingSteps DEF Next, Task

LEMMA NextIInv == IInv /\ [Next]_vars => IInv'
BY NextDirInv DEF IInv

LEMMA Invariance == Spec => []IInv
BY InitIInv, NextIInv, PTL DEF Spec

-----------------------------------------------------------------------------
(* The variables keep their types: in particular the process never leaves  *)
(* the directories that exist in the model.                                *)
THEOREM TypeCorrect == Spec => []TypeOK
<1>1. IInv => TypeOK BY DEF IInv, DirInv
<1> QED BY <1>1, Invariance, PTL

(* Whenever pull_updates is not in its code, the process is at home.       *)
THEOREM Home == Spec => []AtHomeForTheOthers
<1>1. IInv => AtHomeForTheOthers BY DEF IInv, DirInv, AtHome, AtHomeForTheOthers
<1> QED BY <1>1, Invariance, PTL

(* find_posts searches what pull_updates has cloned into, unless one of the*)
(* two has a path of its own, or find_posts, without any, was initialised  *)
(* after a stop that left the process in the clone.                        *)
THEOREM SameDirectory == Spec => []FindPostsSearchesTheClone
<1>1. ASSUME IInv, target # {}, find_path # {},
             ~HasPathOfItsOwn("pull_updates"), ~HasPathOfItsOwn("find_posts"),
             ~(pc = "stopped" /\ paths["find_posts"] = {} /\ paths["REPO_PATH"] = {})
      PROVE  find_path = target
  <2>1. Given("pull_updates") = Given("find_posts")
    BY <1>1 DEF HasPathOfItsOwn, PathSource, Given
  <2>2. PathAtHome("pull_updates") = PathAtHome("find_posts")
    BY <2>1 DEF PathAtHome
  <2>3. target = PathAtHome("pull_updates")
    BY <1>1 DEF IInv, Chosen
  <2>4. pc # "stopped" \/ Given("find_posts") # {}
    BY <1>1 DEF Given
  <2>5. find_path = PathAtHome("find_posts")
    BY <1>1, <2>4 DEF IInv, Chosen
  <2> QED BY <2>2, <2>3, <2>5
<1>2. IInv => FindPostsSearchesTheClone
  BY <1>1 DEF FindPostsSearchesTheClone
<1> QED BY <1>2, Invariance, PTL

(* No git command of a run throws for a missing directory.                 *)
THEOREM DirectoriesExist == Spec => []RunsHaveTheirDirectory
<1>1. IInv => RunsHaveTheirDirectory
  BY DEF IInv, DirInv, StoredPath, RunsHaveTheirDirectory, CanSetRepoPath
<1> QED BY <1>1, Invariance, PTL

-----------------------------------------------------------------------------
(* As pulls are made at home and clones elsewhere, no clone is ever brought*)
(* up to date, unless the repository path is the process's home itself.    *)

NothingAtHome == clone[home] = {}

LEMMA HomeStaysEmpty ==
  ASSUME home \notin Paths, posts[home] # home,
         IInv, NothingAtHome, [Next]_vars
  PROVE  NothingAtHome'
<1> USE DirAssumption DEF NothingAtHome
<1>1. CASE Clone
  <2>1. home \notin repo_path
    <3>1. repo_path = target /\ Given("pull_updates") \in NoneOrOne(Paths)
      BY <1>1, Path DEF Clone, IInv, DirInv, StoredPath
    <3>2. target = {} \/ target = PathAtHome("pull_updates")
      BY DEF IInv, Chosen
    <3> QED BY <3>1, <3>2 DEF PathAtHome, NoneOrOne
  <2> QED BY <1>1, <2>1 DEF Clone, IInv, DirInv, TypeOK
<1>2. CASE Pull
  BY <1>2 DEF Pull, IInv, DirInv, TypeOK, AtHome
<1>3. CASE ~Clone /\ ~Pull
  <2>1. clone' = clone
    BY <1>3 DEF Next, Task, Initialize, NoUrl, Terminate, Fetch, EnterCheckout, Checkout,
       InitializeThrows, EnterPull, LeavePull, PullThrows, StopBeforeRun,
       FindPostsInitialize, Push, Restart, vars, disk
  <2> QED BY <2>1
<1> QED BY <1>1, <1>2, <1>3

LEMMA StepKeepsClones ==
  ASSUME IInv, NothingAtHome, [Next]_vars
  PROVE  \A d \in Dir : clone[d] # {} => clone'[d] = clone[d]
<1>1. CASE Clone
  BY <1>1 DEF Clone, IInv, DirInv, TypeOK
<1>2. CASE Pull
  BY <1>2 DEF Pull, IInv, DirInv, AtHome, NothingAtHome
<1>3. CASE ~Clone /\ ~Pull
  BY <1>3 DEF Next, Task, Initialize, NoUrl, Terminate, Fetch, EnterCheckout, Checkout,
     InitializeThrows, EnterPull, LeavePull, PullThrows, StopBeforeRun,
     FindPostsInitialize, Push, Restart, vars, disk
<1> QED BY <1>1, <1>2, <1>3

(* No run, branch or restart ever brings a clone up to date.               *)
THEOREM Frozen ==
  ASSUME home \notin Paths, posts[home] # home
  PROVE  Spec => ClonesNeverChange
<1>1. Init => NothingAtHome
  BY DirAssumption DEF Init, NothingAtHome
<1>2. IInv /\ NothingAtHome /\ [Next]_vars => NothingAtHome'
  BY HomeStaysEmpty
<1>3. IInv /\ NothingAtHome /\ [Next]_vars =>
        [\A d \in Dir : clone[d] # {} => clone'[d] = clone[d]]_vars
  BY StepKeepsClones
<1> QED BY <1>1, <1>2, <1>3, Invariance, PTL DEF Spec, ClonesNeverChange
=============================================================================
