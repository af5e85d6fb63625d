-------------------------------- MODULE GitRepo --------------------------------
(***************************************************************************)
(* The pull_updates task (types/repo/PullUpdates.h) and the Git object it  *)
(* drives (types/repo/git/git.h).  The object changes into a directory     *)
(* before a command and out of it afterwards; the working directory        *)
(* belongs to the whole process, and find_posts takes its default posts    *)
(* directory from it.                                                      *)
(*                                                                         *)
(* setRepoPath(p) is two statements: change into config.repo_path AS IT IS,*)
(* then set config.repo_path to p.                                         *)
(***************************************************************************)
EXTENDS Naturals

CONSTANTS
  Dir,            \* directories
  home,           \* where the process is started
  Paths,          \* the directories that may be configured as a repo_path
  posts,          \* posts[d] is the directory d/posts
  MaxCommits      \* bound: commits pushed to the remote

ASSUME DirAssumption == /\ home \in Dir /\ Paths \subseteq Dir
                        /\ posts \in [Dir -> Dir]
                        /\ MaxCommits \in Nat

(* Where a url, and where a path, can be given: in a task's section of the *)
(* plugin's configuration, in the environment, or under a key that is not  *)
(* the task's name (the shipped config.json: "initialize_repo").  Both     *)
(* pull_updates and find_posts have a section and look for a path in it.   *)
UrlSource  == {"pull_updates", "REPO_URL", "initialize_repo"}
PathSource == {"pull_updates", "find_posts", "REPO_PATH"}

NoneOrOne(S) == {{}} \cup { {d} : d \in S }

VARIABLES
  urls,           \* the places that give a url
  paths,          \* per place, the path it gives, none or one
  repo_branch,
  dirs,           \* the directories that exist
  clone,          \* per directory, the commit a clone in it is at, none or one
  upstream,       \* the remote's last commit
  cwd,            \* the process's working directory
  repo_path,      \* config.repo_path of the Git object, none or one directory
  target,         \* the repo_path initialize() logs, none or one
  find_path,      \* find_posts' repo_path, none or one
  pc              \* where the pull_updates thread is

settings == <<urls, paths, repo_branch>>
disk == <<dirs, clone, upstream>>
vars == <<settings, disk, cwd, repo_path, target, find_path, pc>>

Init == /\ urls \in SUBSET UrlSource
        /\ paths \in [PathSource -> NoneOrOne(Paths)]
        /\ repo_branch \in {"main", "other"}
        /\ dirs \in { {home} \cup D : D \in SUBSET ({posts[home]} \cup Paths) }
        /\ clone = [d \in Dir |-> {}]
        /\ upstream = 0
        /\ cwd = home
        /\ repo_path = {} /\ target = {} /\ find_path = {}
        /\ pc = "waiting"

(* setRepoPath(p); the change of directory throws if there is none.        *)
CanSetRepoPath == repo_path \subseteq dirs

setRepoPath(p) == /\ cwd' \in repo_path
                  /\ repo_path' = {p}

-----------------------------------------------------------------------------
(* initialize()                                                            *)

(* A task's repo_path: the one of its own section, or else of REPO_PATH,   *)
(* or else the directory posts of the working directory, which is made.    *)
Given(task) == IF paths[task] # {} THEN paths[task] ELSE paths["REPO_PATH"]

RepoPath(task) == IF Given(task) # {} THEN Given(task) ELSE {posts[cwd]}

MadeFor(task) == IF Given(task) # {} THEN {} ELSE {posts[cwd]}

HasUrl == urls \cap {"pull_updates", "REPO_URL"} # {}

Terminate == /\ pc' = "terminated"
             /\ UNCHANGED <<settings, disk, cwd, repo_path, target, find_path>>

Initialize ==
  /\ pc = "waiting" /\ HasUrl
  /\ target' = RepoPath("pull_updates")
  /\ repo_path' = RepoPath("pull_updates")
  /\ dirs' = dirs \cup MadeFor("pull_updates")
  /\ pc' = "clone"
  /\ UNCHANGED <<settings, clone, upstream, cwd, find_path>>

NoUrl == pc = "waiting" /\ ~HasUrl /\ Terminate

(* git clone url path: needs the network and no clone at the path.  Its    *)
(* exit status is ignored.                                                 *)
Clone ==
  /\ pc = "clone"
  /\ \/ UNCHANGED <<dirs, clone>>
     \/ \E d \in repo_path :
          /\ clone[d] = {}
          /\ dirs' = dirs \cup {d}
          /\ clone' = [clone EXCEPT ![d] = {upstream}]
  /\ pc' = "fetch"
  /\ UNCHANGED <<settings, upstream, cwd, repo_path, target, find_path>>

(* Slip: does not leave the directory it never entered.                    *)
FetchInPlace ==
  /\ pc = "fetch"
  /\ pc' = IF repo_branch = "main" THEN "initialized" ELSE "enter_checkout"
  /\ UNCHANGED <<settings, disk, cwd, repo_path, target, find_path>>

(* git fetch runs where the process is and brings no file up to date.      *)
Fetch ==
  /\ pc = "fetch" /\ CanSetRepoPath
  /\ setRepoPath(home)
  /\ pc' = IF repo_branch = "main" THEN "initialized" ELSE "enter_checkout"
  /\ UNCHANGED <<settings, disk, target, find_path>>

EnterCheckout ==
  /\ pc = "enter_checkout" /\ CanSetRepoPath
  /\ \E p \in repo_path : setRepoPath(p)
  /\ pc' = "checkout"
  /\ UNCHANGED <<settings, disk, target, find_path>>

Checkout ==
  /\ pc = "checkout" /\ CanSetRepoPath
  /\ setRepoPath(home)
  /\ pc' = "initialized"
  /\ UNCHANGED <<settings, disk, target, find_path>>

(* A missing directory, or popen() failing, throws out of initialize().    *)
InitializeThrows ==
  /\ \/ pc \in {"fetch", "enter_checkout"} /\ ~CanSetRepoPath
     \/ pc \in {"clone", "fetch", "checkout"}
  /\ Terminate

-----------------------------------------------------------------------------
(* run()                                                                   *)

(* Right after initialize(), or after an interval.                         *)
EnterPull ==
  /\ pc \in {"initialized", "idle"} /\ CanSetRepoPath
  /\ \E p \in repo_path : setRepoPath(p)
  /\ pc' = "pull"
  /\ UNCHANGED <<settings, disk, target, find_path>>

(* git pull brings the clone in the working directory up to date, if there *)
(* is one and the network works.                                           *)
Pull ==
  /\ pc = "pull"
  /\ \/ UNCHANGED clone
     \/ clone[cwd] # {} /\ clone' = [clone EXCEPT ![cwd] = {upstream}]
  /\ pc' = "leave_pull"
  /\ UNCHANGED <<settings, dirs, upstream, cwd, repo_path, target, find_path>>

LeavePull ==
  /\ pc = "leave_pull" /\ CanSetRepoPath
  /\ setRepoPath(home)
  /\ pc' = "idle"
  /\ UNCHANGED <<settings, disk, target, find_path>>

(* run() catches what pull() throws; the rest of pull() is left out.       *)
PullThrows ==
  /\ pc = "pull"
  /\ pc' = "idle"
  /\ UNCHANGED <<settings, disk, cwd, repo_path, target, find_path>>

(* The group has been told to stop before the first run.                   *)
StopBeforeRun ==
  /\ pc = "initialized"
  /\ pc' = "stopped"
  /\ UNCHANGED <<settings, disk, cwd, repo_path, target, find_path>>

-----------------------------------------------------------------------------
(* Slip: does not look at REPO_PATH.                                       *)
FindPostsInitializeInPosts ==
  LET path == IF paths["find_posts"] # {} THEN paths["find_posts"] ELSE {posts[cwd]} IN
  /\ find_path = {} /\ pc \in {"waiting", "idle", "stopped"}
  /\ find_path' = path
  /\ dirs' = dirs \cup path
  /\ UNCHANGED <<settings, clone, upstream, cwd, repo_path, target, pc>>

(* find_posts' initialize(): on its own thread, but never while this task  *)
(* is in its code (TaskGroup, OneTaskAtATime).                             *)
FindPostsInitialize ==
  /\ find_path = {} /\ pc \in {"waiting", "idle", "stopped"}
  /\ find_path' = RepoPath("find_posts")
  /\ dirs' = dirs \cup MadeFor("find_posts")
  /\ UNCHANGED <<settings, clone, upstream, cwd, repo_path, target, pc>>

Push == /\ upstream < MaxCommits
        /\ upstream' = upstream + 1
        /\ UNCHANGED <<settings, dirs, clone, cwd, repo_path, target, find_path, pc>>

(* The process ends and is started again, in the same place, on the disk   *)
(* it left.                                                                *)
Restart == /\ cwd' = home
           /\ repo_path' = {} /\ target' = {} /\ find_path' = {}
           /\ pc' = "waiting"
           /\ UNCHANGED <<settings, disk>>

Task == \/ Initialize \/ NoUrl \/ Clone \/ Fetch
        \/ EnterCheckout \/ Checkout \/ InitializeThrows
        \/ EnterPull \/ Pull \/ LeavePull \/ PullThrows \/ StopBeforeRun

Next == Task \/ FindPostsInitialize \/ Push \/ Restart

Spec == Init /\ [][Next]_vars

-----------------------------------------------------------------------------
(* Properties                                                              *)

PC == {"waiting", "clone", "fetch", "enter_checkout", "checkout", "initialized",
       "pull", "leave_pull", "idle", "stopped", "terminated"}

TypeOK == /\ urls \subseteq UrlSource
          /\ paths \in [PathSource -> NoneOrOne(Paths)]
          /\ repo_branch \in {"main", "other"}
          /\ dirs \subseteq Dir
          /\ clone \in [Dir -> SUBSET (0 .. MaxCommits)]
          /\ upstream \in 0 .. MaxCommits
          /\ cwd \in Dir
          /\ repo_path \subseteq Dir /\ target \subseteq Dir /\ find_path \subseteq Dir
          /\ pc \in PC

(* Although every change of directory uses the path of the one before,     *)
(* the other tasks always find the process at home: whatever they resolve  *)
(* against the working directory is resolved against the right one.        *)
AtHomeForTheOthers == pc \in {"waiting", "idle"} => cwd = home

(* find_posts searches the directory pull_updates has cloned into, in      *)
(* whichever order the two are initialised, with two exceptions: a section *)
(* of one of them gives a path that neither REPO_PATH nor the other's      *)
(* section gives; or no path is given to find_posts, and the group was     *)
(* stopped between pull_updates' initialize() and its first run, which     *)
(* leaves the process in the clone.                                        *)
HasPathOfItsOwn(task) ==
  paths[task] # {} /\ \A place \in PathSource \ {task} : paths[place] # paths[task]

FindPostsSearchesTheClone ==
  target # {} /\ find_path # {} =>
    \/ find_path = target
    \/ HasPathOfItsOwn("pull_updates") \/ HasPathOfItsOwn("find_posts")
    \/ pc = "stopped" /\ paths["find_posts"] = {} /\ paths["REPO_PATH"] = {}

(* The git commands of a run that got past initialize() never throw for a  *)
(* missing directory, although a failed clone goes unnoticed.              *)
RunsHaveTheirDirectory ==
  pc \in {"initialized", "pull", "leave_pull", "idle"} => CanSetRepoPath

(* A clone is made once and stays as it is: no run, branch or restart ever *)
(* brings it up to date.                                                   *)
ClonesNeverChange ==
  [][\A d \in Dir : clone[d] # {} => clone'[d] = clone[d]]_vars

(* The pull of a run is made in the repository the task has logged as its  *)
(* target.                                                                 *)
PullRunsInTarget == pc = "pull" => {cwd} = target

(* A url in the plugin's configuration is enough to start the task.        *)
ConfiguredUrlSuffices ==
  [][pc = "waiting" /\ urls \cap {"pull_updates", "initialize_repo"} # {} =>
       pc' # "terminated"]_vars
=============================================================================
