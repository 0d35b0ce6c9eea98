--------------------------- MODULE ComponentStore ---------------------------
(***************************************************************************)
(* The store a Host keeps its signed component in: the active artifact,    *)
(* one staged candidate and the highest version ever accepted (the fence). *)
(* Several Host processes, the resident one and those of the command line, *)
(* share the directory under an exclusive lock of the kernel.  An update   *)
(* is staged, the fence is raised, and the candidate is renamed over the   *)
(* active file; a Host that starts finishes or drops what another one left *)
(* half done.                                                              *)
(*                                                                         *)
(* A file is written beside its place and renamed, and a rename is durable *)
(* once the directory is synced: `left' is what a loss of power may leave  *)
(* of the directory, its changes being undone from the last one on.  An    *)
(* artifact is its version; Built says which App can run it, Bad is        *)
(* contents that cannot be read or verified.  Download, manifest and       *)
(* signatures are abstracted into the version that passed their checks.    *)
(***************************************************************************)
EXTENDS Integers, FiniteSets

CONSTANTS Host,       \* the Host processes
          MaxVersion, \* the highest release
          Abi,        \* the interfaces between an App and its component
          Built,      \* the interface each release was built for
          Apps,       \* the installed Apps: bundled version, 0 for none, and interface
          Allowances  \* how often each fault may happen

Version == 1 .. MaxVersion
None == 0
Bad == -1
Content == {Bad, None} \cup Version
Kinds == {"die", "power", "fail", "unread", "corrupt"}

ASSUME StoreAssumption ==
  /\ MaxVersion \in Nat \ {0} /\ Host # {}
  /\ Built \in [Version -> Abi] /\ Apps \subseteq [baseline : 0 .. MaxVersion, abi : Abi]
  /\ Apps # {} /\ \A some \in Allowances : some \in [Kinds -> Nat]

VARIABLES
  dir,     \* what the directory holds
  left,    \* what a loss of power may leave of it
  step,    \* of the transaction under way, free if nobody has the lock
  holder,  \* who has the lock, or had it last
  host,    \* per process: its phase, App, loaded version and the update it applies
  reached, \* the highest version that was ever active for good
  acked,   \* the last update whose success was reported
  lost,    \* that one was dropped, damaged or could not be read since
  budget   \* what is left of the faults' allowance

store == <<dir, left, reached>>
applied == <<acked, lost>>
vars == <<store, step, holder, host, applied, budget>>

Directory == [candidate : Content, active : Content, fence : Content]
Steps == {"free", "recover", "dropped", "baseline", "floored",
          "activate", "staged", "fence", "fenced", "commit", "committed"}
Process == [phase : {"down", "starting", "up"}, app : Apps,
            run : {None} \cup Version, wants : {None} \cup Version]

(* The lock is held by a process that starts or that applies an update, in a step
   of what it does. *)
Opening == {"recover", "dropped", "baseline", "floored"}
Applying == {"activate", "staged", "fence", "fenced"}
TypeOK ==
  /\ dir \in Directory /\ left \in SUBSET Directory /\ dir \in left
  /\ step \in Steps /\ holder \in Host /\ host \in [Host -> Process]
  /\ reached \in {None} \cup Version /\ acked \in {None} \cup Version /\ lost \in BOOLEAN
  /\ budget \in [Kinds -> Nat]
  /\ \A h \in Host : host[h].wants # None => host[h].phase = "up"
  /\ step \in Opening => host[holder].phase = "starting"
  /\ step \in Applying => host[holder].wants # None
  /\ step \in {"commit", "committed"} =>
       host[holder].phase = "starting" \/ host[holder].wants # None

Empty == [candidate |-> None, active |-> None, fence |-> None]
Stopped ==
  [phase |-> "down", app |-> CHOOSE a \in Apps : TRUE, run |-> None, wants |-> None]
Init ==
  /\ dir = Empty /\ left = {Empty} /\ reached = None /\ acked = None /\ lost = FALSE
  /\ step = "free" /\ holder \in Host /\ budget \in Allowances
  /\ host = [h \in Host |-> Stopped]
-----------------------------------------------------------------------------
Spend(kind) == budget[kind] > 0 /\ budget' = [budget EXCEPT ![kind] = @ - 1]
Free == step = "free"
Holds(h, at) == holder = h /\ step = at
Goes(to) == step' = to /\ UNCHANGED holder

(* replace_bytes and the renames: visible at once. *)
Change(to) == dir' = to /\ left' = left \cup {to} /\ UNCHANGED reached
(* sync_directory *)
Durable(d) ==
  left' = {d} /\ reached' = IF d.active > reached THEN d.active ELSE reached
Sync == Durable(dir) /\ UNCHANGED dir

(* ArtifactVerifier::verify for the App of this process. *)
Verified(h, content) == content \in Version /\ Built[content] = host[h].app.abi
Readable == dir.fence # Bad
-----------------------------------------------------------------------------
(* A Host starts: ArtifactStore::open syncs the directory before it has the lock. *)
Start(h) ==
  /\ host[h].phase = "down"
  /\ \E a \in Apps :
       host' = [host EXCEPT ![h] = [Stopped EXCEPT !.phase = "starting", !.app = a]]
  /\ Sync /\ UNCHANGED <<step, holder, applied, budget>>
(* transaction: the lock of whoever starts or has downloaded an update. *)
Lock(h) ==
  /\ Free /\ holder' = h
  /\ \/ (host[h].phase = "starting" /\ step' = "recover")
     \/ (host[h].wants # None /\ step' = "activate")
  /\ UNCHANGED <<store, host, applied, budget>>

(* recover_candidate: what cannot be verified is dropped, and so is what cannot be
   read this time. *)
RecoverNothing(h) ==
  /\ Holds(h, "recover") /\ dir.candidate = None /\ Goes("baseline")
  /\ UNCHANGED <<store, host, applied, budget>>
Recoverable(h) == Verified(h, dir.candidate) /\ dir.candidate = dir.fence
RecoverDrops(h) ==
  /\ Holds(h, "recover") /\ dir.candidate # None
  /\ \/ ~Recoverable(h) /\ (Verified(h, dir.candidate) => Readable) /\ UNCHANGED budget
     \/ Verified(h, dir.candidate) /\ Spend("unread")
  /\ Change([dir EXCEPT !.candidate = None]) /\ Goes("dropped")
  /\ UNCHANGED <<host, applied>>
Dropped(h) ==
  /\ Holds(h, "dropped") /\ Sync /\ Goes("baseline")
  /\ UNCHANGED <<host, applied, budget>>
RecoverCommits(h) ==
  /\ Holds(h, "recover") /\ Recoverable(h) /\ Goes("commit")
  /\ UNCHANGED <<store, host, applied, budget>>

(* open_runtime: the bundled version is a floor of the fence. *)
IsUp(h) == Goes("free") /\ host' = [host EXCEPT ![h].phase = "up"]
Baseline(h) == host[h].app.baseline
(* Mutant: the bundled version is written over whatever the fence is. *)
BaselineResets(h) ==
  /\ Holds(h, "baseline") /\ Readable /\ Baseline(h) # dir.fence
  /\ Change([dir EXCEPT !.fence = Baseline(h)]) /\ Goes("floored")
  /\ UNCHANGED <<host, applied, budget>>
BaselineRaises(h) ==
  /\ Holds(h, "baseline") /\ Readable /\ Baseline(h) > dir.fence
  /\ Change([dir EXCEPT !.fence = Baseline(h)]) /\ Goes("floored")
  /\ UNCHANGED <<host, applied, budget>>
BaselineStands(h) ==
  /\ Holds(h, "baseline") /\ IsUp(h)
  /\ Baseline(h) = None \/ (Readable /\ Baseline(h) <= dir.fence)
  /\ UNCHANGED <<store, applied, budget>>
Floored(h) ==
  Holds(h, "floored") /\ Sync /\ IsUp(h) /\ UNCHANGED <<applied, budget>>
-----------------------------------------------------------------------------
(* load_active_bytes, at the start of the component and at every reload.  What
   cannot be run, or cannot be read this time, is removed, or is not and nobody
   minds. *)
Loads(h, content) ==
  host' = [host EXCEPT ![h].run = IF content > Baseline(h) THEN content ELSE Baseline(h)]
Load(h) ==
  /\ Free /\ host[h].phase = "up" /\ host[h].wants = None
  /\ dir.active = None \/ Verified(h, dir.active)
  /\ Loads(h, dir.active)
  /\ UNCHANGED <<store, step, holder, applied, budget>>
(* Mutant: what cannot be run is removed together with its fence. *)
LoadDiscardsAll(h) ==
  /\ Free /\ host[h].phase = "up" /\ host[h].wants = None
  /\ dir.active # None /\ ~Verified(h, dir.active) /\ Loads(h, None) /\ lost' = TRUE
  /\ dir' = Empty /\ Durable(Empty)
  /\ UNCHANGED <<step, holder, acked, budget>>
LoadDiscards(h) ==
  LET without == [dir EXCEPT !.active = None] IN
  /\ Free /\ host[h].phase = "up" /\ host[h].wants = None
  /\ dir.active # None /\ Loads(h, None) /\ lost' = TRUE
  /\ IF Verified(h, dir.active) THEN Spend("unread") ELSE UNCHANGED budget
  /\ (dir' = without /\ Durable(without)) \/ Change(without) \/ UNCHANGED store
  /\ UNCHANGED <<step, holder, acked>>

(* native_cli: a process of the command line takes the bundled file for what runs. *)
NamesBundled(h) ==
  /\ host[h].phase = "up" /\ host[h].run = None /\ host[h].wants = None /\ Loads(h, None)
  /\ UNCHANGED <<store, step, holder, applied, budget>>

(* apply_manifest: the version is compared with the one that runs before the
   download, and the process's own lock is kept from there on. *)
Current(h) ==
  IF host[h].run # None THEN host[h].run
  ELSE IF dir.fence > Baseline(h) THEN dir.fence ELSE Baseline(h)
Download(h) ==
  /\ host[h].phase = "up" /\ host[h].wants = None /\ (host[h].run = None => Free /\ Readable)
  /\ \E v \in Version : /\ Built[v] = host[h].app.abi /\ v > Current(h)
                        /\ host' = [host EXCEPT ![h].wants = v]
  /\ UNCHANGED <<store, step, holder, applied, budget>>

(* activate: refused below the fence, staged, fenced, committed. *)
(* Mutant: staging makes room by removing the active artifact. *)
StageReplaces(h) ==
  /\ Holds(h, "activate") /\ Readable /\ host[h].wants >= dir.fence
  /\ Change([dir EXCEPT !.candidate = host[h].wants, !.active = None]) /\ Goes("staged")
  /\ UNCHANGED <<host, applied, budget>>
Stage(h) ==
  /\ Holds(h, "activate") /\ Readable /\ host[h].wants >= dir.fence
  /\ Change([dir EXCEPT !.candidate = host[h].wants]) /\ Goes("staged")
  /\ UNCHANGED <<host, applied, budget>>
Staged(h) ==
  Holds(h, "staged") /\ Sync /\ Goes("fence") /\ UNCHANGED <<host, applied, budget>>
(* advance_high_water *)
FenceRaises(h) ==
  /\ Holds(h, "fence") /\ Readable /\ host[h].wants > dir.fence
  /\ Change([dir EXCEPT !.fence = host[h].wants]) /\ Goes("fenced")
  /\ UNCHANGED <<host, applied, budget>>
FenceStands(h) ==
  /\ Holds(h, "fence") /\ Readable /\ host[h].wants = dir.fence /\ Goes("commit")
  /\ UNCHANGED <<store, host, applied, budget>>
Fenced(h) ==
  Holds(h, "fenced") /\ Sync /\ Goes("commit") /\ UNCHANGED <<host, applied, budget>>
(* commit_candidate, for an update or for a Host that starts. *)
Wanted(h) == IF host[h].wants # None THEN host[h].wants ELSE dir.candidate
Committable(h) ==
  dir.fence = Wanted(h) /\ dir.candidate = Wanted(h) /\ Verified(h, dir.candidate)
Commit(h) ==
  /\ Holds(h, "commit") /\ Committable(h)
  /\ Change([dir EXCEPT !.active = dir.candidate, !.candidate = None]) /\ Goes("committed")
  /\ UNCHANGED <<host, applied, budget>>
(* Mutant: success is reported before the rename is durable. *)
CommittedEarly(h) ==
  /\ Holds(h, "committed") /\ host[h].wants # None /\ Goes("free")
  /\ acked' = host[h].wants /\ lost' = (dir.active = Bad)
  /\ host' = [host EXCEPT ![h].wants = None]
  /\ UNCHANGED <<store, budget>>
Committed(h) ==
  /\ Holds(h, "committed") /\ host[h].wants # None /\ Sync /\ Goes("free")
  /\ acked' = host[h].wants /\ lost' = (dir.active = Bad)
  /\ host' = [host EXCEPT ![h].wants = None]
  /\ UNCHANGED budget
Recovered(h) ==
  /\ Holds(h, "committed") /\ host[h].wants = None /\ Sync /\ Goes("baseline")
  /\ UNCHANGED <<host, applied, budget>>
-----------------------------------------------------------------------------
(* A check fails, or a write or a sync does: an update is given up with an error,
   a Host that starts ends. *)
Refused(h) ==
  \/ step = "recover" /\ ~Readable /\ Verified(h, dir.candidate)
  \/ step = "baseline" /\ ~Readable /\ Baseline(h) # None
  \/ step = "activate" /\ (~Readable \/ host[h].wants < dir.fence)
  \/ step = "fence" /\ (~Readable \/ host[h].wants < dir.fence)
  \/ step = "commit" /\ ~Committable(h)
GivesUp(h) ==
  /\ Goes("free")
  /\ IF host[h].phase = "starting" THEN host' = [host EXCEPT ![h] = Stopped]
     ELSE host' = [host EXCEPT ![h].wants = None]
Refuse(h) ==
  /\ holder = h /\ Refused(h) /\ GivesUp(h)
  /\ UNCHANGED <<store, applied, budget>>
Fail(h) ==
  /\ holder = h /\ ~Free /\ Spend("fail") /\ GivesUp(h)
  /\ UNCHANGED <<store, applied>>

(* A Host ends, dies at any point, or all do with the machine; the kernel releases
   the lock.  A file is damaged. *)
Exit(h) ==
  /\ host[h].phase = "up" /\ host[h].wants = None
  /\ host' = [host EXCEPT ![h] = Stopped]
  /\ UNCHANGED <<store, step, holder, applied, budget>>
(* Mutant: the lock outlives its holder. *)
DieLocked(h) ==
  /\ host[h].phase # "down" /\ Spend("die")
  /\ host' = [host EXCEPT ![h] = Stopped]
  /\ UNCHANGED <<store, step, holder, applied>>
Die(h) ==
  /\ host[h].phase # "down" /\ Spend("die")
  /\ host' = [host EXCEPT ![h] = Stopped]
  /\ step' = (IF holder = h THEN "free" ELSE step)
  /\ UNCHANGED <<store, holder, applied>>
PowerLoss ==
  /\ Spend("power") /\ step' = "free"
  /\ host' = [h \in Host |-> Stopped]
  /\ \E d \in left : dir' = d /\ Durable(d)
  /\ UNCHANGED <<holder, applied>>
Damaged(d, name) == IF d[name] = dir[name] THEN [d EXCEPT ![name] = Bad] ELSE d
Corrupt(name) ==
  /\ dir[name] \in Version /\ Spend("corrupt")
  /\ dir' = Damaged(dir, name) /\ left' = {Damaged(d, name) : d \in left}
  /\ lost' = (lost \/ name = "active")
  /\ UNCHANGED <<reached, step, holder, host, acked>>
-----------------------------------------------------------------------------
Open(h) ==
  \/ RecoverNothing(h) \/ RecoverDrops(h) \/ Dropped(h) \/ RecoverCommits(h)
  \/ BaselineRaises(h) \/ BaselineStands(h) \/ Floored(h) \/ Recovered(h)
Activate(h) ==
  \/ Stage(h) \/ Staged(h) \/ FenceRaises(h) \/ FenceStands(h) \/ Fenced(h)
  \/ Commit(h) \/ Committed(h)
Proceed(h) == Open(h) \/ Activate(h) \/ Refuse(h)
Use(h) ==
  \/ Start(h) \/ Load(h) \/ LoadDiscards(h) \/ NamesBundled(h) \/ Download(h) \/ Exit(h)
Next ==
  \/ \E h \in Host : Lock(h) \/ Proceed(h) \/ Use(h) \/ Fail(h) \/ Die(h)
  \/ PowerLoss \/ \E name \in {"candidate", "active", "fence"} : Corrupt(name)
Spec == Init /\ [][Next]_vars

-----------------------------------------------------------------------------
(* The fence is durable before the artifact it covers is: whatever a loss of power
   leaves, what it leaves active is not above the fence. *)
FenceCoversActive == \A d \in left : d.fence # Bad => d.active <= d.fence

(* No Host ever brings back a release older than one that was active for good,
   whoever downloaded it when, and whatever was dropped or lost in between. *)
NoDowngrade == \A d \in left : d.active \in Version => d.active >= reached

(* An update whose success was reported is there, or a later one is, until its file
   is damaged, or a Host of another App or one that cannot read it drops it. *)
AppliedIsKept == acked # None /\ ~lost => \A d \in left : d.active >= acked

(* A Host that loads its component again never gets an older one, while no update
   was damaged, dropped or unreadable. *)
ReloadGoesForward ==
  [][\A h \in Host : host[h].run # None /\ host'[h].run # None /\ ~lost /\ ~lost'
                       => host'[h].run >= host[h].run]_vars
=============================================================================
