------------------------ MODULE ComponentStore_proofs ------------------------
(***************************************************************************)
(* Proofs about ComponentStore, for any number of Hosts, Apps and releases *)
(* and any number of faults.  What has to be added to the properties to    *)
(* make them inductive is that the fence of every directory a loss of      *)
(* power may leave covers what was ever active for good or reported, that  *)
(* it covers what every Host runs, and what a commit under way has done.   *)
(***************************************************************************)
EXTENDS ComponentStore, TLAPS

(* What holds of each directory that may be left. *)
Covers(d) == d.fence # Bad => /\ d.active <= d.fence
                              /\ reached <= d.fence
                              /\ acked <= d.fence
Stays(d) == /\ d.active \in Version => d.active >= reached
            /\ acked # None /\ ~lost => d.active >= acked
DirInv == \A d \in left : Covers(d) /\ Stays(d)

(* What a Host runs above its bundled version came from the store. *)
RunInv == \A h \in Host : host[h].run > Baseline(h) =>
            /\ ~lost => dir.active >= host[h].run
            /\ dir.fence # Bad => dir.fence >= host[h].run
            /\ step = "committed" /\ dir.active # Bad => dir.active >= host[h].run

(* A renamed candidate is the one that was fenced, unless a file was damaged. *)
CommitInv == step = "committed" /\ host[holder].wants # None =>
               /\ dir.active \in {Bad, host[holder].wants}
               /\ dir.fence \in {Bad, host[holder].wants}

StoreInv == DirInv /\ RunInv /\ CommitInv

LEMMA AppIsThere == (CHOOSE a \in Apps : TRUE) \in Apps
  BY StoreAssumption

LEMMA StoppedType == Stopped \in Process
  BY AppIsThere DEF Stopped, Process

LEMMA TypeInit == Init => TypeOK
  <1> SUFFICES ASSUME Init PROVE TypeOK
    OBVIOUS
  <1> USE DEF Init, None, Bad
  <1>1. Empty \in Directory
    BY DEF Empty, Directory, Content
  <1>2. host \in [Host -> Process]
    BY StoppedType
  <1>3. budget \in [Kinds -> Nat]
    BY StoreAssumption
  <1>4. \A h \in Host : host[h].wants = None
    BY DEF Stopped
  <1> QED BY <1>1, <1>2, <1>3, <1>4 DEF TypeOK, Steps, Opening, Applying

LEMMA StoreInit == Init => StoreInv
  <1> SUFFICES ASSUME Init PROVE StoreInv
    OBVIOUS
  <1> USE DEF Init, None, Bad, Empty
  <1>1. DirInv
    BY DEF DirInv, Covers, Stays, Version
  <1>2. \A h \in Host : host[h].run = None /\ Baseline(h) >= 0
    BY AppIsThere, StoreAssumption DEF Baseline, Stopped
  <1>3. RunInv
    BY <1>2, StoreAssumption, AppIsThere DEF RunInv, Baseline, Stopped
  <1>4. CommitInv
    BY DEF CommitInv
  <1> QED BY <1>1, <1>3, <1>4 DEF StoreInv

USE DEF None, Bad
(* One process changes, the others stay. *)
LEMMA Edited ==
  ASSUME TypeOK, NEW h \in Host, NEW p \in Process, host' = [host EXCEPT ![h] = p]
  PROVE  /\ host' \in [Host -> Process] /\ host'[h] = p
         /\ \A g \in Host : g # h => host'[g] = host[g]
  BY DEF TypeOK

LEMMA Fields ==
  ASSUME TypeOK, NEW h \in Host, NEW v \in {None} \cup Version, NEW at \in {"down", "starting", "up"}
  PROVE  /\ [host[h] EXCEPT !.run = v] \in Process
         /\ [host[h] EXCEPT !.wants = v] \in Process
         /\ [host[h] EXCEPT !.phase = at] \in Process
  <1>1. host[h] \in Process
    BY DEF TypeOK
  <1> QED BY <1>1 DEF Process

LEMMA LoadsType ==
  ASSUME TypeOK, NEW h \in Host, NEW content \in {None} \cup Version, Loads(h, content)
  PROVE  \E v \in {None} \cup Version :
           /\ host' = [host EXCEPT ![h] = [host[h] EXCEPT !.run = v]]
           /\ v = IF content > Baseline(h) THEN content ELSE Baseline(h)
  <1>1. host[h] \in Process
    BY DEF TypeOK
  <1>2. Baseline(h) \in {None} \cup Version
    BY <1>1, StoreAssumption DEF Process, Baseline, Version
  <1> QED BY <1>2 DEF Loads

LEMMA DurableType ==
  ASSUME TypeOK, NEW d \in Directory, Durable(d)
  PROVE  left' = {d} /\ left' \in SUBSET Directory /\ d \in left'
         /\ reached' \in {None} \cup Version
  <1>1. d.active \in Content
    BY DEF Directory
  <1> QED BY <1>1, StoreAssumption DEF TypeOK, Durable, Content, Version

LEMMA SpendType ==
  ASSUME TypeOK, NEW kind \in Kinds, Spend(kind) PROVE budget' \in [Kinds -> Nat]
  BY DEF TypeOK, Spend

LEMMA StartType == ASSUME TypeOK, NEW h \in Host, Start(h) PROVE TypeOK'
  <1>1. PICK a \in Apps :
          host' = [host EXCEPT ![h] = [Stopped EXCEPT !.phase = "starting", !.app = a]]
    BY DEF Start
  <1> DEFINE p == [Stopped EXCEPT !.phase = "starting", !.app = a]
  <1>2. p \in Process /\ p.phase = "starting" /\ p.wants = None
    BY StoppedType DEF Process, Stopped
  <1>3. /\ host' \in [Host -> Process] /\ host'[h] = p
        /\ \A g \in Host : g # h => host'[g] = host[g]
    BY <1>1, <1>2, Edited
  <1>4. dir' \in Directory /\ left' \in SUBSET Directory /\ dir' \in left'
        /\ reached' \in {None} \cup Version
    BY DurableType DEF TypeOK, Start, Sync
  <1>5. step = "free" \/ holder # h
    BY DEF TypeOK, Start, Steps, Opening, Applying
  <1> QED BY <1>2, <1>3, <1>4, <1>5 DEF TypeOK, Start, applied, Opening, Applying

LEMMA GivesUpType ==
  ASSUME TypeOK, NEW h \in Host, GivesUp(h)
  PROVE  /\ host' \in [Host -> Process] /\ step' = "free" /\ holder' = holder
         /\ \A g \in Host : host'[g].wants # None => host'[g].phase = "up"
  <1>1. None \in {None} \cup Version
    OBVIOUS
  <1>2. CASE host[h].phase = "starting"
    <2>1. host' = [host EXCEPT ![h] = Stopped]
      BY <1>2 DEF GivesUp
    <2> QED BY <2>1, StoppedType, Edited DEF TypeOK, GivesUp, Goes, Stopped
  <1>3. CASE host[h].phase # "starting"
    <2>1. host' = [host EXCEPT ![h] = [host[h] EXCEPT !.wants = None]]
      BY <1>3 DEF GivesUp
    <2>2. [host[h] EXCEPT !.wants = None] \in Process
      BY <1>1, Fields
    <2>3. [host[h] EXCEPT !.wants = None].wants = None
      BY DEF TypeOK, Process
    <2> QED BY <2>1, <2>2, <2>3, Edited DEF TypeOK, GivesUp, Goes
  <1> QED BY <1>2, <1>3

LEMMA RefuseType == ASSUME TypeOK, NEW h \in Host, Refuse(h) PROVE TypeOK'
  BY GivesUpType DEF Refuse, TypeOK, store, applied, Steps, Opening, Applying

LEMMA FailType == ASSUME TypeOK, NEW h \in Host, Fail(h) PROVE TypeOK'
  <1>1. budget' \in [Kinds -> Nat]
    BY SpendType DEF Fail, Kinds
  <1> QED BY <1>1, GivesUpType DEF Fail, TypeOK, store, applied, Steps, Opening, Applying

LEMMA BaselineType ==
  ASSUME TypeOK, NEW h \in Host
  PROVE  Baseline(h) \in {None} \cup Version /\ Baseline(h) \in Content
  BY StoreAssumption DEF TypeOK, Process, Baseline, Version, Content

LEMMA ChangeType ==
  ASSUME TypeOK, NEW d \in Directory, Change(d)
  PROVE  /\ dir' \in Directory /\ left' \in SUBSET Directory /\ dir' \in left'
         /\ reached' \in {None} \cup Version
  BY DEF TypeOK, Change

LEMMA RaiseType == ASSUME TypeOK, NEW h \in Host, BaselineRaises(h) PROVE TypeOK'
  <1>1. [dir EXCEPT !.fence = Baseline(h)] \in Directory
    BY BaselineType DEF TypeOK, Directory
  <1>2. /\ dir' \in Directory /\ left' \in SUBSET Directory /\ dir' \in left'
        /\ reached' \in {None} \cup Version
    BY <1>1, ChangeType DEF BaselineRaises
  <1> QED
    BY <1>2 DEF BaselineRaises, TypeOK, applied, Goes, Holds, Steps, Opening, Applying

LEMMA FlooredType == ASSUME TypeOK, NEW h \in Host, Floored(h) PROVE TypeOK'
  <1>1. host' = [host EXCEPT ![h] = [host[h] EXCEPT !.phase = "up"]]
    BY DEF Floored, IsUp
  <1>2. [host[h] EXCEPT !.phase = "up"] \in Process
    BY Fields
  <1>3. [host[h] EXCEPT !.phase = "up"].phase = "up"
    BY DEF TypeOK, Process
  <1>4. /\ host' \in [Host -> Process] /\ host'[h].phase = "up"
        /\ \A g \in Host : g # h => host'[g] = host[g]
    BY <1>1, <1>2, <1>3, Edited
  <1>5. dir' \in Directory /\ left' \in SUBSET Directory /\ dir' \in left'
        /\ reached' \in {None} \cup Version
    BY DurableType DEF TypeOK, Floored, Sync
  <1> QED BY <1>4, <1>5 DEF Floored, IsUp, Goes, TypeOK, applied, Steps, Opening, Applying

LEMMA CommittedType == ASSUME TypeOK, NEW h \in Host, Committed(h) PROVE TypeOK'
  <1>1. host' = [host EXCEPT ![h] = [host[h] EXCEPT !.wants = None]]
    BY DEF Committed
  <1>2. [host[h] EXCEPT !.wants = None] \in Process
    BY Fields
  <1>3. [host[h] EXCEPT !.wants = None].wants = None
    BY DEF TypeOK, Process
  <1>4. /\ host' \in [Host -> Process] /\ host'[h].wants = None
        /\ \A g \in Host : g # h => host'[g] = host[g]
    BY <1>1, <1>2, <1>3, Edited
  <1>5. dir' \in Directory /\ left' \in SUBSET Directory /\ dir' \in left'
        /\ reached' \in {None} \cup Version
    BY DurableType DEF TypeOK, Committed, Sync
  <1>6. acked' \in {None} \cup Version /\ lost' \in BOOLEAN
    BY DEF Committed, TypeOK, Process
  <1> QED BY <1>4, <1>5, <1>6 DEF Committed, Goes, TypeOK, Steps, Opening, Applying

(* A process that loads keeps what it is in the middle of. *)
LEMMA LoadsProcess ==
  ASSUME TypeOK, NEW h \in Host, NEW content \in {None} \cup Version, Loads(h, content)
  PROVE  /\ host' \in [Host -> Process]
         /\ \A g \in Host : /\ host'[g].wants = host[g].wants
                            /\ host'[g].phase = host[g].phase /\ host'[g].app = host[g].app
                            /\ g # h => host'[g] = host[g]
         /\ host'[h].run = IF content > Baseline(h) THEN content ELSE Baseline(h)
  <1>1. PICK v \in {None} \cup Version :
          /\ host' = [host EXCEPT ![h] = [host[h] EXCEPT !.run = v]]
          /\ v = IF content > Baseline(h) THEN content ELSE Baseline(h)
    BY LoadsType
  <1>2. [host[h] EXCEPT !.run = v] \in Process
    BY Fields
  <1>3. /\ [host[h] EXCEPT !.run = v].wants = host[h].wants
        /\ [host[h] EXCEPT !.run = v].phase = host[h].phase
        /\ [host[h] EXCEPT !.run = v].app = host[h].app
        /\ [host[h] EXCEPT !.run = v].run = v
    BY DEF TypeOK, Process
  <1> QED BY <1>1, <1>2, <1>3, Edited

LEMMA LoadType == ASSUME TypeOK, NEW h \in Host, Load(h) PROVE TypeOK'
  <1>1. dir.active \in {None} \cup Version
    BY DEF Load, Verified
  <1> QED BY <1>1, LoadsProcess DEF Load, TypeOK, store, applied, Opening, Applying

LEMMA NamesType == ASSUME TypeOK, NEW h \in Host, NamesBundled(h) PROVE TypeOK'
  BY LoadsProcess DEF NamesBundled, TypeOK, store, applied, Opening, Applying

LEMMA DiscardsType == ASSUME TypeOK, NEW h \in Host, LoadDiscards(h) PROVE TypeOK'
  <1> DEFINE without == [dir EXCEPT !.active = None]
  <1>1. without \in Directory
    BY DEF TypeOK, Directory, Content
  <1>2. /\ dir' \in Directory /\ left' \in SUBSET Directory /\ dir' \in left'
        /\ reached' \in {None} \cup Version
    <2>1. CASE dir' = without /\ Durable(without)
      BY <1>1, <2>1, DurableType
    <2>2. CASE Change(without)
      BY <1>1, <2>2, ChangeType
    <2>3. CASE UNCHANGED store
      BY <2>3 DEF store, TypeOK
    <2> QED BY <2>1, <2>2, <2>3 DEF LoadDiscards
  <1>3. budget' \in [Kinds -> Nat]
    BY SpendType DEF LoadDiscards, TypeOK, Kinds
  <1> QED
    BY <1>2, <1>3, LoadsProcess DEF LoadDiscards, TypeOK, Opening, Applying

LEMMA DownloadType == ASSUME TypeOK, NEW h \in Host, Download(h) PROVE TypeOK'
  <1>1. PICK v \in Version : host' = [host EXCEPT ![h] = [host[h] EXCEPT !.wants = v]]
    BY DEF Download
  <1>2. [host[h] EXCEPT !.wants = v] \in Process
    BY Fields
  <1>3. /\ [host[h] EXCEPT !.wants = v].wants = v
        /\ [host[h] EXCEPT !.wants = v].phase = host[h].phase
    BY DEF TypeOK, Process
  <1>4. /\ host' \in [Host -> Process] /\ host'[h].wants = v /\ host'[h].phase = "up"
        /\ \A g \in Host : g # h => host'[g] = host[g]
    BY <1>1, <1>2, <1>3, Edited DEF Download
  <1>5. v # None
    BY DEF Version
  <1>6. step = "free" \/ holder # h
    BY DEF TypeOK, Download, Steps, Opening, Applying
  <1> QED BY <1>4, <1>5, <1>6 DEF Download, TypeOK, store, applied, Opening, Applying

LEMMA PowerLossType == ASSUME TypeOK, PowerLoss PROVE TypeOK'
  <1>1. PICK d \in left : dir' = d /\ Durable(d)
    BY DEF PowerLoss
  <1>2. d \in Directory
    BY DEF TypeOK
  <1>3. dir' \in Directory /\ left' \in SUBSET Directory /\ dir' \in left'
        /\ reached' \in {None} \cup Version
    BY <1>1, <1>2, DurableType
  <1>4. host' \in [Host -> Process] /\ \A g \in Host : host'[g].wants = None
    BY StoppedType DEF PowerLoss, Stopped
  <1>5. budget' \in [Kinds -> Nat]
    BY SpendType DEF PowerLoss, Kinds
  <1> QED
    BY <1>3, <1>4, <1>5 DEF PowerLoss, TypeOK, applied, Steps, Opening, Applying

LEMMA CorruptType ==
  ASSUME TypeOK, NEW name \in {"candidate", "active", "fence"}, Corrupt(name) PROVE TypeOK'
  <1>1. \A d \in Directory : Damaged(d, name) \in Directory
    BY DEF Damaged, Directory, Content
  <1>2. dir' \in Directory /\ left' \in SUBSET Directory /\ dir' \in left'
    BY <1>1 DEF Corrupt, TypeOK
  <1>3. budget' \in [Kinds -> Nat]
    BY SpendType DEF Corrupt, Kinds
  <1> QED BY <1>2, <1>3 DEF Corrupt, TypeOK

LEMMA TypeStep == TypeOK /\ [Next]_vars => TypeOK'
  <1> SUFFICES ASSUME TypeOK, [Next]_vars PROVE TypeOK'
    OBVIOUS
  <1> USE StoreAssumption DEF TypeOK, Directory, Content, Steps, Process, Opening, Applying,
        Change, Goes, Holds, Free, Version, store, applied
  <1>1. CASE UNCHANGED vars
    BY <1>1 DEF vars
  <1>2. ASSUME NEW h \in Host, Start(h) PROVE TypeOK'
    BY <1>2, StartType
  <1>3. ASSUME NEW h \in Host, Lock(h) PROVE TypeOK'
    BY <1>3 DEF Lock
  <1>4. ASSUME NEW h \in Host, RecoverNothing(h) PROVE TypeOK'
    BY <1>4 DEF RecoverNothing
  <1>5. ASSUME NEW h \in Host, RecoverDrops(h) PROVE TypeOK'
    <2>1. budget' \in [Kinds -> Nat]
      BY <1>5, SpendType DEF RecoverDrops, Kinds
    <2>2. dir' \in Directory /\ left' \in SUBSET Directory /\ dir' \in left'
          /\ reached' \in {None} \cup Version
      BY <1>5, ChangeType DEF RecoverDrops
    <2> QED BY <1>5, <2>1, <2>2 DEF RecoverDrops
  <1>6. ASSUME NEW h \in Host, Dropped(h) PROVE TypeOK'
    BY <1>6 DEF Dropped, Sync, Durable
  <1>7. ASSUME NEW h \in Host, RecoverCommits(h) PROVE TypeOK'
    BY <1>7 DEF RecoverCommits
  <1>8. ASSUME NEW h \in Host, BaselineRaises(h) PROVE TypeOK'
    BY <1>8, RaiseType
  <1>9. ASSUME NEW h \in Host, BaselineStands(h) PROVE TypeOK'
    BY <1>9, ZenonT(60) DEF BaselineStands, IsUp
  <1>10. ASSUME NEW h \in Host, Floored(h) PROVE TypeOK'
    BY <1>10, FlooredType
  <1>11. ASSUME NEW h \in Host, Recovered(h) PROVE TypeOK'
    BY <1>11 DEF Recovered, Sync, Durable
  <1>12. ASSUME NEW h \in Host, Stage(h) PROVE TypeOK'
    BY <1>12, ZenonT(60) DEF Stage
  <1>13. ASSUME NEW h \in Host, Staged(h) PROVE TypeOK'
    BY <1>13 DEF Staged, Sync, Durable
  <1>14. ASSUME NEW h \in Host, FenceRaises(h) PROVE TypeOK'
    BY <1>14 DEF FenceRaises
  <1>15. ASSUME NEW h \in Host, FenceStands(h) PROVE TypeOK'
    BY <1>15 DEF FenceStands
  <1>16. ASSUME NEW h \in Host, Fenced(h) PROVE TypeOK'
    BY <1>16 DEF Fenced, Sync, Durable
  <1>17. ASSUME NEW h \in Host, Commit(h) PROVE TypeOK'
    BY <1>17 DEF Commit
  <1>18. ASSUME NEW h \in Host, Committed(h) PROVE TypeOK'
    BY <1>18, CommittedType
  <1>19. ASSUME NEW h \in Host, Refuse(h) PROVE TypeOK'
    BY <1>19, RefuseType
  <1>20. ASSUME NEW h \in Host, Load(h) PROVE TypeOK'
    BY <1>20, LoadType
  <1>21. ASSUME NEW h \in Host, LoadDiscards(h) PROVE TypeOK'
    BY <1>21, DiscardsType
  <1>22. ASSUME NEW h \in Host, NamesBundled(h) PROVE TypeOK'
    BY <1>22, NamesType
  <1>23. ASSUME NEW h \in Host, Download(h) PROVE TypeOK'
    BY <1>23, DownloadType
  <1>24. ASSUME NEW h \in Host, Exit(h) PROVE TypeOK'
    BY <1>24, StoppedType DEF Exit, Stopped
  <1>25. ASSUME NEW h \in Host, Fail(h) PROVE TypeOK'
    BY <1>25, FailType
  <1>26. ASSUME NEW h \in Host, Die(h) PROVE TypeOK'
    <2>1. budget' \in [Kinds -> Nat]
      BY <1>26, SpendType DEF Die, Kinds
    <2> QED BY <1>26, <2>1, StoppedType DEF Die, Stopped
  <1>27. ASSUME PowerLoss PROVE TypeOK'
    BY <1>27, PowerLossType
  <1>28. ASSUME NEW name \in {"candidate", "active", "fence"}, Corrupt(name) PROVE TypeOK'
    BY <1>28, CorruptType
  <1> QED
    BY <1>1, <1>2, <1>3, <1>4, <1>5, <1>6, <1>7, <1>8, <1>9, <1>10, <1>11, <1>12, <1>13, <1>14, <1>15, <1>16, <1>17, <1>18, <1>19, <1>20, <1>21, <1>22, <1>23, <1>24, <1>25, <1>26, <1>27, <1>28
    DEF Next, Proceed, Open, Activate, Use
-----------------------------------------------------------------------------
(* The directory: what a step does to what may be left. *)
LEMMA Numbers ==
  ASSUME TypeOK
  PROVE  /\ \A d \in Directory : /\ d.active \in Int /\ d.fence \in Int
                                 /\ d.active # Bad => d.active >= 0
                                 /\ d.fence # Bad => d.fence >= 0
                                 /\ d.active >= -1
         /\ dir \in Directory /\ left \subseteq Directory /\ dir \in left
         /\ reached \in Nat /\ acked \in Nat /\ reached \notin {Bad} /\ acked \notin {Bad}
         /\ \A h \in Host : host[h].run \in Nat /\ host[h].wants \in Nat /\ Baseline(h) \in Nat
  <1>1. \A c \in Content : c \in Int /\ c >= -1 /\ (c # Bad => c >= 0)
    BY StoreAssumption DEF Content, Version
  <1>2. \A v \in {None} \cup Version : v \in Nat
    BY StoreAssumption DEF Version
  <1>3. \A h \in Host : host[h].run \in Nat /\ host[h].wants \in Nat
    BY <1>2 DEF TypeOK, Process
  <1>4. \A h \in Host : Baseline(h) \in Nat
    BY <1>2, BaselineType
  <1>5. \A d \in Directory : d.active \in Content /\ d.fence \in Content
    BY DEF Directory
  <1>6. reached \in Nat /\ acked \in Nat
    BY <1>2 DEF TypeOK
  <1>7. dir \in Directory /\ left \subseteq Directory /\ dir \in left
    BY DEF TypeOK
  <1> QED BY <1>1, <1>3, <1>4, <1>5, <1>6, <1>7

LEMMA DirDurable ==
  ASSUME TypeOK, DirInv, NEW d \in left, Durable(d), UNCHANGED <<acked, lost>>
  PROVE  DirInv'
  <1>1. Covers(d) /\ Stays(d)
    BY DEF DirInv
  <1> QED BY <1>1, Numbers, StoreAssumption DEF DirInv, Covers, Stays, Durable, Version

LEMMA DirChange ==
  ASSUME TypeOK, DirInv, NEW d \in Directory, Change(d), Covers(d), Stays(d),
         acked' = acked, lost' = lost \/ lost' = TRUE
  PROVE  DirInv'
  BY DEF DirInv, Covers, Stays, Change

LEMMA DirSame ==
  ASSUME DirInv, UNCHANGED <<left, reached, acked>>, lost' = lost \/ lost' = TRUE
  PROVE  DirInv'
  BY DEF DirInv, Covers, Stays

LEMMA DirNow == ASSUME TypeOK, DirInv PROVE Covers(dir) /\ Stays(dir) /\ dir \in Directory
  BY DEF TypeOK, DirInv

LEMMA DirDrops == ASSUME TypeOK, DirInv, NEW h \in Host, RecoverDrops(h) PROVE DirInv'
  <1> DEFINE d == [dir EXCEPT !.candidate = None]
  <1>1. d \in Directory /\ d.active = dir.active /\ d.fence = dir.fence
    BY DirNow DEF Directory, Content
  <1>2. Covers(d) /\ Stays(d)
    BY <1>1, DirNow DEF Covers, Stays
  <1> QED BY <1>1, <1>2, DirChange DEF RecoverDrops, applied

LEMMA DirStage == ASSUME TypeOK, DirInv, NEW h \in Host, Stage(h) PROVE DirInv'
  <1> DEFINE d == [dir EXCEPT !.candidate = host[h].wants]
  <1>1. host[h].wants \in Content
    BY DEF TypeOK, Process, Content
  <1>2. d \in Directory /\ d.active = dir.active /\ d.fence = dir.fence
    BY <1>1, DirNow DEF Directory
  <1>3. Covers(d) /\ Stays(d)
    BY <1>2, DirNow DEF Covers, Stays
  <1> QED BY <1>2, <1>3, DirChange DEF Stage, applied

(* A higher fence covers what the lower one did. *)
LEMMA DirRaise ==
  ASSUME TypeOK, DirInv, Readable, NEW v \in {None} \cup Version, v > dir.fence,
         Change([dir EXCEPT !.fence = v]), UNCHANGED applied
  PROVE  DirInv'
  <1> DEFINE d == [dir EXCEPT !.fence = v]
  <1>1. v \in Content /\ v \in Nat
    BY StoreAssumption DEF Content, Version
  <1>2. d \in Directory /\ d.active = dir.active /\ d.fence = v
    BY <1>1, DirNow DEF Directory
  <1>3. Covers(d) /\ Stays(d)
    BY <1>1, <1>2, DirNow, Numbers DEF Covers, Stays, Readable
  <1> QED BY <1>2, <1>3, DirChange DEF applied

(* What is committed is as high as the fence. *)
LEMMA DirCommit == ASSUME TypeOK, DirInv, NEW h \in Host, Commit(h) PROVE DirInv'
  <1> DEFINE d == [dir EXCEPT !.active = dir.candidate, !.candidate = None]
  <1>1. d \in Directory /\ d.active = dir.candidate /\ d.fence = dir.fence
    BY DirNow DEF Directory, Content
  <1>2. dir.candidate = dir.fence /\ dir.candidate \in Version
    BY DEF Commit, Committable, Verified
  <1>3. dir.fence # Bad /\ dir.fence \in Nat
    BY <1>2, StoreAssumption DEF Version
  <1>4. Covers(d) /\ Stays(d)
    BY <1>1, <1>2, <1>3, DirNow, Numbers DEF Covers, Stays
  <1> QED BY <1>1, <1>4, DirChange DEF Commit, applied

LEMMA DirCommitted ==
  ASSUME TypeOK, DirInv, CommitInv, NEW h \in Host, Committed(h) PROVE DirInv'
  <1>1. /\ dir.active \in {Bad, host[h].wants} /\ dir.fence \in {Bad, host[h].wants}
        /\ left' = {dir} /\ reached' = IF dir.active > reached THEN dir.active ELSE reached
        /\ acked' = host[h].wants /\ lost' = (dir.active = Bad)
    BY DEF Committed, CommitInv, Holds, Sync, Durable
  <1>2. Covers(dir) /\ Stays(dir)
    BY DirNow
  <1>3. /\ dir.active \in Int /\ dir.fence \in Int /\ reached \in Nat /\ acked \in Nat
        /\ host[h].wants \in Nat
    BY Numbers
  <1>4. Covers(dir)'
    BY <1>1, <1>2, <1>3 DEF Covers, Committed, Sync
  <1>5. Stays(dir)'
    <2>1. dir' = dir
      BY DEF Committed, Sync
    <2>2. dir.active \in Version => dir.active >= reached'
      BY <1>1, <1>2, <1>3 DEF Stays
    <2>3. ~lost' => dir.active >= acked'
      <3>1. ~lost' => dir.active # Bad
        BY <1>1, Zenon
      <3> QED BY <3>1, <1>1, <1>3
    <2> QED BY <2>1, <2>2, <2>3 DEF Stays
  <1>6. dir' = dir
    BY DEF Committed, Sync
  <1> QED BY <1>1, <1>4, <1>5, <1>6 DEF DirInv

LEMMA DirDiscards == ASSUME TypeOK, DirInv, NEW h \in Host, LoadDiscards(h) PROVE DirInv'
  <1> DEFINE d == [dir EXCEPT !.active = None]
  <1>1. d \in Directory /\ d.active = None /\ d.fence = dir.fence
    BY DirNow DEF Directory, Content
  <1>2. lost' = TRUE /\ acked' = acked
    BY DEF LoadDiscards
  <1>3. CASE Durable(d)
    <2>1. left' = {d} /\ reached' \in {reached, None}
      BY <1>1, <1>3, Numbers DEF Durable
    <2>2. d.fence # Bad => /\ None <= d.fence /\ reached <= d.fence /\ acked <= d.fence
      BY <1>1, DirNow, Numbers DEF Covers
    <2>3. d.active \notin Version
      BY <1>1 DEF Version
    <2> QED BY <1>1, <1>2, <2>1, <2>2, <2>3 DEF DirInv, Covers, Stays
  <1>4. CASE Change(d)
    <2>1. \A e \in left' : e.fence # Bad =>
            e.active <= e.fence /\ reached <= e.fence /\ acked <= e.fence
      <3>1. d.fence # Bad => /\ d.active <= d.fence /\ reached <= d.fence /\ acked <= d.fence
        BY <1>1, DirNow, Numbers DEF Covers
      <3> QED BY <1>4, <3>1 DEF DirInv, Covers, Change
    <2>2. \A e \in left' : e.active \in Version => e.active >= reached
      <3>1. d.active \notin Version
        BY <1>1 DEF Version
      <3> QED BY <1>4, <3>1 DEF DirInv, Stays, Change
    <2>3. reached' = reached
      BY <1>4 DEF Change
    <2> QED BY <2>1, <2>2, <2>3, <1>2 DEF DirInv, Covers, Stays
  <1>5. CASE UNCHANGED store
    BY <1>2, <1>5, DirSame DEF store
  <1> QED BY <1>3, <1>4, <1>5 DEF LoadDiscards

LEMMA DirCorrupt ==
  ASSUME TypeOK, DirInv, NEW name \in {"candidate", "active", "fence"}, Corrupt(name)
  PROVE  DirInv'
  <1> SUFFICES ASSUME NEW d \in left, NEW e, e = Damaged(d, name)
               PROVE  (Covers(e) /\ Stays(e))'
    BY DEF Corrupt, DirInv
  <1>1. Covers(d) /\ Stays(d) /\ d \in Directory
    BY DEF DirInv, TypeOK
  <1>2. /\ reached' = reached /\ acked' = acked /\ lost' = (lost \/ name = "active")
    BY DEF Corrupt
  <1>3. CASE e = d
    BY <1>1, <1>2, <1>3 DEF Covers, Stays
  <1>4. CASE name = "candidate" /\ e = [d EXCEPT !["candidate"] = Bad]
    <2>1. e.active = d.active /\ e.fence = d.fence
      BY <1>1, <1>4 DEF Directory
    <2> QED BY <2>1, <1>1, <1>2 DEF Covers, Stays
  <1>5. CASE name = "active" /\ e = [d EXCEPT !["active"] = Bad]
    <2>1. e.active = Bad /\ e.fence = d.fence /\ lost' = TRUE
      BY <1>1, <1>2, <1>5 DEF Directory
    <2> QED BY <2>1, <1>1, <1>2, Numbers, StoreAssumption DEF Covers, Stays, Version
  <1>6. CASE name = "fence" /\ e = [d EXCEPT !["fence"] = Bad]
    <2>1. e.active = d.active /\ e.fence = Bad
      BY <1>1, <1>6 DEF Directory
    <2> QED BY <2>1, <1>1, <1>2 DEF Covers, Stays
  <1> QED BY <1>3, <1>4, <1>5, <1>6 DEF Damaged

LEMMA DirStep == TypeOK /\ DirInv /\ CommitInv /\ [Next]_vars => DirInv'
  <1> SUFFICES ASSUME TypeOK, DirInv, CommitInv, [Next]_vars PROVE DirInv'
    OBVIOUS
  <1>1. dir \in left
    BY DEF TypeOK
  <1>2. ASSUME UNCHANGED <<store, applied>> PROVE DirInv'
    BY <1>2, DirSame DEF store, applied
  <1>3. ASSUME Sync, UNCHANGED applied PROVE DirInv'
    BY <1>1, <1>3, DirDurable DEF Sync, applied
  <1>4. ASSUME NEW h \in Host, BaselineRaises(h) PROVE DirInv'
    BY <1>4, DirRaise, BaselineType DEF BaselineRaises
  <1>5. ASSUME NEW h \in Host, FenceRaises(h) PROVE DirInv'
    <2>1. host[h].wants \in {None} \cup Version
      BY DEF TypeOK, Process
    <2> QED BY <1>5, <2>1, DirRaise DEF FenceRaises
  <1>6. ASSUME PowerLoss PROVE DirInv'
    BY <1>6, DirDurable DEF PowerLoss, applied
  <1>7. CASE UNCHANGED vars
    BY <1>2, <1>7 DEF vars
  <1>8. ASSUME NEW h \in Host,
               Lock(h) \/ RecoverNothing(h) \/ RecoverCommits(h) \/ BaselineStands(h) \/ FenceStands(h)
                 \/ Refuse(h) \/ Load(h) \/ NamesBundled(h) \/ Download(h) \/ Exit(h) \/ Fail(h) \/ Die(h)
        PROVE  UNCHANGED <<store, applied>>
    BY <1>8 DEF Lock, RecoverNothing, RecoverCommits, BaselineStands, FenceStands, Refuse, Load,
                NamesBundled, Download, Exit, Fail, Die
  <1>9. ASSUME NEW h \in Host,
               Start(h) \/ Dropped(h) \/ Floored(h) \/ Recovered(h) \/ Staged(h) \/ Fenced(h)
        PROVE  Sync /\ UNCHANGED applied
    BY <1>9 DEF Start, Dropped, Floored, Recovered, Staged, Fenced
  <1> QED
    BY <1>2, <1>3, <1>4, <1>5, <1>6, <1>7, <1>8, <1>9, DirDrops, DirStage, DirCommit, DirCommitted,
       DirDiscards, DirCorrupt
    DEF Next, Proceed, Open, Activate, Use
-----------------------------------------------------------------------------
(* The commit under way. *)
LEMMA CommitKeeps ==
  ASSUME CommitInv, step' = "committed" => /\ step = "committed" /\ holder' = holder
                                           /\ host'[holder].wants = host[holder].wants
                                           /\ dir'.active \in {Bad, dir.active}
                                           /\ dir'.fence \in {Bad, dir.fence}
  PROVE  CommitInv'
  BY DEF CommitInv

(* Whoever is in the middle of a commit neither starts nor downloads. *)
LEMMA Busy ==
  ASSUME TypeOK, NEW h \in Host, step = "committed",
         host[h].phase = "down" \/ (host[h].phase = "up" /\ host[h].wants = None)
  PROVE  h # holder
  BY DEF TypeOK, Process

LEMMA CommitStep == TypeOK /\ CommitInv /\ [Next]_vars => CommitInv'
  <1> SUFFICES ASSUME TypeOK, CommitInv, [Next]_vars PROVE CommitInv'
    OBVIOUS
  <1>1. CASE UNCHANGED vars
    BY <1>1, CommitKeeps DEF vars, store
  <1>2. ASSUME step' # "committed" PROVE CommitInv'
    BY <1>2, CommitKeeps
  <1>3. ASSUME NEW h \in Host, Start(h) PROVE CommitInv'
    <2>1. dir' = dir /\ step' = step /\ holder' = holder
      BY <1>3 DEF Start, Sync
    <2>2. step = "committed" => host'[holder] = host[holder]
      BY <1>3, Busy DEF Start, TypeOK
    <2> QED BY <2>1, <2>2, CommitKeeps
  <1>4. ASSUME NEW h \in Host, Load(h) \/ LoadDiscards(h) PROVE step' # "committed"
    BY <1>4 DEF Load, LoadDiscards, Free
  <1>5. ASSUME NEW h \in Host, NamesBundled(h) PROVE CommitInv'
    <2>1. dir' = dir /\ step' = step /\ holder' = holder
      BY <1>5 DEF NamesBundled, store
    <2>2. host'[holder].wants = host[holder].wants
      BY <1>5, LoadsProcess DEF NamesBundled, TypeOK
    <2> QED BY <2>1, <2>2, CommitKeeps
  <1>6. ASSUME NEW h \in Host, Download(h) \/ Exit(h) PROVE CommitInv'
    <2>1. dir' = dir /\ step' = step /\ holder' = holder
      BY <1>6 DEF Download, Exit, store
    <2>2. step = "committed" => host'[holder] = host[holder]
      BY <1>6, Busy DEF Download, Exit, TypeOK
    <2> QED BY <2>1, <2>2, CommitKeeps
  <1>7. ASSUME NEW h \in Host, Die(h) PROVE CommitInv'
    <2>1. dir' = dir /\ holder' = holder /\ (step' = "committed" => step = "committed" /\ h # holder)
      BY <1>7 DEF Die, store
    <2>2. h # holder => host'[holder] = host[holder]
      BY <1>7 DEF Die, TypeOK
    <2> QED BY <2>1, <2>2, CommitKeeps
  <1>8. ASSUME NEW h \in Host, Commit(h) PROVE CommitInv'
    <2>1. holder = h /\ holder' = holder /\ host' = host
      BY <1>8 DEF Commit, Goes, Holds
    <2>2. dir'.active = dir.candidate /\ dir'.fence = dir.fence
      BY <1>8 DEF Commit, Change, TypeOK, Directory
    <2>3. host[h].wants # None => dir.candidate = host[h].wants /\ dir.fence = host[h].wants
      BY <1>8 DEF Commit, Committable, Wanted
    <2> QED BY <2>1, <2>2, <2>3 DEF CommitInv
  <1>9. ASSUME NEW name \in {"candidate", "active", "fence"}, Corrupt(name) PROVE CommitInv'
    <2>1. step' = step /\ holder' = holder /\ host' = host
      BY <1>9 DEF Corrupt
    <2>2. dir'.active \in {Bad, dir.active} /\ dir'.fence \in {Bad, dir.fence}
      BY <1>9 DEF Corrupt, Damaged, TypeOK, Directory
    <2> QED BY <2>1, <2>2, CommitKeeps
  <1>10. ASSUME PowerLoss PROVE step' # "committed"
    BY <1>10 DEF PowerLoss
  <1>11. ASSUME NEW h \in Host,
                Lock(h) \/ RecoverNothing(h) \/ RecoverDrops(h) \/ Dropped(h) \/ RecoverCommits(h)
                  \/ BaselineRaises(h) \/ BaselineStands(h) \/ Floored(h) \/ Recovered(h)
         PROVE  step' # "committed"
    BY <1>11 DEF Lock, RecoverNothing, RecoverDrops, Dropped, RecoverCommits, BaselineRaises,
                 BaselineStands, Floored, Recovered, Goes, IsUp
  <1>12. ASSUME NEW h \in Host,
                Stage(h) \/ Staged(h) \/ FenceRaises(h) \/ FenceStands(h) \/ Fenced(h)
                  \/ Committed(h) \/ Refuse(h) \/ Fail(h)
         PROVE  step' # "committed"
    BY <1>12 DEF Stage, Staged, FenceRaises, FenceStands, Fenced, Committed, Refuse, Fail, Goes,
                 GivesUp
  <1> QED
    BY <1>1, <1>2, <1>3, <1>4, <1>5, <1>6, <1>7, <1>8, <1>9, <1>10, <1>11, <1>12
    DEF Next, Proceed, Open, Activate, Use
-----------------------------------------------------------------------------
(* What runs: a Host stops, loads, or keeps what it has. *)
LEMMA Contents ==
  /\ \A d \in Directory : d.active \in Int /\ d.fence \in Int /\ d.active >= -1
  /\ \A p \in Process : p.run \in Nat /\ p.app.baseline \in Nat
  <1>1. \A c \in Content : c \in Int /\ c >= -1
    BY StoreAssumption DEF Content, Version
  <1>2. \A v \in {None} \cup Version : v \in Nat
    BY StoreAssumption DEF Version
  <1>3. \A a \in Apps : a.baseline \in Nat
    BY StoreAssumption
  <1> QED BY <1>1, <1>2, <1>3 DEF Directory, Process

Covered(h) == host[h].run > Baseline(h) =>
                /\ ~lost => dir.active >= host[h].run
                /\ dir.fence # Bad => dir.fence >= host[h].run
                /\ step = "committed" /\ dir.active # Bad => dir.active >= host[h].run

(* A process that runs nothing, or the bundled version, needs no cover. *)
LEMMA CoveredIdle ==
  ASSUME TypeOK', NEW h \in Host, host'[h].run \in {None, host'[h].app.baseline}
  PROVE  Covered(h)'
  <1>1. host'[h] \in Process
    BY DEF TypeOK
  <1>2. host'[h].app.baseline \in Nat
    BY <1>1, Contents
  <1>3. ~(host'[h].run > host'[h].app.baseline)
    BY <1>2
  <1> QED BY <1>3 DEF Covered, Baseline

(* One that goes on with what it had is covered as long as the store does not go
   back. *)
LEMMA CoveredSame ==
  ASSUME TypeOK, TypeOK', NEW h \in Host, Covered(h),
         host'[h].run = host[h].run, host'[h].app = host[h].app,
         ~lost' => ~lost /\ dir'.active >= dir.active,
         dir'.fence # Bad => dir.fence # Bad /\ dir'.fence >= dir.fence,
         step' = "committed" /\ dir'.active # Bad =>
           step = "committed" /\ dir.active # Bad /\ dir'.active >= dir.active
  PROVE  Covered(h)'
  <1>1. host[h] \in Process /\ dir \in Directory /\ dir' \in Directory
    BY DEF TypeOK
  <1>2. /\ dir.active \in Int /\ dir.fence \in Int /\ dir'.active \in Int /\ dir'.fence \in Int
        /\ host[h].run \in Nat /\ host[h].app.baseline \in Nat
    BY <1>1, Contents
  <1> QED BY <1>2 DEF Covered, Baseline

(* A process stops, takes the bundled version or keeps what it runs. *)
Keeps(h) == \/ host'[h].run \in {None, host'[h].app.baseline}
            \/ host'[h].run = host[h].run /\ host'[h].app = host[h].app
(* The store does not go back behind what is covered. *)
Forward == /\ ~lost' => ~lost /\ dir'.active >= dir.active
           /\ dir'.fence # Bad => dir.fence # Bad /\ dir'.fence >= dir.fence
           /\ step' = "committed" /\ dir'.active # Bad =>
                step = "committed" /\ dir.active # Bad /\ dir'.active >= dir.active

LEMMA RunKeeps ==
  ASSUME TypeOK, TypeOK', RunInv, \A h \in Host : Keeps(h), Forward
  PROVE  RunInv'
  <1> SUFFICES ASSUME NEW h \in Host PROVE Covered(h)'
    BY DEF RunInv, Covered
  <1>1. Covered(h)
    BY DEF RunInv, Covered
  <1>2. CASE host'[h].run \in {None, host'[h].app.baseline}
    BY <1>2, CoveredIdle
  <1>3. CASE host'[h].run = host[h].run /\ host'[h].app = host[h].app
    BY <1>1, <1>3, CoveredSame DEF Forward
  <1> QED BY <1>2, <1>3 DEF Keeps

LEMMA ForwardSame ==
  ASSUME TypeOK, dir'.active = dir.active, dir'.fence = dir.fence, lost' = lost,
         step' = step \/ step' # "committed"
  PROVE  Forward
  <1>1. dir.active \in Int /\ dir.fence \in Int
    BY Contents DEF TypeOK
  <1> QED BY <1>1 DEF Forward

LEMMA KeepsEdited ==
  ASSUME TypeOK, NEW h \in Host, NEW p \in Process, host' = [host EXCEPT ![h] = p],
         p.run = None \/ (p.run = host[h].run /\ p.app = host[h].app)
  PROVE  \A g \in Host : Keeps(g)
  BY DEF TypeOK, Keeps

LEMMA KeepsGivesUp ==
  ASSUME TypeOK, NEW h \in Host, GivesUp(h) PROVE \A g \in Host : Keeps(g)
  <1>1. host' = [host EXCEPT ![h] = Stopped] \/ host' = [host EXCEPT ![h] = [@ EXCEPT !.wants = None]]
    BY DEF GivesUp, TypeOK
  <1>2. [host[h] EXCEPT !.wants = None] \in Process
    BY Fields
  <1>3. /\ [host[h] EXCEPT !.wants = None].run = host[h].run
        /\ [host[h] EXCEPT !.wants = None].app = host[h].app
    BY DEF TypeOK, Process
  <1>4. Stopped.run = None
    BY DEF Stopped
  <1> QED BY <1>1, <1>2, <1>3, <1>4, StoppedType, KeepsEdited

(* A process that loads gets what is active, which the fence covers. *)
LEMMA RunLoads ==
  ASSUME TypeOK, TypeOK', DirInv, RunInv, NEW h \in Host, Load(h) PROVE RunInv'
  <1>1. dir.active \in {None} \cup Version /\ step = "free" /\ Loads(h, dir.active)
        /\ dir' = dir /\ step' = step /\ lost' = lost
    BY DEF Load, Free, Verified, store, applied
  <1>2. /\ \A g \in Host : g # h => host'[g] = host[g]
        /\ host'[h].app = host[h].app
        /\ host'[h].run = IF dir.active > Baseline(h) THEN dir.active ELSE Baseline(h)
    BY <1>1, LoadsProcess
  <1>3. Forward
    BY <1>1, ForwardSame
  <1>4. ASSUME NEW g \in Host, g # h PROVE Covered(g)'
    BY <1>2, <1>3, <1>4, CoveredSame DEF Forward, RunInv, Covered
  <1>5. Covered(h)'
    <2>1. dir.fence # Bad => dir.fence >= dir.active
      BY DirNow, Contents DEF Covers, TypeOK
    <2>2. CASE host'[h].run = Baseline(h)
      BY <1>2, <2>2, CoveredIdle DEF Baseline
    <2>3. CASE host'[h].run = dir.active
      <3>1. dir.active \in Int
        BY Contents DEF TypeOK
      <3> QED BY <1>1, <2>1, <2>3, <3>1 DEF Covered
    <2> QED BY <1>2, <2>2, <2>3
  <1> QED BY <1>4, <1>5 DEF RunInv, Covered

(* What a commit brings is at the fence; when it is done, what is active covers
   what runs, even after a drop. *)
LEMMA RunCommit ==
  ASSUME TypeOK, RunInv, NEW h \in Host, Commit(h) PROVE RunInv'
  <1>1. dir'.active = dir.candidate /\ dir'.fence = dir.fence /\ host' = host
    BY DEF Commit, Change, TypeOK, Directory
  <1>2. dir.candidate \in Version /\ dir.candidate = dir.fence
    BY DEF Commit, Committable, Verified
  <1>3. dir.fence # Bad
    BY <1>2, StoreAssumption DEF Version
  <1> QED BY <1>1, <1>2, <1>3 DEF RunInv, Baseline

LEMMA RunCommitted ==
  ASSUME TypeOK, RunInv, NEW h \in Host, Committed(h) PROVE RunInv'
  <1>1. step = "committed" /\ step' = "free" /\ dir' = dir /\ (~lost' => dir.active # Bad)
    BY DEF Committed, Holds, Goes, Sync
  <1>2. host' = [host EXCEPT ![h] = [host[h] EXCEPT !.wants = None]]
    BY DEF Committed
  <1>3. [host[h] EXCEPT !.wants = None] \in Process
    BY Fields
  <1>4. /\ [host[h] EXCEPT !.wants = None].run = host[h].run
        /\ [host[h] EXCEPT !.wants = None].app = host[h].app
    BY DEF TypeOK, Process
  <1>5. \A g \in Host : host'[g].run = host[g].run /\ host'[g].app = host[g].app
    BY <1>2, <1>3, <1>4, Edited
  <1> QED BY <1>1, <1>5 DEF RunInv, Baseline

LEMMA RunStep == TypeOK /\ TypeOK' /\ DirInv /\ RunInv /\ [Next]_vars => RunInv'
  <1> SUFFICES ASSUME TypeOK, TypeOK', DirInv, RunInv, [Next]_vars PROVE RunInv'
    OBVIOUS
  <1>1. ASSUME host' = host, Forward PROVE RunInv'
    BY <1>1, RunKeeps DEF Keeps
  <1>2. ASSUME NEW h \in Host,
               Lock(h) \/ RecoverNothing(h) \/ RecoverCommits(h) \/ FenceStands(h)
                 \/ Dropped(h) \/ Recovered(h) \/ Staged(h) \/ Fenced(h)
        PROVE  host' = host /\ Forward
    <2>1. host' = host /\ dir' = dir /\ lost' = lost /\ step' # "committed"
      BY <1>2 DEF Lock, RecoverNothing, RecoverCommits, FenceStands, Dropped, Recovered, Staged,
                  Fenced, Goes, Sync, store, applied
    <2> QED BY <2>1, ForwardSame
  <1>3. ASSUME NEW h \in Host, RecoverDrops(h) \/ Stage(h) PROVE host' = host /\ Forward
    <2>1. host' = host /\ lost' = lost /\ step' # "committed"
      BY <1>3 DEF RecoverDrops, Stage, Goes, applied
    <2>2. dir'.active = dir.active /\ dir'.fence = dir.fence
      BY <1>3 DEF RecoverDrops, Stage, Change, TypeOK, Directory
    <2> QED BY <2>1, <2>2, ForwardSame
  <1>4. ASSUME NEW h \in Host, BaselineRaises(h) \/ FenceRaises(h) PROVE host' = host /\ Forward
    <2>1. host' = host /\ lost' = lost /\ step' # "committed"
      BY <1>4 DEF BaselineRaises, FenceRaises, Goes, applied
    <2>2. PICK v \in Int : dir' = [dir EXCEPT !.fence = v] /\ v > dir.fence /\ dir.fence # Bad
      BY <1>4, Numbers DEF BaselineRaises, FenceRaises, Change, Readable
    <2>3. dir'.active = dir.active /\ dir'.fence = v /\ dir.active \in Int /\ dir.fence \in Int
      BY <2>2, Numbers DEF Directory
    <2> QED BY <2>1, <2>2, <2>3 DEF Forward
  <1>5. ASSUME NEW h \in Host,
               Start(h) \/ BaselineStands(h) \/ Floored(h) \/ Download(h) \/ Exit(h) \/ Refuse(h)
                 \/ Fail(h) \/ Die(h)
        PROVE  Forward
    <2>1. dir' = dir /\ lost' = lost /\ (step' = step \/ step' # "committed")
      BY <1>5 DEF Start, BaselineStands, Floored, Download, Exit, Refuse, Fail, Die, Goes, IsUp,
                  GivesUp, Sync, store, applied
    <2> QED BY <2>1, ForwardSame
  <1>6. ASSUME NEW h \in Host, Start(h) PROVE \A g \in Host : Keeps(g)
    <2>1. PICK a \in Apps :
            host' = [host EXCEPT ![h] = [Stopped EXCEPT !.phase = "starting", !.app = a]]
      BY <1>6 DEF Start
    <2>2. /\ [Stopped EXCEPT !.phase = "starting", !.app = a] \in Process
          /\ [Stopped EXCEPT !.phase = "starting", !.app = a].run = None
      BY StoppedType DEF Process, Stopped
    <2> QED BY <2>1, <2>2, KeepsEdited
  <1>7. ASSUME NEW h \in Host, Exit(h) \/ Die(h) PROVE \A g \in Host : Keeps(g)
    <2>1. Stopped.run = None
      BY DEF Stopped
    <2> QED BY <1>7, <2>1, StoppedType, KeepsEdited DEF Exit, Die
  <1>8. ASSUME NEW h \in Host, Refuse(h) \/ Fail(h) PROVE \A g \in Host : Keeps(g)
    BY <1>8, KeepsGivesUp DEF Refuse, Fail
  <1>9. ASSUME NEW h \in Host, BaselineStands(h) \/ Floored(h) PROVE \A g \in Host : Keeps(g)
    <2>1. host' = [host EXCEPT ![h] = [host[h] EXCEPT !.phase = "up"]]
      BY <1>9 DEF BaselineStands, Floored, IsUp
    <2>2. [host[h] EXCEPT !.phase = "up"] \in Process
      BY Fields
    <2>3. /\ [host[h] EXCEPT !.phase = "up"].run = host[h].run
          /\ [host[h] EXCEPT !.phase = "up"].app = host[h].app
      BY DEF TypeOK, Process
    <2> QED BY <2>1, <2>2, <2>3, KeepsEdited
  <1>10. ASSUME NEW h \in Host, Download(h) PROVE \A g \in Host : Keeps(g)
    <2>1. PICK v \in Version : host' = [host EXCEPT ![h] = [host[h] EXCEPT !.wants = v]]
      BY <1>10 DEF Download
    <2>2. [host[h] EXCEPT !.wants = v] \in Process
      BY Fields
    <2>3. /\ [host[h] EXCEPT !.wants = v].run = host[h].run
          /\ [host[h] EXCEPT !.wants = v].app = host[h].app
      BY DEF TypeOK, Process
    <2> QED BY <2>1, <2>2, <2>3, KeepsEdited
  <1>11. ASSUME NEW h \in Host, NamesBundled(h) \/ LoadDiscards(h)
         PROVE  Forward /\ \A g \in Host : Keeps(g)
    <2>1. Loads(h, None)
      BY <1>11 DEF NamesBundled, LoadDiscards
    <2>2. \A g \in Host : g # h => host'[g] = host[g]
      BY <2>1, LoadsProcess
    <2>3. host'[h].run \in {None, host'[h].app.baseline}
      BY <2>1, LoadsProcess DEF Baseline
    <2>4. CASE NamesBundled(h)
      <3>1. dir' = dir /\ lost' = lost /\ step' = step
        BY <2>4 DEF NamesBundled, store, applied
      <3> QED BY <2>2, <2>3, <3>1, ForwardSame DEF Keeps
    <2>5. CASE LoadDiscards(h)
      <3>1. lost' = TRUE /\ step' = "free"
        BY <2>5 DEF LoadDiscards, Free
      <3>2. dir'.fence = dir.fence /\ dir.fence \in Int
        BY <2>5, Numbers DEF LoadDiscards, Change, store, Directory
      <3> QED BY <2>2, <2>3, <3>1, <3>2 DEF Keeps, Forward
    <2> QED BY <1>11, <2>4, <2>5
  <1>12. ASSUME PowerLoss PROVE RunInv'
    <2>1. \A h \in Host : host'[h] = Stopped
      BY <1>12 DEF PowerLoss
    <2>2. \A h \in Host : Covered(h)'
      <3> SUFFICES ASSUME NEW h \in Host PROVE Covered(h)'
        OBVIOUS
      <3>1. Stopped.run = None
        BY DEF Stopped
      <3>2. host'[h].run \in {None, host'[h].app.baseline}
        BY <2>1, <3>1
      <3> QED BY <3>2, CoveredIdle
    <2> QED BY <2>2 DEF RunInv, Covered
  <1>13. ASSUME NEW name \in {"candidate", "active", "fence"}, Corrupt(name)
         PROVE  host' = host /\ Forward
    <2>1. host' = host /\ step' = step /\ lost' = (lost \/ name = "active")
      BY <1>13 DEF Corrupt
    <2>2. dir' = [dir EXCEPT ![name] = Bad]
      BY <1>13 DEF Corrupt, Damaged
    <2>3. /\ dir'.fence = IF name = "fence" THEN Bad ELSE dir.fence
          /\ dir'.active = IF name = "active" THEN Bad ELSE dir.active
          /\ dir.active \in Int /\ dir.fence \in Int
      BY <2>2, Numbers DEF Directory
    <2>4. ~lost' => ~lost /\ name # "active"
      BY <2>1, Zenon
    <2> QED BY <2>1, <2>3, <2>4 DEF Forward
  <1>14. CASE UNCHANGED vars
    <2>1. host' = host /\ dir' = dir /\ lost' = lost /\ step' = step
      BY <1>14 DEF vars, store, applied
    <2> QED BY <1>1, <2>1, ForwardSame
  <1> QED
    BY <1>1, <1>2, <1>3, <1>4, <1>5, <1>6, <1>7, <1>8, <1>9, <1>10, <1>11, <1>12, <1>13, <1>14,
       RunKeeps, RunLoads, RunCommit, RunCommitted
    DEF Next, Proceed, Open, Activate, Use
-----------------------------------------------------------------------------
(* The inductive invariant, and what it gives. *)
LEMMA StoreStep == TypeOK /\ StoreInv /\ [Next]_vars => TypeOK' /\ StoreInv'
  BY TypeStep, DirStep, CommitStep, RunStep DEF StoreInv

(* Always: every variable has its type, and whoever has the lock is in the phase
   its step belongs to. *)
THEOREM TypeCorrect == Spec => []TypeOK
  BY TypeInit, TypeStep, PTL DEF Spec

(* Always: the strengthened invariant the properties below follow from. *)
THEOREM StoreCorrect == Spec => [](TypeOK /\ StoreInv)
  BY TypeInit, StoreInit, StoreStep, PTL DEF Spec

(* Whatever a loss of power leaves, the fence covers what is active: it is raised
   and synced before the candidate is renamed. *)
THEOREM FenceSafe == Spec => []FenceCoversActive
  <1>1. StoreInv => FenceCoversActive
    BY DEF StoreInv, DirInv, Covers, FenceCoversActive
  <1> QED BY <1>1, StoreCorrect, PTL

(* No release older than one that was active for good is ever active again, whoever
   downloaded it. *)
THEOREM NoDowngradeSafe == Spec => []NoDowngrade
  <1>1. StoreInv => NoDowngrade
    BY DEF StoreInv, DirInv, Stays, NoDowngrade
  <1> QED BY <1>1, StoreCorrect, PTL

(* An update reported as applied survives every loss of power, crash and later
   update, until its file is damaged or dropped. *)
THEOREM AppliedSafe == Spec => []AppliedIsKept
  <1>1. StoreInv => AppliedIsKept
    BY DEF StoreInv, DirInv, Stays, AppliedIsKept
  <1> QED BY <1>1, StoreCorrect, PTL
-----------------------------------------------------------------------------
Forwards == \A h \in Host : host[h].run # None /\ host'[h].run # None /\ ~lost /\ ~lost'
                               => host'[h].run >= host[h].run

(* While nothing is damaged or dropped, a process that loads again finds what it
   runs or something newer. *)
LEMMA ForwardStep == TypeOK /\ RunInv /\ [Next]_vars => Forwards
  <1> SUFFICES ASSUME TypeOK, RunInv, [Next]_vars, NEW h \in Host,
                      host[h].run # None, host'[h].run # None, ~lost, ~lost'
               PROVE  host'[h].run >= host[h].run
    BY DEF Forwards
  <1>1. host[h].run \in Nat /\ Baseline(h) \in Nat /\ dir.active \in Int
    BY Numbers
  <1>2. CASE host'[h].run = host[h].run
    BY <1>1, <1>2
  <1>3. ASSUME NEW g \in Host, Load(g) PROVE host'[h].run >= host[h].run
    <2>1. dir.active \in {None} \cup Version /\ Loads(g, dir.active)
      BY <1>3 DEF Load, Verified
    <2>2. /\ g # h => host'[h] = host[h]
          /\ g = h => host'[h].run = IF dir.active > Baseline(h) THEN dir.active ELSE Baseline(h)
      BY <2>1, LoadsProcess
    <2>3. host[h].run > Baseline(h) => dir.active >= host[h].run
      BY DEF RunInv
    <2> QED BY <1>1, <2>2, <2>3
  <1>4. ASSUME NEW g \in Host, NamesBundled(g) PROVE host'[h].run = host[h].run
    BY <1>4, LoadsProcess DEF NamesBundled
  <1>5. ASSUME NEW g \in Host, LoadDiscards(g) PROVE FALSE
    BY <1>5 DEF LoadDiscards
  <1>6. ASSUME NEW g \in Host,
               Lock(g) \/ RecoverNothing(g) \/ RecoverDrops(g) \/ Dropped(g) \/ RecoverCommits(g)
                 \/ BaselineRaises(g) \/ Recovered(g) \/ Stage(g) \/ Staged(g) \/ FenceRaises(g)
                 \/ FenceStands(g) \/ Fenced(g) \/ Commit(g)
        PROVE  host' = host
    BY <1>6 DEF Lock, RecoverNothing, RecoverDrops, Dropped, RecoverCommits, BaselineRaises,
                Recovered, Stage, Staged, FenceRaises, FenceStands, Fenced, Commit
  <1>7. ASSUME NEW g \in Host,
               BaselineStands(g) \/ Floored(g) \/ Download(g) \/ Committed(g) \/ Exit(g)
                 \/ Refuse(g) \/ Fail(g) \/ Die(g) \/ Start(g)
        PROVE  host'[h].run = host[h].run
    <2>1. Stopped.run = None /\ \A a \in Apps : [Stopped EXCEPT !.phase = "starting", !.app = a].run = None
      BY DEF Stopped
    <2>2. \A p \in Process : /\ [p EXCEPT !.phase = "up"].run = p.run
                             /\ \A w : [p EXCEPT !.wants = w].run = p.run
      BY DEF Process
    <2>3. host \in [Host -> Process]
      BY DEF TypeOK
    <2>4. CASE Start(g) \/ Exit(g) \/ Die(g)
      BY <2>1, <2>3, <2>4 DEF Start, Exit, Die
    <2>5. /\ [host[g] EXCEPT !.phase = "up"].run = host[g].run
          /\ \A w : [host[g] EXCEPT !.wants = w].run = host[g].run
      BY <2>2, <2>3
    <2>6. CASE Refuse(g) \/ Fail(g)
      <3>1. \/ host' = [host EXCEPT ![g] = Stopped]
            \/ host' = [host EXCEPT ![g] = [host[g] EXCEPT !.wants = None]]
        BY <2>3, <2>6 DEF Refuse, Fail, GivesUp
      <3>2. [host[g] EXCEPT !.wants = None].run = host[g].run /\ Stopped.run = None
        BY <2>1, <2>5
      <3>3. CASE host' = [host EXCEPT ![g] = Stopped]
        BY <2>3, <3>2, <3>3
      <3>4. CASE host' = [host EXCEPT ![g] = [host[g] EXCEPT !.wants = None]]
        BY <2>3, <3>2, <3>4
      <3> QED BY <3>1, <3>3, <3>4
    <2>7. CASE BaselineStands(g) \/ Floored(g)
      <3>1. host' = [host EXCEPT ![g] = [host[g] EXCEPT !.phase = "up"]]
        BY <2>7 DEF BaselineStands, Floored, IsUp
      <3> QED BY <2>3, <2>5, <3>1
    <2>8. CASE Download(g) \/ Committed(g)
      <3>1. PICK w \in Int : host' = [host EXCEPT ![g] = [host[g] EXCEPT !.wants = w]]
        BY <2>8, StoreAssumption DEF Download, Committed, Version
      <3>2. [host[g] EXCEPT !.wants = w].run = host[g].run
        BY <2>5
      <3> QED BY <2>3, <3>1, <3>2
    <2> QED BY <1>7, <2>4, <2>6, <2>7, <2>8
  <1>8. ASSUME PowerLoss PROVE FALSE
    BY <1>8 DEF PowerLoss, Stopped
  <1>9. ASSUME NEW name \in {"candidate", "active", "fence"}, Corrupt(name) PROVE host' = host
    BY <1>9 DEF Corrupt
  <1>10. CASE UNCHANGED vars
    BY <1>2, <1>10 DEF vars
  <1> QED
    BY <1>2, <1>3, <1>4, <1>5, <1>6, <1>7, <1>8, <1>9, <1>10
    DEF Next, Proceed, Open, Activate, Use

(* A reload never brings an older component than the one that ran, unless its file
   was damaged or dropped. *)
THEOREM ReloadSafe == Spec => ReloadGoesForward
  <1>1. TypeOK /\ StoreInv /\ [Next]_vars
          => [\A h \in Host : host[h].run # None /\ host'[h].run # None /\ ~lost /\ ~lost'
                              => host'[h].run >= host[h].run]_vars
    BY ForwardStep DEF StoreInv, Forwards
  <1> QED BY <1>1, StoreCorrect, PTL DEF Spec, ReloadGoesForward
=============================================================================
