--------------------------- MODULE SetupRelaunch ---------------------------
(***************************************************************************)
(* One starter OS process on one host: the master Service, which owns the  *)
(* data directory s.DataDir, and the local slave Services it starts as     *)
(* goroutines (src/service/local_slaves.go), each owning the directory     *)
(* local-slave-k below it.  Every Service keeps a setup.json in its own    *)
(* directory (saveSetup) and consults it when it starts (relaunch), both   *)
(* in src/service/setup_config.go.                                         *)
(*                                                                         *)
(* The process may die at any moment (crash, kill, Ctrl-C); the slaves     *)
(* die with it, the files survive.  With TornWrites, a crash may hit the   *)
(* most recent ioutil.WriteFile half way, leaving an unparsable file.      *)
(*                                                                         *)
(* Peer negotiation (the hello exchange and the saves around it) is not    *)
(* in src/: HandleHello, SlaveSaveSetup and MasterStartRunning follow the  *)
(* description of it ("the setup record is created or overwritten          *)
(* whenever the peer registry reaches a committed state").                 *)
(***************************************************************************)
EXTENDS Naturals, Sequences, SequencesExt, FiniteSets

CONSTANTS
  AgencySize,   \* the largest s.AgencySize a start is given (bounds dirs, IDs)
  FlagSizes,    \* the values s.AgencySize may have when the process starts
  MaxBoots,     \* bound: how many times the starter process is started
  TornWrites,   \* may a crash interrupt ioutil.WriteFile half way?
  SpawnFailures, \* may createUniqueID and NewService fail?
  WriteErrors,  \* may ioutil.WriteFile return an error (disk full, EACCES)?
  Absent,       \* model value: no setup.json in the directory
  Corrupt       \* model value: a setup.json that json.Unmarshal rejects

ASSUME AgencySize \in Nat \ {0, 1}
ASSUME MaxBoots \in Nat \ {0}
ASSUME TornWrites \in BOOLEAN
ASSUME SpawnFailures \in BOOLEAN
ASSUME WriteErrors \in BOOLEAN
ASSUME FlagSizes \subseteq 2..AgencySize /\ FlagSizes # {}

SetupConfigVersion == "0.2.1"
OlderVersion == "0.1.0"        \* version stamped by an earlier release

\* Data directories: 0 is s.DataDir, k is s.DataDir/local-slave-k.
Root == 0
Dirs == 0..(AgencySize - 1)
NoDir == -1

\* createUniqueID never repeats an ID; IDs are handed out in order.
NoID == 0
MaxID == MaxBoots * AgencySize
IDs == 1..MaxID

Peer == [id : IDs, dir : Dirs]

Sizes == 2..AgencySize
NoSize == 0                    \* a slave not yet answered holds no registry

\* SetupConfigFile, the JSON record in setup.json; its peers object
\* carries the registry's agency size, asize.
SetupConfigFile ==
  [version : {SetupConfigVersion, OlderVersion}, id : IDs \cup {NoID},
   peers : Seq(Peer), asize : Sizes, sls : BOOLEAN]

SlaveState == [cfg : IDs, dir : Dirs, sid : IDs \cup {NoID},
               phase : {"launched", "negotiating", "welcomed", "running"},
               view : Seq(Peer), vsize : Sizes \cup {NoSize}, sls : BOOLEAN]

VARIABLES
  up,        \* is the starter process alive?
  boots,     \* number of process starts so far
  nextID,    \* next value createUniqueID hands out
  file,      \* file[d]: content of d/setup.json
  lastWrite, \* directory of the most recent WriteFile (NoDir after a crash)
  mphase,    \* master Service: "down", "negotiating" or "running"
  mid,       \* master s.ID
  size,      \* master s.AgencySize
  reg,       \* master s.myPeers.Peers
  slaves,    \* local slave Services started in this process, in start order
  attempts,  \* slave peers the master's start loop went through this boot
  lost       \* history: createUniqueID or NewService failed this boot

vars == <<up, boots, nextID, file, lastWrite, mphase, mid, size, reg, slaves,
          attempts, lost>>

IdsOf(peers) == {peers[k].id : k \in DOMAIN peers}

\* The sets of IDs whose allocation or service construction may fail.
Failing(ids) == IF SpawnFailures THEN SUBSET ids ELSE {{}}

-----------------------------------------------------------------------------
(* Helpers translated from the source.                                     *)

\* The record saveSetup marshals.
SetupRecord(id, peers, asize, sls) ==
  [version |-> SetupConfigVersion, id |-> id, peers |-> peers, asize |-> asize,
   sls |-> sls]

\* What d/setup.json holds after ioutil.WriteFile of c: c, or, if it
\* returns an error, the old content (the open failed) or a truncated file
\* (a write after O_TRUNC failed).  saveSetup logs and returns the error,
\* and the caller goes on with its registry in memory.
Written(old, c) == IF WriteErrors THEN {c, old, Corrupt} ELSE {c}

\* saveSetup: ioutil.WriteFile of the record into d/setup.json.
Save(d, id, peers, asize, sls) ==
  /\ \E c \in Written(file[d], SetupRecord(id, peers, asize, sls)) :
       file' = [file EXCEPT ![d] = c]
  /\ lastWrite' = d

\* relaunch's test: the file was read, unmarshalled, and has our version.
IsCurrent(c) ==
  /\ c \notin {Absent, Corrupt}
  /\ c.version = SetupConfigVersion

\* Mutant: the loop of createAndStartLocalSlaves stops one index short.
CreateLocalPeersShort(first, n, idFailed) ==
  SelectSeq([i \in 1..(n - 2) |-> [id |-> first + i - 1, dir |-> i]],
            LAMBDA p : p.id \notin idFailed)

\* Mutant: local-slave-%d formatted with index instead of index-1.
CreateLocalPeersDirOffByOne(first, n, idFailed) ==
  SelectSeq([i \in 1..(n - 1) |-> [id |-> first + i - 1, dir |-> i + 1]],
            LAMBDA p : p.id \notin idFailed)

\* createAndStartLocalSlaves: indices 2..n for n = s.AgencySize, skipping
\* the ones whose createUniqueID failed; index k gets local-slave-(k-1).
CreateLocalPeers(first, n, idFailed) ==
  SelectSeq([i \in 1..(n - 1) |-> [id |-> first + i - 1, dir |-> i]],
            LAMBDA p : p.id \notin idFailed)

\* Mutant: the p.ID == s.ID check dropped.
LaunchPeersNoSelfCheck(peers, self) == peers

\* startLocalSlaves' loop skips the peer that is the Service itself.
LaunchPeers(peers, self) == SelectSeq(peers, LAMBDA p : p.id # self)

\* Mutant: the data directory taken from the loop position, not the peer.
SlaveServiceByIndex(p, index) ==
  [cfg |-> p.id, dir |-> index, sid |-> NoID, phase |-> "launched",
   view |-> <<>>, vsize |-> NoSize, sls |-> FALSE]

\* Mutant: config.StartLocalSlaves = false dropped; the clone keeps the
\* master's true.
SlaveServiceInheritsSls(p, index) ==
  [cfg |-> p.id, dir |-> p.dir, sid |-> NoID, phase |-> "launched",
   view |-> <<>>, vsize |-> NoSize, sls |-> TRUE]

\* The configuration a slave is built with: a copy of the master's with
\* config.ID, config.DataDir and config.StartLocalSlaves = false.
SlaveService(p, index) ==
  [cfg |-> p.id, dir |-> p.dir, sid |-> NoID, phase |-> "launched",
   view |-> <<>>, vsize |-> NoSize, sls |-> FALSE]

\* startLocalSlaves: one goroutine per launched peer whose NewService
\* did not fail.
StartLocalSlaves(launch, spawnFailed) ==
  LET ok == SelectSeq(launch, LAMBDA p : p.id \notin spawnFailed)
  IN  [k \in DOMAIN ok |-> SlaveService(ok[k], k)]

-----------------------------------------------------------------------------
OldRecord == [version |-> OlderVersion, id |-> NoID, peers |-> <<>>,
              asize |-> AgencySize, sls |-> FALSE]

\* A fresh host, or one that ran an older release (which wrote the master's
\* file before any slave's).
InitFiles ==
  {[d \in Dirs |-> Absent]} \cup
  {f \in [Dirs -> {Absent, OldRecord}] : f[Root] = OldRecord}

Init ==
  /\ up = FALSE
  /\ boots = 0
  /\ nextID = 1
  /\ file \in InitFiles
  /\ lastWrite = NoDir
  /\ mphase = "down"
  /\ mid = NoID
  /\ size \in FlagSizes
  /\ reg = <<>>
  /\ slaves = <<>>
  /\ attempts = 0
  /\ lost = FALSE

\* Mutant: s.AgencySize left at the flag value of this start.
MasterRelaunchFlagSize ==
  /\ ~up
  /\ boots < MaxBoots
  /\ IsCurrent(file[Root])
  /\ LET cfg    == file[Root]
         launch == IF cfg.sls THEN LaunchPeers(cfg.peers, cfg.id) ELSE <<>>
     IN  \E spawnFailed \in Failing(IdsOf(launch)), flag \in FlagSizes :
           /\ mid' = cfg.id
           /\ reg' = cfg.peers
           /\ size' = flag
           /\ slaves' = StartLocalSlaves(launch, spawnFailed)
           /\ attempts' = Len(launch)
           /\ lost' = (spawnFailed # {})
  /\ mphase' = "running"
  /\ up' = TRUE
  /\ boots' = boots + 1
  /\ UNCHANGED <<nextID, file, lastWrite>>

\* Process start, relaunch finds a current setup.json: restore s.myPeers,
\* s.ID and s.AgencySize from it, start the slaves of the restored peers,
\* startRunning.  The flag value of this start is overridden.
MasterRelaunch ==
  /\ ~up
  /\ boots < MaxBoots
  /\ IsCurrent(file[Root])
  /\ LET cfg    == file[Root]
         launch == IF cfg.sls THEN LaunchPeers(cfg.peers, cfg.id) ELSE <<>>
     IN  \E spawnFailed \in Failing(IdsOf(launch)) :
           /\ mid' = cfg.id
           /\ reg' = cfg.peers
           /\ size' = cfg.asize
           /\ slaves' = StartLocalSlaves(launch, spawnFailed)
           /\ attempts' = Len(launch)
           /\ lost' = (spawnFailed # {})
  /\ mphase' = "running"
  /\ up' = TRUE
  /\ boots' = boots + 1
  /\ UNCHANGED <<nextID, file, lastWrite>>

\* Mutant: the fresh start taken even when relaunch would have returned
\* true (its early return dropped).
MasterFreshStartOverRecord ==
  /\ ~up
  /\ boots < MaxBoots
  /\ \E flag \in FlagSizes :
       LET self == [id |-> nextID, dir |-> Root]
       IN  \E idFailed, spawnFailed \in Failing(nextID + 1 .. nextID + flag - 1) :
             LET peers == CreateLocalPeers(nextID + 1, flag, idFailed)
             IN  /\ slaves' = StartLocalSlaves(LaunchPeers(peers, self.id), spawnFailed)
                 /\ attempts' = flag - 1
                 /\ lost' = (idFailed \cup spawnFailed # {})
                 /\ mid' = self.id
                 /\ size' = flag
                 /\ reg' = <<self>>
                 /\ Save(Root, self.id, <<self>>, flag, TRUE)
  /\ nextID' = nextID + AgencySize
  /\ mphase' = "negotiating"
  /\ up' = TRUE
  /\ boots' = boots + 1

\* Process start, relaunch returns false: the master, started with agency
\* size flag, takes a new ID, commits a registry of itself, and
\* createAndStartLocalSlaves starts the slaves.  IDs advance by the largest
\* size, so each fresh start's IDs lie in a block of their own.
MasterFreshStart ==
  /\ ~up
  /\ boots < MaxBoots
  /\ ~IsCurrent(file[Root])
  /\ \E flag \in FlagSizes :
       LET self == [id |-> nextID, dir |-> Root]
       IN  \E idFailed, spawnFailed \in Failing(nextID + 1 .. nextID + flag - 1) :
             LET peers == CreateLocalPeers(nextID + 1, flag, idFailed)
             IN  /\ slaves' = StartLocalSlaves(LaunchPeers(peers, self.id), spawnFailed)
                 /\ attempts' = flag - 1
                 /\ lost' = (idFailed \cup spawnFailed # {})
                 /\ mid' = self.id
                 /\ size' = flag
                 /\ reg' = <<self>>
                 /\ Save(Root, self.id, <<self>>, flag, TRUE)
  /\ nextID' = nextID + AgencySize
  /\ mphase' = "negotiating"
  /\ up' = TRUE
  /\ boots' = boots + 1

\* A slave's Run: relaunch finds a current setup.json in its directory and
\* adopts the ID, peers and agency size stored there (and, if the record
\* asks for local slaves, starts them too).
SlaveRelaunch(i) ==
  /\ up
  /\ slaves[i].phase = "launched"
  /\ IsCurrent(file[slaves[i].dir])
  /\ LET cfg    == file[slaves[i].dir]
         launch == IF cfg.sls THEN LaunchPeers(cfg.peers, cfg.id) ELSE <<>>
     IN  \E spawnFailed \in Failing(IdsOf(launch)) :
           slaves' = [slaves EXCEPT ![i].sid = cfg.id, ![i].view = cfg.peers,
                                    ![i].vsize = cfg.asize, ![i].phase = "running"]
                     \o StartLocalSlaves(launch, spawnFailed)
  /\ UNCHANGED <<up, boots, nextID, file, lastWrite, mphase, mid, size, reg,
                 attempts, lost>>

\* A slave's Run: relaunch returns false; the slave keeps its configured ID
\* and asks the master to join.
SlaveFreshStart(i) ==
  /\ up
  /\ slaves[i].phase = "launched"
  /\ ~IsCurrent(file[slaves[i].dir])
  /\ slaves' = [slaves EXCEPT ![i].sid = slaves[i].cfg, ![i].phase = "negotiating"]
  /\ UNCHANGED <<up, boots, nextID, file, lastWrite, mphase, mid, size, reg,
                 attempts, lost>>

\* The master's hello handler: add the slave unless its ID is known,
\* commit the registry, answer with it (and its agency size).
HandleHello(i) ==
  /\ up
  /\ slaves[i].phase = "negotiating"
  /\ LET me     == [id |-> slaves[i].sid, dir |-> slaves[i].dir]
         newReg == IF me.id \in IdsOf(reg) THEN reg ELSE Append(reg, me)
     IN  /\ reg' = newReg
         /\ Save(Root, mid, newReg, size, TRUE)
         /\ slaves' = [slaves EXCEPT ![i].view = newReg, ![i].vsize = size,
                                     ![i].phase = "welcomed"]
  /\ UNCHANGED <<up, boots, nextID, mphase, mid, size, attempts, lost>>

\* The slave commits the registry it was answered with, and its own
\* s.StartLocalSlaves.
SlaveSaveSetup(i) ==
  /\ up
  /\ slaves[i].phase = "welcomed"
  /\ Save(slaves[i].dir, slaves[i].sid, slaves[i].view, slaves[i].vsize,
          slaves[i].sls)
  /\ slaves' = [slaves EXCEPT ![i].phase = "running"]
  /\ UNCHANGED <<up, boots, nextID, mphase, mid, size, reg, attempts, lost>>

\* The master has s.AgencySize peers: commit and start running.
MasterStartRunning ==
  /\ up
  /\ mphase = "negotiating"
  /\ Len(reg) >= size
  /\ Save(Root, mid, reg, size, TRUE)
  /\ mphase' = "running"
  /\ UNCHANGED <<up, boots, nextID, mid, size, reg, slaves, attempts,
                 lost>>

\* The process dies; all Services go with it.  ioutil.WriteFile truncates
\* before it writes, so a crash during the last write leaves it unparsable.
Crash ==
  /\ up
  /\ \/ UNCHANGED file
     \/ /\ TornWrites
        /\ lastWrite # NoDir
        /\ file' = [file EXCEPT ![lastWrite] = Corrupt]
  /\ up' = FALSE
  /\ mphase' = "down"
  /\ mid' = NoID
  /\ reg' = <<>>
  /\ slaves' = <<>>
  /\ attempts' = 0
  /\ lost' = FALSE
  /\ lastWrite' = NoDir
  /\ UNCHANGED <<boots, nextID, size>>

Next ==
  \/ MasterRelaunch
  \/ MasterFreshStart
  \/ MasterStartRunning
  \/ \E i \in DOMAIN slaves :
       \/ SlaveRelaunch(i)
       \/ SlaveFreshStart(i)
       \/ HandleHello(i)
       \/ SlaveSaveSetup(i)
  \/ Crash

Spec == Init /\ [][Next]_vars

\* Every step of the slave started i-th in this process.
SlaveSteps(i) ==
  /\ i \in DOMAIN slaves
  /\ \/ SlaveRelaunch(i)
     \/ SlaveFreshStart(i)
     \/ HandleHello(i)
     \/ SlaveSaveSetup(i)

\* A slave's goroutine keeps running Run until the process dies, its hello
\* is retried until the master answers, and the master's own steps are
\* local: none of them is stuck while the process is up.  Crashes and
\* restarts are the environment's, and are never forced.
FairSpec ==
  /\ Spec
  /\ \A i \in 1..(AgencySize - 1) : WF_vars(SlaveSteps(i))
  /\ WF_vars(MasterStartRunning)

-----------------------------------------------------------------------------
(* Properties.                                                             *)

TypeOK ==
  /\ up \in BOOLEAN
  /\ boots \in 0..MaxBoots
  /\ nextID \in 1..(MaxID + 1)
  /\ file \in [Dirs -> SetupConfigFile \cup {Absent, Corrupt}]
  /\ lastWrite \in Dirs \cup {NoDir}
  /\ lost \in BOOLEAN
  /\ mphase \in {"down", "negotiating", "running"}
  /\ mid \in IDs \cup {NoID}
  /\ size \in Sizes
  /\ reg \in Seq(Peer)
  /\ slaves \in Seq(SlaveState)
  /\ attempts \in Nat

\* No split brain across restarts: the live master is the first peer of its
\* own registry, and every slave that has been answered or has relaunched
\* holds a prefix of the master's registry that lists the slave itself
\* (relaunch of master and slaves from files written at different times).
ClusterAgreement ==
  up =>
    /\ reg # <<>>
    /\ reg[1].id = mid
    /\ \A i \in DOMAIN slaves :
         slaves[i].phase \in {"welcomed", "running"} =>
           /\ IsPrefix(slaves[i].view, reg)
           /\ [id |-> slaves[i].sid, dir |-> slaves[i].dir] \in ToSet(slaves[i].view)

\* Peer identity and data directories are exclusive: no two live Services
\* share a directory or an ID, and the registry never lists an ID or a
\* directory twice (startLocalSlaves' self check, the hello handler's
\* duplicate check, across restarts).
DistinctPeers ==
  /\ \A i \in DOMAIN slaves :
       /\ slaves[i].dir # Root
       /\ \A j \in DOMAIN slaves : i # j =>
            /\ slaves[i].dir # slaves[j].dir
            /\ slaves[i].cfg # slaves[j].cfg
  /\ \A k, l \in DOMAIN reg : k # l => reg[k].id # reg[l].id /\ reg[k].dir # reg[l].dir

-----------------------------------------------------------------------------
(* Refinement: the master's setup.json, read the way relaunch reads it,    *)
(* behaves as MasterSetup says.  Each fresh start took the ID nextID had   *)
(* then, and advanced it by AgencySize.                                    *)

Committed == IsCurrent(file[Root])

Record == INSTANCE MasterSetup WITH
  rid      <- IF Committed THEN file[Root].id ELSE NoID,
  rpeers   <- IF Committed THEN file[Root].peers ELSE <<>>,
  rsize    <- IF Committed THEN file[Root].asize ELSE NoSize,
  founders <- {k \in IDs : k < nextID /\ (k - 1) % AgencySize = 0}

\* Across crashes and relaunches, the master's committed record is never
\* replaced once usable (relaunch reuses it, a fresh start happens only
\* without one), its agency size never changes, and its registry only
\* grows, up to that size, by peers with a new ID and a new directory (the
\* hello handler's duplicate check, the slaves' relaunch under the ID the
\* master committed for them).
MasterRecordRefines == Record!Spec

\* relaunch re-derives s.AgencySize from the restored peers, not the flag
\* of this start: while the process is up, the master's agency size is the
\* one its committed record was founded with, its registry never outgrows
\* it, and every slave that holds the registry holds the same size.
AgencySizeRestored ==
  up => /\ IsCurrent(file[Root])
        /\ size = file[Root].asize
        /\ Len(reg) <= size
        /\ \A i \in DOMAIN slaves :
             slaves[i].phase \in {"welcomed", "running"} => slaves[i].vsize = size

\* A fresh start converges on Running: unless the process dies first, or a
\* slave was lost to a failed createUniqueID or NewService (which the spec
\* tolerates), the negotiating master ends up with s.AgencySize peers,
\* because createAndStartLocalSlaves started one slave per missing peer,
\* each with its own ID and directory, and each of them says hello.
ClusterForms ==
  (up /\ mphase = "negotiating" /\ ~lost) ~> (~up \/ mphase = "running")

\* The spec's slave count: a master configured with local slaves goes
\* through s.AgencySize - 1 slave peers in every boot, the relaunched one
\* included (failed ones are logged and skipped, but still counted).
SlaveCount == up => attempts = size - 1
=============================================================================
