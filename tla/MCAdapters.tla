------------------------------ MODULE MCAdapters ------------------------------
(*****************************************************************************)
(* The adapters to GitHub, to the Nebius command line and to the file        *)
(* system, checked one by one: a behaviour is about one of them, and the     *)
(* others rest.                                                              *)
(*****************************************************************************)
EXTENDS JournalFile, Integers, TLAPS, WellFoundedInduction

CONSTANTS Parts,      \* the components this instance runs
          MaxId,      \* instances ever created in the Nebius project
          MaxListings \* listings the controller makes

VARIABLES part,   \* the component this behaviour is about
    now, cache, cacheBytes, hold, throttled, call, remaining, embargo, overdraft,
    mode, list, steady, pages, done, changes,
    cloud, config, phase, token, listed, view, witnessed, ours, touched, doubled, listings,
    pending, reply, opId, mine, other, operationsPhase, verdict

\* Two callers read three keys under a small quota and a small cache.
Reads == INSTANCE GitHubReads WITH Callers <- {"a", "b"},
    Keys <- {"runs", "jobs", "runners"}, RunnerKeys <- {"runners"}, Bytes <- {1, 2, 4},
    EntryLimit <- 2, ByteLimit <- 3, Quota <- 4, Reserve <- 2, Window <- 3, Fallback <- 1,
    FallbackMax <- 3, Delays <- {0, 2}, MaxNow <- 3
ASSUME Reads!ReadsAssumption

\* A listing of three pages that changes while it is read.
Pages == INSTANCE GitHubPages WITH PageSize <- 2, FirstItems <- 5, MaxChanges <- 4
ASSUME Pages!PagesAssumption

\* Instances of several users, listed page by page.
Inventory == INSTANCE NebiusInventory
ASSUME InventoryConstants == Inventory!InventoryAssumption

\* The operations the provider prints for one request.
Operations == INSTANCE NebiusOperations WITH phase <- operationsPhase

readsVars == <<now, cache, cacheBytes, hold, throttled, call, remaining, embargo, overdraft>>
pagesVars == <<mode, list, steady, pages, done, changes>>
inventoryVars == <<cloud, config, phase, token, listed, view, witnessed, ours, touched,
                   doubled, listings>>
operationsVars == <<pending, reply, opId, mine, other, operationsPhase, verdict>>
allVars == <<part, vars, readsVars, pagesVars, inventoryVars, operationsVars>>

\* One component runs; the others rest in an initial state of theirs.
MCInit ==
    /\ part \in Parts
    /\ part = "pages" \/ (mode = "runs" /\ list = <<>>)
    /\ part = "inventory" \/ (config = CHOOSE c \in Inventory!Configs : Inventory!AcceptedConfig(c))
    /\ part = "operations" \/ (pending = "start" /\ reply = "id" /\ other = Operations!NoOp
                                /\ mine = CHOOSE o \in Operations!Operations : o.truth.target # "other")
    /\ Init
    /\ Reads!Init
    /\ Pages!Init
    /\ Inventory!Init
    /\ Operations!Init

\* A step of one component, which leaves the others as they are.
JournalAlone == part = "journal" /\ UNCHANGED <<part, readsVars, pagesVars, inventoryVars,
                                                operationsVars>>
ReadsAlone == part = "reads" /\ UNCHANGED <<part, vars, pagesVars, inventoryVars,
                                            operationsVars>>
PagesAlone == part = "pages" /\ UNCHANGED <<part, vars, readsVars, inventoryVars,
                                            operationsVars>>
InventoryAlone == part = "inventory" /\ UNCHANGED <<part, vars, readsVars, pagesVars,
                                                    operationsVars>>
OperationsAlone == part = "operations" /\ UNCHANGED <<part, vars, readsVars, pagesVars,
                                                      inventoryVars>>

MCNext ==
    \/ JournalAlone /\ Next
    \/ ReadsAlone /\ Reads!Next
    \/ PagesAlone /\ Pages!Next
    \/ InventoryAlone /\ Inventory!Next
    \/ OperationsAlone /\ Operations!Next

MCSpec == MCInit /\ [][MCNext]_allVars

-----------------------------------------------------------------------------
\* The response cache stays within its entries and bytes and counts them truly
\* (remember); reads leave the quota reserve alone (quotaHold) and wait for the
\* longest retry-after of any caller (holdFor); a listing called complete
\* misses no item that was there throughout (complete).
GitHubReadTruly ==
    /\ []Reads!CacheAccounted /\ []Reads!ReserveKept /\ Reads!RetryAfterHonoured
    /\ [](part = "pages" => Pages!CompleteMissesNothing)

\* The controller starts, stops and deletes only instances it made, recognises
\* the one it created, and sends no create beside one that relates to it
\* (instanceMatches); a pending start is retired only when no operation of it
\* can still run, and a quota refusal is recognised in every printed form and in
\* nothing else (operationCapacityRefusal).
NebiusActedOn ==
    /\ part = "inventory" =>
        /\ Inventory!NeverTouchesForeign /\ Inventory!CreatedIsRecognised
        /\ Inventory!CreatesOnlyWhenAlone
    /\ part = "operations" =>
        /\ Operations!RetiresOnlyOver /\ Operations!RefusalOnlyForQuota
        /\ Operations!RefusalNoticed

-----------------------------------------------------------------------------
(***************************************************************************)
(* The journal's writer, for any number of writes: a reader never finds    *)
(* half a journal, a write that returned is never undone, and the journal  *)
(* implements a register that changes as a whole.  The invariant says what *)
(* the three syncs are for: only a whole file whose bytes are on the disk  *)
(* gets the journal's name, and it is newer than every file that had it.   *)
(***************************************************************************)

(* Every file the name may lead to is whole and on the disk, and holds the *)
(* last write that returned or a later one.                                *)
StoredIsGood ==
  \A f \in stored : /\ f.whole /\ f.safe
                    /\ returned <= f.write /\ f.write <= writes

(* The temporary file of a write that is not yet renamed is its newest. *)
TempIsNewest ==
  pc \in {"opened", "written", "synced"} =>
    /\ temp.write = writes
    /\ \A f \in stored : f.write < writes

(* What is renamed is complete. *)
SyncedIsWhole == /\ pc \in {"written", "synced"} => temp.whole
                 /\ pc = "synced" => temp.safe

JournalInv == TypeOK /\ live \in stored /\ StoredIsGood /\ TempIsNewest /\ SyncedIsWhole

(* The journal of a new controller is whole. *)
LEMMA JournalInitially == Init => JournalInv
BY WritersAreKnown DEF Init, First, JournalInv, TypeOK, File, StoredIsGood, TempIsNewest,
                       SyncedIsWhole

(* After a power loss the name leads to one of the stored files, unchanged. *)
LEMMA LossKeepsFile ==
  ASSUME JournalInv, PowerLoss
  PROVE  live' \in stored
<1>1. PICK f \in stored : live' \in AfterLoss(f)
  BY DEF PowerLoss
<1>2. f \in File /\ f.safe /\ f.whole
  BY DEF JournalInv, TypeOK, StoredIsGood
<1>3. live' = [f EXCEPT !.whole = f.whole, !.safe = TRUE]
  BY <1>1, <1>2 DEF AfterLoss
<1>4. live' = f
  BY <1>2, <1>3 DEF File
<1> QED
  BY <1>4

(* A step of a synced write, an interruption and a power loss keep the invariant. *)
LEMMA JournalStep ==
  ASSUME Synced, JournalInv, [Next]_vars
  PROVE  JournalInv'
<1> USE WritersAreKnown DEF JournalInv, TypeOK, StoredIsGood, TempIsNewest, SyncedIsWhole
<1>1. CASE Open
  BY <1>1 DEF Open, File
<1>2. CASE WriteFile
  BY <1>2 DEF WriteFile, File
<1>3. CASE SyncFile
  BY <1>3 DEF SyncFile, File
<1>4. CASE Rename
  BY <1>4, Synced DEF Rename, Ready, File
<1>5. CASE SyncDirectory
  BY <1>5 DEF SyncDirectory, File
<1>6. CASE ReturnUnsynced
  BY <1>6, Synced DEF ReturnUnsynced
<1>7. CASE Interrupted
  BY <1>7 DEF Interrupted
<1>8. CASE PowerLoss
  BY <1>8, LossKeepsFile DEF PowerLoss
<1>9. CASE UNCHANGED vars
  BY <1>9 DEF vars
<1> QED
  BY <1>1, <1>2, <1>3, <1>4, <1>5, <1>6, <1>7, <1>8, <1>9 DEF Next

(* The invariant holds whenever the writer syncs. *)
LEMMA JournalInvariant == ASSUME Synced PROVE Spec => []JournalInv
<1>1. JournalInv /\ [Next]_vars => JournalInv'
  BY JournalStep
<1> QED
  BY <1>1, JournalInitially, PTL DEF Spec

(* A synced journal is never found torn: writeJournalAtomic. *)
THEOREM JournalIsWhole == ASSUME Synced PROVE Spec => []NeverTorn
<1>1. JournalInv => NeverTorn
  BY DEF JournalInv, StoredIsGood, NeverTorn
<1> QED
  BY <1>1, JournalInvariant, PTL

(* A journal write that returned is never undone by a later write that  *)
(* fails, a kill or a power loss: writeJournalAtomic.                   *)
THEOREM JournalIsDurable == ASSUME Synced PROVE Spec => []ReturnedIsDurable
<1>1. JournalInv => ReturnedIsDurable
  BY DEF JournalInv, TypeOK, File, StoredIsGood, ReturnedIsDurable
<1> QED
  BY <1>1, JournalInvariant, PTL

(* A rename changes the register to a newer value. *)
LEMMA RenameChanges ==
  ASSUME JournalInv, Synced, Rename
  PROVE  Register!Change
<1>1. live' = temp /\ temp \in File /\ temp.write = writes
  BY DEF Rename, Ready, JournalInv, TypeOK, TempIsNewest
<1>2. temp.write \in Nat
  BY <1>1 DEF File
<1>3. \A m \in {f.write : f \in stored} : temp.write > m
  BY <1>1, WritersAreKnown DEF Rename, Ready, JournalInv, TypeOK, TempIsNewest, File
<1>4. {f.write : f \in stored'} = {f.write : f \in stored} \cup {temp.write}
  BY DEF Rename
<1> QED
  BY <1>1, <1>2, <1>3, <1>4 DEF Register!Change, Rename

(* The sync of the directory confirms the register's value. *)
LEMMA SyncConfirms ==
  ASSUME SyncDirectory
  PROVE  Register!Confirm
BY DEF SyncDirectory, Register!Confirm

(* A power loss takes the register to a value it may have kept. *)
LEMMA LossMaps ==
  ASSUME JournalInv, PowerLoss
  PROVE  Register!PowerLoss
<1>1. live' \in stored /\ stored' = {live'} /\ returned' = returned
  BY LossKeepsFile DEF PowerLoss
<1> QED
  BY <1>1 DEF Register!PowerLoss

(* The journal implements the register: every step of the writer, failures, *)
(* kills and power losses included, is a step of the register or none.      *)
THEOREM JournalIsRegister == ASSUME Synced PROVE Spec => Atomic
<1>1. Init => Register!Init
  BY DEF Init, First, Register!Init
<1>2. ASSUME JournalInv, [Next]_vars
      PROVE  [Register!Next]_Register!vars
  <2>1. CASE Rename
    BY <1>2, <2>1, RenameChanges, Synced DEF Register!Next
  <2>2. CASE SyncDirectory
    BY <2>2, SyncConfirms DEF Register!Next
  <2>3. CASE PowerLoss
    BY <1>2, <2>3, LossMaps DEF Register!Next
  <2>4. CASE Open \/ WriteFile \/ SyncFile \/ Interrupted
    <3>1. live' = live /\ stored' = stored /\ returned' = returned
      BY <2>4 DEF Open, WriteFile, SyncFile, Interrupted
    <3> QED
      BY <3>1 DEF Register!vars
  <2>5. CASE ReturnUnsynced
    BY <2>5, Synced DEF ReturnUnsynced
  <2>6. CASE UNCHANGED vars
    BY <2>6 DEF vars, Register!vars
  <2> QED
    BY <1>2, <2>1, <2>2, <2>3, <2>4, <2>5, <2>6 DEF Next
<1> QED
  BY <1>1, <1>2, JournalInvariant, PTL DEF Spec, Atomic, Register!Spec

-----------------------------------------------------------------------------
(***************************************************************************)
(* What the controller does to the instances and the operations of its      *)
(* Nebius project is proved for any number of instances and listings.       *)
(***************************************************************************)

(* A set of numbers that has an element has a least one.                  *)
LEMMA HasLeast ==
  ASSUME NEW S, S \subseteq Nat, S # {}
  PROVE  \E n \in S : \A m \in S : n <= m
<1>1. IsWellFoundedOn(OpToRel(<, Nat), Nat)
  BY NatLessThanWellFounded
<1>2. PICK n \in S : \A m \in S : ~ (<<m, n>> \in OpToRel(<, Nat))
  BY <1>1, WFMin
<1>3. \A m \in S : ~ (m < n)
  BY <1>2 DEF OpToRel
<1> QED
  BY <1>3

(* The instances the controller's own create requests make, under any      *)
(* configuration.                                                           *)
OwnSpecs == {Inventory!RenderCreateRequest(c) : c \in Inventory!Configs}
Instances == [id : 1..MaxId, spec : OwnSpecs \cup Inventory!ForeignSpecs,
              power : {"running", "stopped"}]

(* Ids are unique, and so they stay; the configuration in use was         *)
(* accepted by parseRunnerConfig.                                         *)
Recorded ==
  /\ cloud \subseteq Instances
  /\ \A i, j \in cloud : i.id = j.id => i = j
  /\ listed \subseteq Instances
  /\ config \in Inventory!Configs /\ Inventory!AcceptedConfig(config)
  /\ phase \in {"idle", "observe", "decided", "execute"}
  /\ token \in Nat

(* What carries an id of ours was made by a create request; everything    *)
(* else is another user's. An instance that was listed may be gone and    *)
(* its id be used again, but ours are never taken by others.              *)
MadeOrForeign ==
  /\ \A i \in cloud : IF i.id \in ours THEN i.spec \in OwnSpecs ELSE i.spec \in Inventory!ForeignSpecs
  /\ \A i \in listed : i.id \in ours \/ i.spec \in Inventory!ForeignSpecs

(* The related instances that are there since the observation began are   *)
(* among those read so far, so an observation that saw nothing missed     *)
(* none of them, although the pages were read at different moments.       *)
WitnessedAreRead ==
  phase # "idle" =>
    \A i \in cloud : i.id \in witnessed =>
      /\ Inventory!RelatedToExpected(i, config)
      /\ phase = "observe" /\ i.id <= token => i \in listed
      /\ phase # "observe" => view # Inventory!Absent

(* The inductive invariant of the inventory.                              *)
InventoryInv == /\ Recorded /\ MadeOrForeign /\ WitnessedAreRead
                /\ Inventory!NeverTouchesForeign /\ Inventory!CreatesOnlyWhenAlone

(* Labels with a field more, or none, are not those of the request.       *)
LEMMA LabelsDiffer ==
  ASSUME NEW c
  PROVE  /\ Inventory!ExpectedLabels(c) # <<>>
         /\ Inventory!ExpectedLabels(c) # [controller |-> "me", config |-> "h1", team |-> "x"]
<1>1. DOMAIN Inventory!ExpectedLabels(c) = {"controller", "config"}
  BY DEF Inventory!ExpectedLabels
<1>2. DOMAIN [controller |-> "me", config |-> "h1", team |-> "x"] = {"controller", "config", "team"}
  OBVIOUS
<1>3. Inventory!ExpectedLabels(c) = <<>> => FALSE
  <2>1. DOMAIN <<>> = {}
    OBVIOUS
  <2>2. "controller" \in {"controller", "config"}
    OBVIOUS
  <2> QED
    BY <1>1, <2>1, <2>2
<1>4. "team" \notin {"controller", "config"} /\ "team" \in {"controller", "config", "team"}
  OBVIOUS
<1> QED
  BY <1>1, <1>2, <1>3, <1>4

(* No instance of another user matches an accepted configuration: name,   *)
(* labels, disk or recovery policy differ (instanceMatches).              *)
LEMMA ForeignNeverMatch ==
  ASSUME NEW i, NEW c \in Inventory!Configs, Inventory!AcceptedConfig(c), i.spec \in Inventory!ForeignSpecs
  PROVE  ~Inventory!InstanceMatches(i, c)
<1>1. i.spec \in Inventory!ForeignSpecs
  OBVIOUS
<1>2. Inventory!DiskOf(c) = "NETWORK_SSD/80"
  BY DEF Inventory!DiskOf, Inventory!AcceptedConfig
<1>3. SUFFICES ASSUME Inventory!InstanceMatches(i, c) PROVE FALSE
  OBVIOUS
<1>4. CASE i.spec = [Inventory!Base EXCEPT !.name = "web", !.labels = [config |-> "other"]]
  BY <1>3, <1>4 DEF Inventory!InstanceMatches, Inventory!Base, Inventory!RenderCreateRequest
<1>5. CASE i.spec = [Inventory!Base EXCEPT !.labels = <<>>]
  BY <1>3, <1>5, LabelsDiffer DEF Inventory!InstanceMatches, Inventory!Base,
                                  Inventory!RenderCreateRequest
<1>6. CASE i.spec = [Inventory!Base EXCEPT !.name = "copy", !.labels = [config |-> "h1"]]
  BY <1>3, <1>6 DEF Inventory!InstanceMatches, Inventory!Base, Inventory!RenderCreateRequest
<1>7. CASE i.spec = [Inventory!Base EXCEPT !.labels = [controller |-> "me", config |-> "h1", team |-> "x"]]
  BY <1>3, <1>7, LabelsDiffer DEF Inventory!InstanceMatches, Inventory!Base,
                                  Inventory!RenderCreateRequest
<1>8. CASE i.spec = [Inventory!Base EXCEPT !.disk = "NETWORK_SSD/160"]
  BY <1>2, <1>3, <1>8 DEF Inventory!InstanceMatches, Inventory!Base,
                          Inventory!RenderCreateRequest
<1>9. CASE i.spec = [Inventory!Base EXCEPT !.diskName = "other-boot", !.policy = "RECOVER"]
  BY <1>3, <1>9 DEF Inventory!InstanceMatches, Inventory!Base, Inventory!RenderCreateRequest
<1> QED
  BY <1>1, <1>4, <1>5, <1>6, <1>7, <1>8, <1>9 DEF Inventory!ForeignSpecs

(* What a create request made under a configuration of the same hash      *)
(* matches the configuration in use.                                      *)
LEMMA OwnMatches ==
  ASSUME NEW i, NEW c \in Inventory!Configs, Inventory!AcceptedConfig(c), i.spec \in OwnSpecs,
         i.spec.labels["config"] = c.hash
  PROVE  Inventory!InstanceMatches(i, c) /\ Inventory!NoMismatch(i, c)
<1>1. PICK d \in Inventory!Configs : i.spec = Inventory!RenderCreateRequest(d)
  BY DEF OwnSpecs
<1>2. i.spec.labels = [controller |-> "me", config |-> d.hash] /\ i.spec.name = "vm"
      /\ i.spec.policy = "FAIL" /\ i.spec.compute = "cpu-d3/4vcpu-16gb"
      /\ i.spec.subnet = d.subnet /\ i.spec.diskName = "boot" /\ i.spec.disk = "NETWORK_SSD/80"
  BY <1>1 DEF Inventory!RenderCreateRequest
<1>3. d.hash = c.hash
  BY <1>2
<1>4. d.subnet = c.subnet
  BY DEF Inventory!Configs
<1>5. Inventory!DiskOf(c) = "NETWORK_SSD/80" /\ c.compute = "cpu-d3/4vcpu-16gb"
  BY DEF Inventory!DiskOf, Inventory!AcceptedConfig
<1> QED
  BY <1>2, <1>3, <1>4, <1>5 DEF Inventory!InstanceMatches, Inventory!NoMismatch,
                                Inventory!ExpectedLabels

(* When no page is left, every instance has been passed by the page       *)
(* token.                                                                 *)
LEMMA LastPageReadAll ==
  ASSUME Recorded, Inventory!LastPage
  PROVE  \A i \in cloud : i.id <= token
<1> DEFINE Later == {n \in Nat : n > token /\ \E i \in cloud : i.id = n}
<1>1. SUFFICES ASSUME NEW i \in cloud, ~(i.id <= token) PROVE FALSE
  OBVIOUS
<1>2. \A j \in cloud : j.id \in Nat
  BY InventoryConstants DEF Recorded, Instances, Inventory!InventoryAssumption
<1>3. i.id \in Later
  BY <1>1, <1>2 DEF Recorded
<1>4. PICK n \in Later : \A m \in Later : n <= m
  BY <1>3, HasLeast
<1>5. PICK j \in cloud : j.id = n
  OBVIOUS
<1>6. j \in Inventory!NextOnPage
  BY <1>2, <1>4, <1>5 DEF Inventory!NextOnPage
<1> QED
  BY <1>6 DEF Inventory!LastPage

(* A page passes the token over no instance but its own.                  *)
LEMMA PageIsLeast ==
  ASSUME Recorded, Inventory!NextOnPage # {}
  PROVE  LET n == (CHOOSE i \in Inventory!NextOnPage : TRUE).id IN
           /\ n \in Nat
           /\ Inventory!NextOnPage \subseteq cloud
           /\ \A i \in cloud : i.id <= n => i.id <= token \/ i \in Inventory!NextOnPage
<1>1. PICK p : p = (CHOOSE i \in Inventory!NextOnPage : TRUE)
  OBVIOUS
<1>2. p \in Inventory!NextOnPage
  BY <1>1
<1>3. p \in cloud /\ p.id > token /\ \A j \in cloud : j.id > token => p.id <= j.id
  BY <1>2 DEF Inventory!NextOnPage
<1>4. \A j \in cloud : j.id \in Nat
  BY InventoryConstants DEF Recorded, Instances, Inventory!InventoryAssumption
<1>5. ASSUME NEW i \in cloud, i.id <= p.id, ~(i.id <= token)
      PROVE  i \in Inventory!NextOnPage
  <2>1. i.id = p.id
    BY <1>3, <1>4, <1>5 DEF Recorded
  <2>2. i = p
    BY <1>3, <2>1 DEF Recorded
  <2> QED
    BY <1>2, <2>2
<1> QED
  BY <1>1, <1>3, <1>4, <1>5 DEF Inventory!NextOnPage

(* An empty project satisfies the invariant.                              *)
LEMMA InventoryInitially == Inventory!Init => InventoryInv
BY DEF Inventory!Init, InventoryInv, Recorded, MadeOrForeign, WitnessedAreRead,
       Inventory!NeverTouchesForeign, Inventory!CreatesOnlyWhenAlone

(* The view is absent only if no related instance was listed              *)
(* (observeProvider).                                                     *)
LEMMA AbsentMeansUnrelated ==
  ASSUME Inventory!ObservedView = Inventory!Absent
  PROVE  Inventory!Related = {}
<1>1. ASSUME \E i, j \in Inventory!Exact : i # j PROVE FALSE
  <2>1. Inventory!Exact # {}
    BY <1>1
  <2>2. Inventory!ObservedView = [complete |-> TRUE, vm |-> "unknown", ownership |-> "ambiguous"]
    BY <1>1, <2>1 DEF Inventory!ObservedView
  <2> QED
    BY <2>2 DEF Inventory!Absent
<1>2. ASSUME \A i, j \in Inventory!Exact : i = j, Inventory!Related # {} PROVE FALSE
  <2>1. CASE Inventory!Exact = {}
    <3>1. Inventory!ObservedView = [complete |-> TRUE, vm |-> "unknown", ownership |-> "foreign"]
      BY <1>2, <2>1 DEF Inventory!ObservedView
    <3> QED
      BY <3>1 DEF Inventory!Absent
  <2>2. CASE Inventory!Exact # {}
    <3>1. Inventory!ObservedView.ownership = "owned"
      BY <1>2, <2>2 DEF Inventory!ObservedView
    <3> QED
      BY <3>1 DEF Inventory!Absent
  <2> QED
    BY <2>1, <2>2
<1> QED
  BY <1>1, <1>2

(* What a mutation leaves is as well identified as what it found.         *)
Kept(c) ==
  /\ c \subseteq Instances
  /\ \A j, k \in c : j.id = k.id => j = k
  /\ \A j \in c : IF j.id \in ours THEN j.spec \in OwnSpecs ELSE j.spec \in Inventory!ForeignSpecs

(* A start or a stop changes the power of one instance and nothing else.  *)
LEMMA PowerChangeKeeps ==
  ASSUME Recorded, MadeOrForeign, NEW i, NEW w \in {"running", "stopped"},
         NEW c, c = {IF j.id = i.id THEN [j EXCEPT !.power = w] ELSE j : j \in cloud}
  PROVE  Kept(c)
<1>1. \A k \in c : \E j \in cloud : k = (IF j.id = i.id THEN [j EXCEPT !.power = w] ELSE j)
  OBVIOUS
<1>2. \A j \in cloud : /\ j \in Instances
                       /\ [j EXCEPT !.power = w] \in Instances
                       /\ [j EXCEPT !.power = w].id = j.id
                       /\ [j EXCEPT !.power = w].spec = j.spec
  BY DEF Recorded, Instances
<1>3. ASSUME NEW k \in c
      PROVE  /\ k \in Instances
             /\ \E j \in cloud : /\ k.id = j.id /\ k.spec = j.spec
                                 /\ k = (IF j.id = i.id THEN [j EXCEPT !.power = w] ELSE j)
  <2>1. PICK j \in cloud : k = (IF j.id = i.id THEN [j EXCEPT !.power = w] ELSE j)
    BY <1>1
  <2>2. k \in Instances /\ k.id = j.id /\ k.spec = j.spec
    BY <1>2, <2>1
  <2> QED
    BY <2>1, <2>2
<1>4. ASSUME NEW j \in c, NEW k \in c, j.id = k.id PROVE j = k
  <2>1. PICK a \in cloud : j.id = a.id /\ j = (IF a.id = i.id THEN [a EXCEPT !.power = w] ELSE a)
    BY <1>3
  <2>2. PICK b \in cloud : k.id = b.id /\ k = (IF b.id = i.id THEN [b EXCEPT !.power = w] ELSE b)
    BY <1>3
  <2>3. a = b
    BY <1>4, <2>1, <2>2 DEF Recorded
  <2> QED
    BY <2>1, <2>2, <2>3
<1>5. ASSUME NEW j \in c PROVE IF j.id \in ours THEN j.spec \in OwnSpecs ELSE j.spec \in Inventory!ForeignSpecs
  <2>1. PICK a \in cloud : j.id = a.id /\ j.spec = a.spec
    BY <1>3
  <2> QED
    BY <2>1 DEF MadeOrForeign
<1> QED
  BY <1>3, <1>4, <1>5 DEF Kept

(* The exact match of a listing is an instance of ours.                   *)
LEMMA ExactIsOurs ==
  ASSUME Recorded, MadeOrForeign, NEW i \in Inventory!Exact
  PROVE  i.id \in ours
<1>1. i \in listed /\ Inventory!InstanceMatches(i, config)
  BY DEF Inventory!Exact
<1> QED
  BY <1>1, ForeignNeverMatch DEF Recorded, MadeOrForeign

(* Every step of the controller, of its operator and of the other users   *)
(* keeps the invariant.                                                   *)
LEMMA InventoryStep ==
  ASSUME InventoryInv, [Inventory!Next]_(Inventory!vars)
  PROVE  InventoryInv'
<1> USE DEF InventoryInv
<1>1. CASE Inventory!Configure
  <2>1. PICK c \in Inventory!Configs : Inventory!AcceptedConfig(c) /\ config' = c
    BY <1>1 DEF Inventory!Configure
  <2>2. phase = "idle" /\ UNCHANGED <<cloud, phase, token, listed, view, witnessed, ours, touched, doubled>>
    BY <1>1 DEF Inventory!Configure
  <2>3. Recorded'
    BY <2>1, <2>2 DEF Recorded, Inventory!AcceptedConfig
  <2> QED
    BY <2>2, <2>3 DEF MadeOrForeign, WitnessedAreRead, Inventory!NeverTouchesForeign,
                      Inventory!CreatesOnlyWhenAlone
<1>2. CASE Inventory!Observe
  <2>1. phase' = "observe" /\ token' = 0 /\ listed' = {}
        /\ witnessed' = {i.id : i \in {j \in cloud : Inventory!RelatedToExpected(j, config)}}
        /\ UNCHANGED <<cloud, config, view, ours, touched, doubled>>
    BY <1>2 DEF Inventory!Observe, Inventory!BeginListing
  <2>2. \A i \in cloud : i.id \in Nat /\ i.id > 0
    BY InventoryConstants DEF Recorded, Instances, Inventory!InventoryAssumption
  <2>3. ASSUME NEW i \in cloud, i.id \in witnessed' PROVE Inventory!RelatedToExpected(i, config)
    <3>1. PICK j \in cloud : Inventory!RelatedToExpected(j, config) /\ j.id = i.id
      BY <2>1, <2>3
    <3>2. j = i
      BY <3>1 DEF Recorded
    <3> QED
      BY <3>1, <3>2
  <2>4. WitnessedAreRead'
    BY <2>1, <2>2, <2>3 DEF WitnessedAreRead, Inventory!RelatedToExpected
  <2> QED
    BY <2>1, <2>4 DEF Recorded, MadeOrForeign, Inventory!NeverTouchesForeign,
                      Inventory!CreatesOnlyWhenAlone
<1>3. CASE Inventory!ReadPage
  <2>1. /\ phase \in {"observe", "execute"} /\ Inventory!NextOnPage # {}
        /\ listed' = listed \cup Inventory!NextOnPage
        /\ token' = (CHOOSE i \in Inventory!NextOnPage : TRUE).id
        /\ UNCHANGED <<cloud, config, phase, view, witnessed, ours, touched, doubled>>
    BY <1>3 DEF Inventory!ReadPage
  <2>2. /\ token' \in Nat
        /\ Inventory!NextOnPage \subseteq cloud
        /\ \A i \in cloud : i.id <= token' => i.id <= token \/ i \in Inventory!NextOnPage
    BY <2>1, PageIsLeast
  <2>3. Recorded' /\ MadeOrForeign'
    BY <2>1, <2>2 DEF Recorded, MadeOrForeign
  <2>4. WitnessedAreRead'
    BY <2>1, <2>2 DEF WitnessedAreRead, Inventory!RelatedToExpected
  <2> QED
    BY <2>1, <2>3, <2>4 DEF Inventory!NeverTouchesForeign, Inventory!CreatesOnlyWhenAlone
<1>4. CASE Inventory!ObserveProvider
  <2>1. /\ phase = "observe" /\ Inventory!LastPage /\ view' = Inventory!ObservedView /\ phase' = "decided"
        /\ UNCHANGED <<cloud, config, token, listed, witnessed, ours, touched, doubled>>
    BY <1>4 DEF Inventory!ObserveProvider
  <2>2. ASSUME NEW i \in cloud, i.id \in witnessed
        PROVE  Inventory!RelatedToExpected(i, config) /\ Inventory!ObservedView # Inventory!Absent
    <3>1. Inventory!RelatedToExpected(i, config) /\ i \in listed
      BY <2>1, <2>2, LastPageReadAll DEF WitnessedAreRead
    <3>2. i \in Inventory!Related
      BY <3>1 DEF Inventory!Related
    <3> QED
      BY <3>1, <3>2, AbsentMeansUnrelated
  <2>3. WitnessedAreRead'
    BY <2>1, <2>2 DEF WitnessedAreRead, Inventory!RelatedToExpected
  <2> QED
    BY <2>1, <2>3 DEF Recorded, MadeOrForeign, Inventory!NeverTouchesForeign,
                      Inventory!CreatesOnlyWhenAlone
<1>5. CASE Inventory!ListingFails
  BY <1>5 DEF Inventory!ListingFails, Recorded, MadeOrForeign, WitnessedAreRead,
              Inventory!NeverTouchesForeign, Inventory!CreatesOnlyWhenAlone
<1>6. CASE Inventory!BeginEffect
  <2>1. /\ phase = "decided" /\ phase' = "execute" /\ token' = 0 /\ listed' = {}
        /\ UNCHANGED <<cloud, config, view, witnessed, ours, touched, doubled>>
    BY <1>6 DEF Inventory!BeginEffect, Inventory!BeginListing
  <2>2. WitnessedAreRead'
    BY <2>1 DEF WitnessedAreRead, Inventory!RelatedToExpected
  <2> QED
    BY <2>1, <2>2 DEF Recorded, MadeOrForeign, Inventory!NeverTouchesForeign,
                      Inventory!CreatesOnlyWhenAlone
<1>7. CASE Inventory!NoEffect
  BY <1>7 DEF Inventory!NoEffect, Recorded, MadeOrForeign, WitnessedAreRead,
              Inventory!NeverTouchesForeign, Inventory!CreatesOnlyWhenAlone
<1>8. CASE Inventory!Create
  <2>1. PICK n \in 1..MaxId :
          /\ Inventory!FreshId(n)
          /\ cloud' = cloud \cup {[id |-> n, spec |-> Inventory!RenderCreateRequest(config), power |-> "stopped"]}
          /\ ours' = ours \cup {n}
    BY <1>8 DEF Inventory!Create
  <2>2. /\ phase = "execute" /\ view = Inventory!Absent /\ phase' = "idle"
        /\ doubled' = (doubled \/ \E i \in cloud : i.id \in witnessed)
        /\ UNCHANGED <<config, token, listed, view, witnessed, touched>>
    BY <1>8, Zenon DEF Inventory!Create
  <2>3. PICK v : v = [id |-> n, spec |-> Inventory!RenderCreateRequest(config), power |-> "stopped"]
    OBVIOUS
  <2>4. v \in Instances /\ v.id = n /\ v.spec \in OwnSpecs
    BY <2>3 DEF Recorded, Instances, OwnSpecs
  <2>5. \A i \in cloud : i.id # n
    BY <2>1 DEF Inventory!FreshId
  <2>6. Recorded'
    BY <2>1, <2>2, <2>3, <2>4, <2>5 DEF Recorded, Inventory!AcceptedConfig
  <2>7. MadeOrForeign'
    BY <2>1, <2>2, <2>3, <2>4, <2>5 DEF MadeOrForeign
  <2>8. Inventory!CreatesOnlyWhenAlone'
    BY <2>2 DEF Inventory!CreatesOnlyWhenAlone, WitnessedAreRead
  <2> QED
    BY <2>1, <2>2, <2>6, <2>7, <2>8 DEF WitnessedAreRead, Inventory!NeverTouchesForeign
<1>9. CASE Inventory!MutateOwned
  <2>1. PICK i \in Inventory!Exact :
          /\ touched' = touched \cup {i.id}
          /\ \/ cloud' = {j \in cloud : j.id # i.id}
             \/ \E w \in {"running", "stopped"} :
                  cloud' = {IF j.id = i.id THEN [j EXCEPT !.power = w] ELSE j : j \in cloud}
    BY <1>9 DEF Inventory!MutateOwned
  <2>2. phase' = "idle" /\ UNCHANGED <<config, token, listed, view, witnessed, ours, doubled>>
    BY <1>9 DEF Inventory!MutateOwned
  <2>3. i.id \in ours
    BY ExactIsOurs
  <2>4. Kept(cloud')
    <3>1. CASE cloud' = {j \in cloud : j.id # i.id}
      BY <3>1 DEF Recorded, MadeOrForeign, Kept
    <3>2. CASE \E w \in {"running", "stopped"} :
                 cloud' = {IF j.id = i.id THEN [j EXCEPT !.power = w] ELSE j : j \in cloud}
      <4>1. PICK w \in {"running", "stopped"} :
              cloud' = {IF j.id = i.id THEN [j EXCEPT !.power = w] ELSE j : j \in cloud}
        BY <3>2
      <4> QED
        BY <4>1, PowerChangeKeeps
    <3> QED
      BY <2>1, <3>1, <3>2
  <2> QED
    BY <2>1, <2>2, <2>3, <2>4 DEF Kept, Recorded, MadeOrForeign, Inventory!AcceptedConfig,
                                  WitnessedAreRead, Inventory!NeverTouchesForeign,
                                  Inventory!CreatesOnlyWhenAlone
<1>10. CASE Inventory!EffectThrows
  BY <1>10 DEF Inventory!EffectThrows, Recorded, MadeOrForeign, WitnessedAreRead,
               Inventory!NeverTouchesForeign, Inventory!CreatesOnlyWhenAlone
<1>11. CASE Inventory!DirectAction
  <2>1. PICK i \in Inventory!Exact :
          /\ touched' = touched \cup {i.id}
          /\ \/ cloud' = {j \in cloud : j.id # i.id}
             \/ \E w \in {"running", "stopped"} :
                  cloud' = {IF j.id = i.id THEN [j EXCEPT !.power = w] ELSE j : j \in cloud}
    BY <1>11 DEF Inventory!DirectAction
  <2>2. phase' = "idle" /\ UNCHANGED <<config, token, listed, view, witnessed, ours, doubled>>
    BY <1>11 DEF Inventory!DirectAction
  <2>3. i.id \in ours
    BY ExactIsOurs
  <2>4. Kept(cloud')
    <3>1. CASE cloud' = {j \in cloud : j.id # i.id}
      BY <3>1 DEF Recorded, MadeOrForeign, Kept
    <3>2. CASE \E w \in {"running", "stopped"} :
                 cloud' = {IF j.id = i.id THEN [j EXCEPT !.power = w] ELSE j : j \in cloud}
      <4>1. PICK w \in {"running", "stopped"} :
              cloud' = {IF j.id = i.id THEN [j EXCEPT !.power = w] ELSE j : j \in cloud}
        BY <3>2
      <4> QED
        BY <4>1, PowerChangeKeeps
    <3> QED
      BY <2>1, <3>1, <3>2
  <2> QED
    BY <2>1, <2>2, <2>3, <2>4 DEF Kept, Recorded, MadeOrForeign, Inventory!AcceptedConfig,
                                  WitnessedAreRead, Inventory!NeverTouchesForeign,
                                  Inventory!CreatesOnlyWhenAlone
<1>12. CASE Inventory!ForeignCreate
  <2>1. PICK n \in 1..MaxId, s \in Inventory!ForeignSpecs :
          /\ Inventory!FreshId(n) /\ n \notin ours \cup witnessed
          /\ cloud' = cloud \cup {[id |-> n, spec |-> s, power |-> "running"]}
    BY <1>12 DEF Inventory!ForeignCreate
  <2>2. UNCHANGED <<config, phase, token, listed, view, witnessed, ours, touched, doubled>>
    BY <1>12 DEF Inventory!ForeignCreate
  <2>3. PICK v : v = [id |-> n, spec |-> s, power |-> "running"]
    OBVIOUS
  <2>4. v \in Instances /\ v.id = n /\ v.spec = s
    BY <2>3 DEF Instances
  <2>5. \A i \in cloud : i.id # n
    BY <2>1 DEF Inventory!FreshId
  <2>6. Recorded'
    BY <2>1, <2>2, <2>3, <2>4, <2>5 DEF Recorded, Inventory!AcceptedConfig
  <2>7. MadeOrForeign'
    BY <2>1, <2>2, <2>3, <2>4, <2>5 DEF MadeOrForeign
  <2>8. WitnessedAreRead'
    BY <2>1, <2>2, <2>3, <2>4 DEF WitnessedAreRead, Inventory!RelatedToExpected
  <2> QED
    BY <2>2, <2>6, <2>7, <2>8 DEF Inventory!NeverTouchesForeign, Inventory!CreatesOnlyWhenAlone
<1>13. CASE Inventory!Removed
  <2>1. PICK i \in cloud : cloud' = cloud \ {i} /\ witnessed' = witnessed \ {i.id}
    BY <1>13 DEF Inventory!Removed
  <2>2. UNCHANGED <<config, phase, token, listed, view, ours, touched, doubled>>
    BY <1>13 DEF Inventory!Removed
  <2>3. WitnessedAreRead'
    BY <2>1, <2>2 DEF WitnessedAreRead, Inventory!RelatedToExpected
  <2> QED
    BY <2>1, <2>2, <2>3 DEF Recorded, MadeOrForeign, Inventory!NeverTouchesForeign,
                            Inventory!CreatesOnlyWhenAlone
<1>14. CASE UNCHANGED Inventory!vars
  BY <1>14 DEF Inventory!vars, Recorded, MadeOrForeign, WitnessedAreRead,
               Inventory!RelatedToExpected, Inventory!NeverTouchesForeign,
               Inventory!CreatesOnlyWhenAlone
<1> QED
  BY <1>1, <1>2, <1>3, <1>4, <1>5, <1>6, <1>7, <1>8, <1>9, <1>10, <1>11, <1>12, <1>13, <1>14
     DEF Inventory!Next

(* The invariant gives what the runs check of the inventory.              *)
LEMMA InventoryGoals ==
  ASSUME InventoryInv
  PROVE  Inventory!NeverTouchesForeign /\ Inventory!CreatedIsRecognised /\ Inventory!CreatesOnlyWhenAlone
BY OwnMatches DEF InventoryInv, Recorded, MadeOrForeign, Inventory!CreatedIsRecognised

(* The listed operations are well formed, the pending one concerns the    *)
(* VM, and a verdict is only there once the list was read.                *)
Replied ==
  /\ pending \in {"start", "create"}
  /\ opId \in {"op1", "none"}
  /\ mine \in Operations!Operations /\ mine.truth.target # "other"
  /\ other \in Operations!Operations \cup {Operations!NoOp}
  /\ operationsPhase \in {"replied", "listing", "done"}
  /\ verdict \in [retire : BOOLEAN, refusal : BOOLEAN]
  /\ operationsPhase # "done" => verdict = Operations!Keep

(* The inductive invariant of the operations.                             *)
OperationsInv == /\ Replied /\ Operations!RetiresOnlyOver
                 /\ Operations!RefusalOnlyForQuota /\ Operations!RefusalNoticed

(* What operationState and operationCapacityRefusal make of an operation  *)
(* they can read is true of it, in every printed form.                    *)
LEMMA ParsedIsTrue ==
  ASSUME NEW o \in Operations!Operations, o.form # "malformed"
  PROVE  /\ Operations!OperationState(o) \notin {"PENDING", "RUNNING"} => o.truth.phase \in Operations!Over
         /\ Operations!OperationCapacityRefusal(o) => o.truth.phase = "FAILED" /\ o.truth.code = 8
         /\ /\ o.truth.phase = "FAILED" /\ o.truth.code = 8
            /\ o.form # "state" \/ o.truth.quota
            => Operations!OperationState(o) = "FAILED" /\ Operations!OperationCapacityRefusal(o)
<1>1. /\ o.truth.phase \in Operations!Phases /\ o.truth.code \in {0, 1, 3, 8}
      /\ o.truth.quota \in BOOLEAN
      /\ (o.truth.phase = "CANCELLED") = (o.truth.code = 1)
      /\ (o.truth.phase = "FAILED") = (o.truth.code \in {3, 8})
      /\ o.truth.quota => o.truth.phase = "FAILED" /\ o.truth.code = 8
  BY DEF Operations!Operations, Operations!Truths
<1>2. Operations!OperationState(o) = IF o.form = "state" THEN o.truth.phase
                          ELSE IF o.truth.code # 0 THEN "FAILED"
                          ELSE IF o.truth.phase \in Operations!Over THEN "SUCCEEDED" ELSE "RUNNING"
  BY DEF Operations!OperationState
<1> QED
  BY <1>1, <1>2 DEF Operations!OperationCapacityRefusal, Operations!CodeSeen,
                    Operations!Phases, Operations!Over

(* A page that can be read holds the pending operation and the other one, *)
(* and under its id nothing but the pending one.                          *)
LEMMA PageHolds ==
  ASSUME Replied
  PROVE  /\ Operations!ParsedOperation(mine, "op1") \in Operations!ParseOperationPage
         /\ other # Operations!NoOp => Operations!ParsedOperation(other, "op2") \in Operations!ParseOperationPage
         /\ \A p \in Operations!ParseOperationPage : p.id = "op1" => p = Operations!ParsedOperation(mine, "op1")
         /\ ~Operations!ParseFails => mine.form # "malformed"
         /\ ~Operations!ParseFails /\ other # Operations!NoOp => other.form # "malformed"
<1>1. /\ <<mine, "op1">> \in Operations!Listed
      /\ other # Operations!NoOp => <<other, "op2">> \in Operations!Listed
      /\ \A l \in Operations!Listed : l = <<mine, "op1">> \/ l = <<other, "op2">>
  BY DEF Operations!Listed
<1>2. Operations!ParsedOperation(other, "op2").id = "op2"
  BY DEF Operations!ParsedOperation
<1>3. ASSUME NEW p \in Operations!ParseOperationPage, p.id = "op1"
      PROVE  p = Operations!ParsedOperation(mine, "op1")
  <2>1. PICK l \in Operations!Listed : p = Operations!ParsedOperation(l[1], l[2])
    BY <1>3 DEF Operations!ParseOperationPage
  <2>2. CASE l = <<other, "op2">>
    <3>1. p = Operations!ParsedOperation(other, "op2")
      BY <2>1, <2>2
    <3> QED
      BY <1>2, <1>3, <3>1
  <2>3. CASE l = <<mine, "op1">>
    BY <2>1, <2>3
  <2> QED
    BY <1>1, <2>2, <2>3
<1>4. Operations!ParsedOperation(mine, "op1") \in Operations!ParseOperationPage
  <2>1. <<mine, "op1">>[1] = mine /\ <<mine, "op1">>[2] = "op1"
    OBVIOUS
  <2> QED
    BY <1>1, <2>1 DEF Operations!ParseOperationPage
<1>5. other # Operations!NoOp => Operations!ParsedOperation(other, "op2") \in Operations!ParseOperationPage
  <2>1. <<other, "op2">>[1] = other /\ <<other, "op2">>[2] = "op2"
    OBVIOUS
  <2> QED
    BY <1>1, <2>1 DEF Operations!ParseOperationPage
<1>6. /\ ~Operations!ParseFails => mine.form # "malformed"
      /\ ~Operations!ParseFails /\ other # Operations!NoOp => other.form # "malformed"
  <2>1. ASSUME mine.form = "malformed" PROVE Operations!ParseFails
    BY <1>1, <2>1 DEF Operations!ParseFails
  <2>2. ASSUME other # Operations!NoOp, other.form = "malformed" PROVE Operations!ParseFails
    BY <1>1, <2>2 DEF Operations!ParseFails
  <2> QED
    BY <2>1, <2>2
<1> QED
  BY <1>3, <1>4, <1>5, <1>6

(* A reply that was not read has led to no verdict.                       *)
LEMMA OperationsInitially == Operations!Init => OperationsInv
BY DEF Operations!Init, OperationsInv, Replied, Operations!RetiresOnlyOver,
       Operations!RefusalOnlyForQuota, Operations!RefusalNoticed, Operations!Keep

(* The verdict of a reconciliation is right about the operations listed.  *)
LEMMA VerdictIsTrue ==
  ASSUME Replied, Operations!RetiresOnlyOver, Operations!RefusalOnlyForQuota, Operations!ReconcileStart \/ Operations!ReconcileCreate
  PROVE  OperationsInv'
<1>1. /\ operationsPhase = "listing" /\ operationsPhase' = "done" /\ opId = "op1" /\ ~Operations!ParseFails
      /\ UNCHANGED <<pending, reply, opId, mine, other>>
  BY DEF Operations!ReconcileStart, Operations!ReconcileCreate, Replied
<1>2. PICK p : p = Operations!ParsedOperation(mine, "op1")
  OBVIOUS
<1>3. /\ p.id = "op1" /\ p.resource = mine.truth.target
      /\ p.state = Operations!OperationState(mine) /\ p.refusal = Operations!OperationCapacityRefusal(mine)
  BY <1>2 DEF Operations!ParsedOperation
<1>4. /\ p \in Operations!ParseOperationPage
      /\ \A q \in Operations!ParseOperationPage : q.id = opId => q = p
  BY <1>1, <1>2, PageHolds
<1>5. mine \in Operations!Operations /\ mine.form # "malformed" /\ mine.truth.target \in {"vm", "unset"}
  BY <1>1, PageHolds DEF Replied, Operations!Operations, Operations!Truths
<1>6. /\ p.state \notin {"PENDING", "RUNNING"} => mine.truth.phase \in Operations!Over
      /\ p.refusal => mine.truth.phase = "FAILED" /\ mine.truth.code = 8
      /\ /\ mine.truth.phase = "FAILED" /\ mine.truth.code = 8
         /\ mine.form # "state" \/ mine.truth.quota
         => p.state = "FAILED" /\ p.refusal
  BY <1>3, <1>5, ParsedIsTrue
<1>7. CASE Operations!ReconcileStart
  <2>1. verdict' = [retire |-> Operations!StartOperation(Operations!ParseOperationPage) # {}
                                 /\ Operations!InFlight(Operations!ParseOperationPage) = {}
                                 /\ \A o \in Operations!StartOperation(Operations!ParseOperationPage) : o.state \in Operations!Over,
                    refusal |-> \E o \in Operations!StartOperation(Operations!ParseOperationPage) : o.refusal]
    BY <1>7 DEF Operations!ReconcileStart
  <2>2. p \in Operations!StartOperation(Operations!ParseOperationPage)
    BY <1>1, <1>3, <1>4, <1>5 DEF Operations!StartOperation
  <2>3. \A o \in Operations!StartOperation(Operations!ParseOperationPage) : o = p
    BY <1>4 DEF Operations!StartOperation
  <2>4. verdict'.refusal = (\E o \in Operations!StartOperation(Operations!ParseOperationPage) : o.refusal)
    BY <2>1
  <2>5. verdict'.refusal <=> p.refusal
    BY <2>2, <2>3, <2>4
  <2>6. verdict'.retire => Operations!InFlight(Operations!ParseOperationPage) = {}
    BY <2>1
  <2>7. ASSUME verdict'.retire PROVE mine.truth.phase \in Operations!Over
    <3>1. p.state \notin {"PENDING", "RUNNING"}
      BY <1>3, <1>4, <1>5, <2>6, <2>7 DEF Operations!InFlight
    <3> QED
      BY <1>6, <3>1
  <2>8. ASSUME verdict'.retire, other # Operations!NoOp, other.truth.target # "other"
        PROVE  other.truth.phase \in Operations!Over
    <3>1. PICK q : q = Operations!ParsedOperation(other, "op2")
      OBVIOUS
    <3>2. other \in Operations!Operations /\ other.form # "malformed" /\ other.truth.target \in {"vm", "unset"}
      BY <1>1, <2>8, PageHolds DEF Replied, Operations!Operations, Operations!Truths
    <3>3. q \in Operations!ParseOperationPage /\ q.resource = other.truth.target /\ q.state = Operations!OperationState(other)
      BY <2>8, <3>1, PageHolds DEF Operations!ParsedOperation
    <3>4. q.state \notin {"PENDING", "RUNNING"}
      BY <2>6, <2>8, <3>2, <3>3 DEF Operations!InFlight
    <3> QED
      BY <3>2, <3>3, <3>4, ParsedIsTrue
  <2>9. verdict' \in [retire : BOOLEAN, refusal : BOOLEAN]
    BY <2>1
  <2> QED
    BY <1>1, <1>6, <2>5, <2>7, <2>8, <2>9
       DEF OperationsInv, Replied, Operations!RetiresOnlyOver, Operations!RefusalOnlyForQuota, Operations!RefusalNoticed
<1>8. CASE Operations!ReconcileCreate
  <2>1. verdict' = [retire |-> FALSE,
                    refusal |-> \E o \in Operations!ParseOperationPage :
                               o.id = opId /\ o.state = "FAILED" /\ o.refusal]
    BY <1>8 DEF Operations!ReconcileCreate
  <2>2. verdict'.refusal = (\E o \in Operations!ParseOperationPage : o.id = opId /\ o.state = "FAILED" /\ o.refusal)
    BY <2>1
  <2>3. verdict'.refusal <=> p.state = "FAILED" /\ p.refusal
    BY <1>1, <1>3, <1>4, <2>2
  <2>4. verdict' \in [retire : BOOLEAN, refusal : BOOLEAN] /\ ~verdict'.retire
    BY <2>1
  <2> QED
    BY <1>1, <1>6, <2>3, <2>4
       DEF OperationsInv, Replied, Operations!RetiresOnlyOver, Operations!RefusalOnlyForQuota, Operations!RefusalNoticed
<1> QED
  BY <1>7, <1>8

(* Reading the reply, reconciling, waiting and reading again keep the     *)
(* invariant.                                                             *)
LEMMA OperationsStep ==
  ASSUME OperationsInv, [Operations!Next]_(Operations!vars)
  PROVE  OperationsInv'
<1> USE DEF OperationsInv
<1>1. CASE Operations!ParseMutationOperationId
  <2>1. /\ operationsPhase' = "listing" /\ verdict' = Operations!Keep /\ opId' \in {"op1", "none"}
        /\ UNCHANGED <<pending, mine, other>>
    BY <1>1 DEF Operations!ParseMutationOperationId, Replied
  <2> QED
    BY <2>1 DEF Replied, Operations!RetiresOnlyOver, Operations!RefusalOnlyForQuota,
                Operations!RefusalNoticed, Operations!Keep
<1>2. CASE Operations!ReconcileStart \/ Operations!ReconcileCreate
  BY <1>2, VerdictIsTrue
<1>3. CASE Operations!StayPending
  <2>1. /\ operationsPhase' = "done" /\ verdict' = Operations!Keep /\ (opId = "none" \/ Operations!ParseFails)
        /\ UNCHANGED <<pending, reply, opId, mine, other>>
    BY <1>3 DEF Operations!StayPending, Replied
  <2> QED
    BY <2>1 DEF Replied, Operations!RetiresOnlyOver, Operations!RefusalOnlyForQuota,
                Operations!RefusalNoticed, Operations!Keep, Operations!ParseFails,
                Operations!Listed
<1>4. CASE Operations!Again
  <2>1. operationsPhase' = "listing" /\ verdict' = Operations!Keep /\ UNCHANGED <<pending, opId>>
    BY <1>4 DEF Operations!Again
  <2>2. mine' \in Operations!Operations /\ mine'.truth = mine.truth /\ other' = other
    BY <1>4 DEF Operations!Again, Replied, Operations!Operations
  <2> QED
    BY <2>1, <2>2 DEF Replied, Operations!RetiresOnlyOver, Operations!RefusalOnlyForQuota,
                      Operations!RefusalNoticed, Operations!Keep
<1>5. CASE UNCHANGED Operations!vars
  BY <1>5 DEF Operations!vars, Replied, Operations!RetiresOnlyOver,
              Operations!RefusalOnlyForQuota, Operations!RefusalNoticed,
              Operations!ParseFails, Operations!Listed
<1> QED
  BY <1>1, <1>2, <1>3, <1>4, <1>5 DEF Operations!Next

(* The controller touches no instance but its own, recognises it, sends no  *)
(* create beside it, and neither retires a start nor waits for capacity on  *)
(* a misread operation: observeProvider, executeEffect, reconcileEffect.    *)
THEOREM NebiusAlwaysActedOn == MCSpec => []NebiusActedOn
<1> DEFINE Inv == InventoryInv /\ OperationsInv
<1>1. MCInit => Inv
  BY InventoryInitially, OperationsInitially DEF MCInit
<1>2. ASSUME Inv, [MCNext]_allVars
      PROVE  Inv'
  <2>1. [Inventory!Next]_(Inventory!vars)
    BY <1>2 DEF MCNext, allVars, inventoryVars, Inventory!vars, JournalAlone, ReadsAlone,
                PagesAlone, InventoryAlone, OperationsAlone
  <2>2. [Operations!Next]_(Operations!vars)
    BY <1>2 DEF MCNext, allVars, operationsVars, Operations!vars, JournalAlone, ReadsAlone,
                PagesAlone, InventoryAlone, OperationsAlone
  <2> QED
    BY <1>2, <2>1, <2>2, InventoryStep, OperationsStep
<1>3. Inv => NebiusActedOn
  BY InventoryGoals DEF NebiusActedOn, OperationsInv
<1> QED
  BY <1>1, <1>2, <1>3, PTL DEF MCSpec
=============================================================================
