------------------------------- MODULE Fleet --------------------------------
(* The fleet registry and the owner's commands on it                         *)
(* (packages/cli/src/fleet-service.ts, fleet-registry.ts) with the permit    *)
(* proposals they write (packages/runner/src/operating.ts).                  *)
(*                                                                           *)
(* A command reads the registry file, reads GitHub, and writes the whole     *)
(* registry (or a permit proposal) in one rename; nothing locks the file in  *)
(* between.  controller-config looks for a bound journal, writes config.json *)
(* and then the registry, one await after the other.  The owner edits the    *)
(* workflow, copies a draft to permit.json and starts controllers, one per   *)
(* state directory: each loads config.json once, when it starts, and binds   *)
(* the accounting file and then the journal to what it loaded.               *)
(*                                                                           *)
(* One private repository and one workflow.  Each edit of a job's selection  *)
(* makes a new blob; 0 stands for no blob, time, ceiling or config.          *)
(* A label is 0, the base label, or the id of the enrollment that owns it.   *)
EXTENDS Integers, Sequences, FiniteSets, FiniteSetsExt

CONSTANTS
  JobKeys,          \* jobs of the workflow
  Slots,            \* fleet commands that may run at the same time
  MaxEnrollments,   \* enrollments modelled
  MaxTime,          \* edits and commands modelled
  Ceiling,          \* fleetCeilingUsd
  Bound             \* maxTotalCostUsd of one operating permit

ASSUME FleetAssumption ==
  /\ MaxEnrollments \in Nat \ {0} /\ MaxTime \in Nat
  /\ Ceiling \in Nat /\ Bound \in Nat \ {0}

VARIABLES
  now,        \* the time; it advances with every edit and command
  workflow,   \* per job: the live runner selection and its blob
  registry,   \* the registry file: the sequence of enrollments
  commands,   \* per slot: the command under way, as a sequence of at most one
  files,      \* per enrollment id: config.json, the config the accounting file
              \* and the journal are bound to, permit.json, the proposal
  watching    \* per enrollment id: the config its watch process loaded, and
              \* whether it has observed since its last tick

vars == <<now, workflow, registry, commands, files, watching>>

Ids == 1 .. MaxEnrollments
Hosted == [kind |-> "hosted", label |-> 0, id |-> 0]
NoWatch == [config |-> 0, observed |-> FALSE]

-----------------------------------------------------------------------------
(* What the commands read.                                                   *)

\* extractJobRunsOn for an enrollment: a selection that is an expression is
\* only readable as the gate of that enrollment.
Readable(e) ==
  LET w == workflow[e.job] IN w.sel.kind = "gated" => w.sel.id = e.id
Labelled(e) ==
  LET w == workflow[e.job] IN w.sel.kind # "hosted" /\ w.sel.label = e.label
Gated(e) == workflow[e.job].sel.kind = "gated"
BlobOf(e) == workflow[e.job].blob

ActiveIn(enrollments, job) ==
  {i \in DOMAIN enrollments : enrollments[i].job = job /\ enrollments[i].status # "reverted"}

\* The status agrees with the records, and the label is one of the enrollment's.
parseEnrollment(e) ==
  /\ e.status = "proposed" <=> e.after = 0
  /\ e.switch => e.status # "proposed"
  /\ e.label \in {0, e.id}

\* Ids, live jobs and live labels are unique.
parseFleetRegistry(enrollments) ==
  /\ \A i, j \in DOMAIN enrollments : i # j =>
       /\ enrollments[i].id # enrollments[j].id
       /\ \/ "reverted" \in {enrollments[i].status, enrollments[j].status}
          \/ enrollments[i].job # enrollments[j].job /\ enrollments[i].label # enrollments[j].label
  /\ \A i \in DOMAIN enrollments : parseEnrollment(enrollments[i])

\* The base label, unless a live enrollment of the repository exists.
RunnerLabel(enrollments, id) ==
  IF \E i \in DOMAIN enrollments : enrollments[i].status # "reverted" THEN id ELSE 0

nextEnrollmentId(enrollments) == 1 + Max({0} \cup {enrollments[i].id : i \in DOMAIN enrollments})

\* What each other enrollment has committed: its permit, or its proposal.
readCommittedCeiling(id) ==
  IF files[id].permit # 0 THEN files[id].permit ELSE files[id].proposal

\* Mutant: only issued permits count.
OtherCommittedIssued(enrollments, id) ==
  LET others == {enrollments[i].id : i \in DOMAIN enrollments} \ {id}
  IN  MapThenSumSet(LAMBDA o : files[o].permit, others)

OtherCommitted(enrollments, id) ==
  LET others == {enrollments[i].id : i \in DOMAIN enrollments} \ {id}
  IN  MapThenSumSet(readCommittedCeiling, others)

-----------------------------------------------------------------------------
(* Commands: the first step reads, the later ones write.                     *)

Idle(s) == commands[s] = <<>>
Begin(s, command) ==
  /\ commands' = [commands EXCEPT ![s] = <<command>>]
  /\ now' = now + 1
  /\ UNCHANGED <<workflow, registry, files, watching>>
\* The command goes on as the sequence says; <<>> when it is done.
Proceed(s, next) ==
  /\ commands' = [commands EXCEPT ![s] = next]
  /\ UNCHANGED <<now, workflow, watching>>
Rewrite(enrollments) == [kind |-> "registry", enrollments |-> enrollments]

enroll(s, job) ==
  /\ Idle(s) /\ now < MaxTime
  /\ ActiveIn(registry, job) = {}
  /\ workflow[job].sel = Hosted
  /\ nextEnrollmentId(registry) \in Ids
  /\ LET id == nextEnrollmentId(registry)
         e == [id |-> id, job |-> job, label |-> RunnerLabel(registry, id),
               status |-> "proposed", before |-> workflow[job].blob, beforeAt |-> now,
               after |-> 0, afterAt |-> 0, switch |-> FALSE, controller |-> FALSE]
     IN  Begin(s, Rewrite(Append(registry, e)))

CutOver(e) ==
  [e EXCEPT !.status = "cut-over", !.switch = TRUE, !.after = BlobOf(e),
            !.afterAt = IF e.after = 0 THEN now ELSE e.afterAt]

cutover(s, i) ==
  /\ Idle(s) /\ now < MaxTime
  /\ registry[i].status # "reverted"
  /\ Readable(registry[i]) /\ Labelled(registry[i]) /\ Gated(registry[i])
  /\ registry[i].after # BlobOf(registry[i])
  /\ Begin(s, Rewrite([registry EXCEPT ![i] = CutOver(registry[i])]))

\* What verify makes of one enrollment; what it only reports stays as it is.
Verified(e) ==
  CASE ~Readable(e) -> e
    [] e.status = "proposed" /\ BlobOf(e) # e.before /\ ~Labelled(e)
         -> [e EXCEPT !.before = BlobOf(e), !.beforeAt = now]
    [] e.status = "cut-over" /\ BlobOf(e) # e.after /\ ~Labelled(e)
         -> [e EXCEPT !.status = "reverted"]
    [] OTHER -> e

verify(s) ==
  /\ Idle(s) /\ now < MaxTime
  /\ LET next == [i \in DOMAIN registry |-> Verified(registry[i])]
     IN  next # registry /\ Begin(s, Rewrite(next))

\* The config an enrollment gets; the routing switch of a cutover changes it.
ConfigFor(e) == IF e.switch THEN 2 ELSE 1

controllerConfig(s, i) ==
  /\ Idle(s) /\ now < MaxTime
  /\ registry[i].status # "reverted"
  /\ Begin(s, [kind |-> "config", id |-> registry[i].id, config |-> ConfigFor(registry[i]),
               enrollments |-> [registry EXCEPT ![i].controller = TRUE]])

permitProposal(s, i) ==
  /\ Idle(s) /\ now < MaxTime
  /\ registry[i].controller
  /\ OtherCommitted(registry, registry[i].id) + Bound <= Ceiling
  /\ Begin(s, [kind |-> "proposal", id |-> registry[i].id])

\* The whole registry the command made is renamed over whatever is there,
\* unless it does not parse.
writeRegistry(s) ==
  /\ ~Idle(s) /\ commands[s][1].kind = "registry"
  /\ parseFleetRegistry(commands[s][1].enrollments)
  /\ registry' = commands[s][1].enrollments
  /\ UNCHANGED files
  /\ Proceed(s, <<>>)

\* Mutant: the journal is compared with the old config, the new one is not.
ConfigAllowedUnlessForeign(id, config) ==
  files[id].journal # 0 => files[id].journal = files[id].config

\* With a bound journal only the config it is bound to may be written again.
ConfigAllowed(id, config) ==
  files[id].journal # 0 => files[id].journal = files[id].config /\ files[id].config = config

\* controller-config looks for a bound journal, and keeps what it saw.
readBoundState(s) ==
  /\ ~Idle(s) /\ commands[s][1].kind = "config"
  /\ LET c == commands[s][1] IN
       /\ ConfigAllowed(c.id, c.config)
       /\ Proceed(s, <<[kind |-> "checked", id |-> c.id, config |-> c.config,
                        boundState |-> files[c.id].journal, enrollments |-> c.enrollments]>>)
  /\ UNCHANGED <<registry, files>>

\* Then it writes config.json, whatever has been journaled since, and has the
\* registry left to write.
writeConfig(s) ==
  /\ ~Idle(s) /\ commands[s][1].kind = "checked"
  /\ files' = [files EXCEPT ![commands[s][1].id].config = commands[s][1].config]
  /\ Proceed(s, <<Rewrite(commands[s][1].enrollments)>>)
  /\ UNCHANGED registry

writeProposal(s) ==
  /\ ~Idle(s) /\ commands[s][1].kind = "proposal"
  /\ files' = [files EXCEPT ![commands[s][1].id].proposal = Bound]
  /\ Proceed(s, <<>>)
  /\ UNCHANGED registry

\* A command is refused, fails on a read or a write, or is interrupted; what it
\* has written stays.
Abort(s) ==
  /\ ~Idle(s)
  /\ Proceed(s, <<>>)
  /\ UNCHANGED <<registry, files>>

-----------------------------------------------------------------------------
(* The owner and the controllers.                                            *)

\* The runs-on line printed for an enrollment is merged, or a hosted one, or
\* a literal self-hosted one.
Edit(job, sel) ==
  /\ now < MaxTime
  /\ workflow[job].sel # sel
  /\ workflow' = [workflow EXCEPT ![job] = [sel |-> sel, blob |-> now + 1]]
  /\ now' = now + 1
  /\ UNCHANGED <<registry, commands, files, watching>>

runsOn(i) ==
  /\ registry[i].status # "reverted"
  /\ \E kind \in {"gated", "ungated"} :
       Edit(registry[i].job, [kind |-> kind, label |-> registry[i].label,
                              id |-> IF kind = "gated" THEN registry[i].id ELSE 0])

Unmigrate(job) == Edit(job, Hosted)

\* What the owner and the controllers do leaves the registry alone.
Elsewhere == UNCHANGED <<now, workflow, registry, commands>>

\* The draft is copied to permit.json.
Issue(id) ==
  /\ files[id].proposal # 0 /\ files[id].permit = 0
  /\ files' = [files EXCEPT ![id].permit = files[id].proposal]
  /\ UNCHANGED watching /\ Elsewhere

\* A watch process starts: it loads config.json and permit.json.  (One at a time:
\* the controller lock.  A permit for another config stops its effects, not its
\* journal.)
createContext(id) ==
  /\ watching[id] = NoWatch
  /\ files[id].config # 0 /\ files[id].permit # 0
  /\ watching' = [watching EXCEPT ![id].config = files[id].config]
  /\ UNCHANGED files /\ Elsewhere

\* It observes: the accounting file has to be bound to the config it loaded,
\* and is written.
observe(id) ==
  /\ watching[id].config # 0 /\ ~watching[id].observed
  /\ files[id].accounting \in {0, watching[id].config}
  /\ files' = [files EXCEPT ![id].accounting = watching[id].config]
  /\ watching' = [watching EXCEPT ![id].observed = TRUE]
  /\ Elsewhere

\* And ticks: so has the journal, which every tick writes.
tickController(id) ==
  /\ watching[id].observed
  /\ files[id].journal \in {0, watching[id].config}
  /\ files' = [files EXCEPT ![id].journal = watching[id].config]
  /\ watching' = [watching EXCEPT ![id].observed = FALSE]
  /\ Elsewhere

\* The process ends: stopped, killed, or refused by a file that is bound to
\* another config.
Exit(id) ==
  /\ watching[id] # NoWatch
  /\ watching' = [watching EXCEPT ![id] = NoWatch]
  /\ UNCHANGED files /\ Elsewhere

\* With no controller up, the journal and the accounting file are archived.
Archive(id) ==
  /\ watching[id] = NoWatch
  /\ files[id].accounting # 0
  /\ files' = [files EXCEPT ![id].accounting = 0, ![id].journal = 0]
  /\ UNCHANGED watching /\ Elsewhere

Init ==
  /\ now = 1
  /\ workflow = [job \in JobKeys |-> [sel |-> Hosted, blob |-> 1]]
  /\ registry = <<>>
  /\ commands = [s \in Slots |-> <<>>]
  /\ files = [id \in Ids |-> [config |-> 0, accounting |-> 0, journal |-> 0,
                            permit |-> 0, proposal |-> 0]]
  /\ watching = [id \in Ids |-> NoWatch]

Next ==
  \/ \E s \in Slots :
       \/ verify(s) \/ writeRegistry(s) \/ writeProposal(s) \/ Abort(s)
       \/ readBoundState(s) \/ writeConfig(s)
  \/ \E s \in Slots, job \in JobKeys : enroll(s, job)
  \/ \E s \in Slots, i \in DOMAIN registry :
       cutover(s, i) \/ controllerConfig(s, i) \/ permitProposal(s, i)
  \/ \E i \in DOMAIN registry : runsOn(i)
  \/ \E job \in JobKeys : Unmigrate(job)
  \/ \E id \in Ids : 
       \/ Issue(id) \/ Archive(id)
       \/ createContext(id) \/ observe(id) \/ tickController(id) \/ Exit(id)

Spec == Init /\ [][Next]_vars

-----------------------------------------------------------------------------
(* Properties.                                                               *)

\* A command never builds a registry its own validator refuses: whatever was
\* enrolled and reverted before, the id and the label it chooses are free.
CommandsBuildValidRegistries ==
  \A s \in Slots : ~Idle(s) /\ commands[s][1].kind # "proposal"
                     => parseFleetRegistry(commands[s][1].enrollments)

\* Nothing recorded is forgotten: an enrollment stays in the registry, a
\* reverted one stays reverted, and one that was cut over keeps the time of its
\* cutover, through refreshes and reverts.
NothingForgotten ==
  [][\A i \in DOMAIN registry :
       /\ i \in DOMAIN registry' /\ registry'[i].id = registry[i].id
       /\ registry[i].status = "reverted" => registry'[i].status = "reverted"
       /\ registry[i].after # 0 => registry'[i].afterAt = registry[i].afterAt]_registry

Successors(i) == {k \in DOMAIN registry : k > i /\ registry[k].job = registry[i].job}

\* The time an enrollment's "after" report covers: from its cutover to the
\* baseline of the next enrollment of the job, if it was reverted.
After(i) ==
  LET end == IF registry[i].status = "reverted" /\ Successors(i) # {}
             THEN registry[Min(Successors(i))].beforeAt ELSE MaxTime + 1
  IN  IF registry[i].after = 0 THEN {} ELSE registry[i].afterAt .. end - 1

\* No execution of a job is credited to two enrollments, whatever the history
\* of enrolling, refreshing, cutting over and reverting it.
CreditedOnce ==
  \A i, k \in DOMAIN registry :
     i # k /\ registry[i].job = registry[k].job => After(i) \cap After(k) = {}

\* Permits and proposals of the whole fleet stay within its ceiling, as long as
\* one fleet command runs at a time: two proposals that both read before either
\* writes may pass it (fleet-service.ts:421).
WithinFleetCeiling == MapThenSumSet(readCommittedCeiling, Ids) <= Ceiling

\* The journal of a controller belongs to the config.json beside it.  The code
\* does not have this: see JournalsPartOnlyInRace.  No run checks it.
JournalMatches(id) == files[id].journal \in {0, files[id].config}
JournalsBound == \A id \in Ids : JournalMatches(id)

\* The accounting file and the journal never belong to different configs,
\* although one is written after the other, a process may die in between, and
\* controller-config looks at the journal alone.
FilesAgree ==
  \A id \in Ids : files[id].journal # 0 => files[id].accounting = files[id].journal

\* A journal parts from config.json only in a race: the process that writes it
\* had loaded config.json before it was rewritten, or it was first written
\* after the rewriting command had looked for one.  No abort between config.json
\* and the registry, no death between the accounting file and the journal, no
\* archive and no restart makes them part.
JournalsPartOnlyInRace ==
  [][\A id \in Ids : JournalMatches(id) /\ ~JournalMatches(id)' =>
       \/ watching[id].config \notin {0, files[id].config}
       \/ \E s \in Slots :
            /\ ~Idle(s) /\ commands[s][1].kind = "checked"
            /\ commands[s][1].id = id /\ commands[s][1].boundState = 0]_files

\* Once they have parted and the process that wrote the journal has ended,
\* neither a new controller nor a new controller-config touches any of the
\* files: only the archive ends it.
PartedLeftAlone ==
  [][\A id \in Ids :
       ~JournalMatches(id) /\ watching[id].config # files[id].journal =>
         /\ files'[id].config = files[id].config
         /\ \/ files'[id].journal = files[id].journal
               /\ files'[id].accounting = files[id].accounting
            \/ files'[id].journal = 0 /\ files'[id].accounting = 0]_files
=============================================================================
