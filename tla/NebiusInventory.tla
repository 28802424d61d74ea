--------------------------- MODULE NebiusInventory ---------------------------
(***************************************************************************)
(* The controller and the instances of its Nebius project: reading the      *)
(* inventory page by page, telling its own VM from every other one, and     *)
(* sending a mutation to it.                                                *)
(*                                                                          *)
(* packages/runner/src/adapters/nebius.ts renders the create request and    *)
(* parses instances; packages/cli/src/runner-service.ts lists them          *)
(* (listInstances), classifies them (observeProvider), and lists them again *)
(* before the effect the lifecycle decided on (executeEffect) or before a   *)
(* direct stop or cleanup (decideStop, decideDelete).  Other users of the   *)
(* project create, edit and remove instances at any moment, between two     *)
(* pages too, and the operator may restart with another configuration.      *)
(***************************************************************************)
EXTENDS Naturals

CONSTANTS MaxId,      \* instances ever created in the project
          MaxListings \* listings the controller makes

InventoryAssumption == MaxId \in Nat \ {0} /\ MaxListings \in Nat

VARIABLES cloud,    \* the instances of the project
          config,   \* the configuration the controller runs with
          phase,    \* idle | observe | decided | execute
          token,    \* the page token: the last instance id read
          listed,   \* the instances of the pages read so far
          view,     \* the provider snapshot of this tick
          witnessed,\* history: the related instances there since the observation began
          ours,     \* history: the instances the controller's creates made
          touched,  \* history: the instances the controller stopped, started or deleted
          doubled,  \* history: a create went out although a related VM was there all along
          listings

vars == <<cloud, config, phase, token, listed, view, witnessed, ours, touched,
          doubled, listings>>

\* A configuration: its hash is its identity; the machine it asks for is one
\* platform and preset, disk type and size.
Configs == [hash : {"h1", "h2"}, compute : {"cpu-d3/4vcpu-16gb", "cpu-e2/8vcpu"},
            disk : {"network-ssd/80", "network-ssd/160"}, subnet : {"s"}]

\* parseRunnerConfig refuses every machine but the pilot's.
AcceptedConfig(c) == /\ c.compute = "cpu-d3/4vcpu-16gb"
                     /\ c.disk = "network-ssd/80"

\* What the request asks for; the request names the machine itself, only the
\* subnet, the image and the labels come from the configuration.
RenderCreateRequest(c) ==
  [name |-> "vm", labels |-> [controller |-> "me", config |-> c.hash],
   policy |-> "FAIL", compute |-> "cpu-d3/4vcpu-16gb", subnet |-> c.subnet,
   diskName |-> "boot", disk |-> "NETWORK_SSD/80"]

\* diskType.replaceAll('-', '_').toUpperCase(), with the size
DiskOf(c) == IF c.disk = "network-ssd/80" THEN "NETWORK_SSD/80" ELSE "NETWORK_SSD/160"

ExpectedLabels(c) == [controller |-> "me", config |-> c.hash]

RelatedToExpected(i, c) ==
  \/ i.spec.name = "vm"
  \/ "controller" \in DOMAIN i.spec.labels /\ i.spec.labels.controller = "me"
  \/ "config" \in DOMAIN i.spec.labels /\ i.spec.labels.config = c.hash

\* instanceMatches; MismatchReason also looks at the name of the boot disk.
InstanceMatches(i, c) ==
  /\ i.spec.name = "vm"
  /\ i.spec.labels = ExpectedLabels(c)
  /\ i.spec.policy = "FAIL" /\ i.spec.compute = c.compute
  /\ i.spec.subnet = c.subnet /\ i.spec.disk = DiskOf(c)
NoMismatch(i, c) == InstanceMatches(i, c) /\ i.spec.diskName = "boot"

\* Instances of other users: unrelated ones, a machine of the same name, and
\* copies of the controller's VM with one field changed.
Base == RenderCreateRequest([hash |-> "h1", compute |-> "", disk |-> "", subnet |-> "s"])
ForeignSpecs == { [Base EXCEPT !.name = "web", !.labels = [config |-> "other"]],
                  [Base EXCEPT !.labels = <<>>],
                  [Base EXCEPT !.name = "copy", !.labels = [config |-> "h1"]],
                  [Base EXCEPT !.labels = [controller |-> "me", config |-> "h1", team |-> "x"]],
                  [Base EXCEPT !.disk = "NETWORK_SSD/160"],
                  [Base EXCEPT !.diskName = "other-boot", !.policy = "RECOVER"] }

Absent == [complete |-> TRUE, vm |-> "absent", ownership |-> "absent"]
UnknownView == [complete |-> FALSE, vm |-> "unknown", ownership |-> "unknown"]

Init == /\ cloud = {} /\ phase = "idle" /\ token = 0 /\ listed = {}
        /\ view = UnknownView /\ witnessed = {} /\ ours = {} /\ touched = {}
        /\ doubled = FALSE /\ listings = 0
        /\ config \in Configs /\ AcceptedConfig(config)

\* The operator restarts the controller with another configuration.
Configure == /\ phase = "idle"
             /\ \E c \in Configs : AcceptedConfig(c) /\ config' = c
             /\ UNCHANGED <<cloud, phase, token, listed, view, witnessed, ours,
                            touched, doubled, listings>>

BeginListing(p) == /\ listings < MaxListings
                   /\ phase' = p /\ token' = 0 /\ listed' = {}
                   /\ listings' = listings + 1

Observe == /\ phase = "idle" /\ BeginListing("observe")
           /\ witnessed' = {i.id : i \in {j \in cloud : RelatedToExpected(j, config)}}
           /\ UNCHANGED <<cloud, config, view, ours, touched, doubled>>

\* One page: the next instance in the order of the listing.
NextOnPage == {i \in cloud : i.id > token /\ \A j \in cloud : j.id > token => i.id <= j.id}
ReadPage == /\ phase \in {"observe", "execute"} /\ NextOnPage # {}
            /\ listed' = listed \cup NextOnPage
            /\ token' = (CHOOSE i \in NextOnPage : TRUE).id
            /\ UNCHANGED <<cloud, config, phase, view, witnessed, ours, touched,
                           doubled, listings>>

\* No further page token: the pages together are the listing.
LastPage == NextOnPage = {}
Exact == {i \in listed : InstanceMatches(i, config)}
Related == {i \in listed : RelatedToExpected(i, config)}

ObservedView ==
  CASE (\E i, j \in Exact : i # j) -> [complete |-> TRUE, vm |-> "unknown", ownership |-> "ambiguous"]
    [] Exact = {} /\ Related # {} -> [complete |-> TRUE, vm |-> "unknown", ownership |-> "foreign"]
    [] Exact = {} /\ Related = {} -> Absent
    [] OTHER -> [complete |-> TRUE, vm |-> (CHOOSE i \in Exact : TRUE).power,
                 ownership |-> "owned"]

ObserveProvider == /\ phase = "observe" /\ LastPage
                   /\ view' = ObservedView /\ phase' = "decided"
                   /\ UNCHANGED <<cloud, config, token, listed, witnessed, ours,
                                  touched, doubled, listings>>

\* A page that fails or cannot be parsed: the observation is incomplete, an
\* effect is abandoned.
ListingFails == /\ phase \in {"observe", "execute"} /\ view' = UnknownView
                /\ phase' = "idle"
                /\ UNCHANGED <<cloud, config, token, listed, witnessed, ours,
                               touched, doubled, listings>>

\* The lifecycle acts on a complete view: nothing there, or one VM of its own.
Decided == view.complete /\ view.ownership \in {"absent", "owned"}
BeginEffect == /\ phase = "decided" /\ Decided /\ BeginListing("execute")
               /\ UNCHANGED <<cloud, config, view, witnessed, ours, touched, doubled>>
NoEffect == /\ phase = "decided" /\ phase' = "idle"
            /\ UNCHANGED <<cloud, config, token, listed, view, witnessed, ours,
                           touched, doubled, listings>>

FreshId(n) == n \in 1..MaxId /\ \A i \in cloud : i.id # n

\* exactOwnedInstance returns, rather than throws.
Clear == (\A i, j \in Exact : i = j) /\ (Exact = {} => Related = {})

Create == /\ phase = "execute" /\ LastPage /\ Clear
          /\ view = Absent
          /\ \E n \in 1..MaxId :
               /\ FreshId(n)
               /\ cloud' = cloud \cup {[id |-> n, spec |-> RenderCreateRequest(config),
                                        power |-> "stopped"]}
               /\ ours' = ours \cup {n}
          /\ doubled' = (doubled \/ \E i \in cloud : i.id \in witnessed)
          /\ phase' = "idle"
          /\ UNCHANGED <<config, token, listed, view, witnessed, touched, listings>>

\* start, stop or delete of the one exact match; a delete needs it stopped.
MutateOwned ==
  /\ phase = "execute" /\ LastPage /\ Clear /\ view.ownership = "owned"
  /\ \E i \in Exact :
       /\ touched' = touched \cup {i.id}
       /\ \/ cloud' = {j \in cloud : j.id # i.id} /\ i.power = "stopped"
          \/ \E w \in {"running", "stopped"} :
               cloud' = {IF j.id = i.id THEN [j EXCEPT !.power = w] ELSE j : j \in cloud}
  /\ phase' = "idle"
  /\ UNCHANGED <<config, token, listed, view, witnessed, ours, doubled, listings>>

\* Nothing owned is left, or several match: executeEffect throws.
EffectThrows == /\ phase = "execute" /\ LastPage /\ (~Clear \/ (Exact = {} /\ view # Absent))
                /\ phase' = "idle"
                /\ UNCHANGED <<cloud, config, token, listed, view, witnessed, ours,
                               touched, doubled, listings>>

\* Direct stop or cleanup on a listing of its own: decideStop, decideDelete.
DirectAction ==
  /\ phase = "execute" /\ LastPage /\ Clear
  /\ \E i \in Exact :
       /\ NoMismatch(i, config) /\ i.power \in {"running", "stopped"}
       /\ touched' = touched \cup {i.id}
       /\ cloud' = IF i.power = "running"
                     THEN {IF j.id = i.id THEN [j EXCEPT !.power = "stopped"] ELSE j : j \in cloud}
                     ELSE {j \in cloud : j.id # i.id}
  /\ phase' = "idle"
  /\ UNCHANGED <<config, token, listed, view, witnessed, ours, doubled, listings>>

\* Another user of the project creates an instance.
ForeignCreate == /\ \E n \in 1..MaxId, s \in ForeignSpecs :
                      /\ FreshId(n) /\ n \notin ours \cup witnessed
                      /\ cloud' = cloud \cup {[id |-> n, spec |-> s, power |-> "running"]}
                 /\ UNCHANGED <<config, phase, token, listed, view, witnessed, ours,
                                touched, doubled, listings>>
\* Someone removes an instance behind the controller's back.
Removed == /\ \E i \in cloud : /\ cloud' = cloud \ {i}
                               /\ witnessed' = witnessed \ {i.id}
           /\ UNCHANGED <<config, phase, token, listed, view, ours, touched,
                          doubled, listings>>

Next == Configure \/ Observe \/ ReadPage \/ ObserveProvider \/ ListingFails
        \/ BeginEffect \/ NoEffect \/ Create \/ MutateOwned \/ EffectThrows
        \/ DirectAction \/ ForeignCreate \/ Removed

Spec == Init /\ [][Next]_vars

-----------------------------------------------------------------------------
(* No start, stop or delete ever reaches an instance that no create of the
   controller made: the labels, the name, the machine and the recovery policy
   of another user's VM differ from the expected resource (instanceMatches,
   exactOwnedInstance). *)
NeverTouchesForeign == touched \subseteq ours

(* A VM made by the create request under the present configuration is
   recognised as owned, by the watch loop and by the direct actions: the
   request states the machine in constants, the matching reads it from the
   configuration, and parseRunnerConfig admits only the one machine that
   agrees.  Otherwise the controller would wait for ever on its own VM. *)
CreatedIsRecognised ==
  \A i \in cloud : i.id \in ours /\ i.spec.labels["config"] = config.hash
                     => InstanceMatches(i, config) /\ NoMismatch(i, config)

(* A create is never sent while an instance related to the controller has been
   there since the observation of the tick began, whatever the pages it was
   listed on and whatever came or went in between (observeProvider returns
   absent only when no page held a related instance). *)
CreatesOnlyWhenAlone == ~doubled
=============================================================================
