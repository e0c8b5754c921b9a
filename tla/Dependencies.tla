------------------------------ MODULE Dependencies ------------------------------
(* packages/core/src/dependencies/dependencies.ts: the readiness checks that a  *)
(* confirmed seasonal project needs, one per relevant asset and one per growing *)
(* child.  An asset carries the set of words its name and attributes contain;   *)
(* titles are reduced to what they ask for.                                     *)
EXTENDS CoreTime, SequencesExt

VehicleHints ==
    [SKI_TRIP |-> <<"tire chains", "snow tires", "roof rack", "antifreeze">>,
     CAMPSITE |-> <<"roof rack", "hitch", "spare tire">>,
     TRIP     |-> <<"spare tire", "roof rack">>,
     CAMP     |-> <<>>,
     SPORTS   |-> <<>>]

GearHints ==
    [SKI_TRIP |-> <<"skis", "snowboard", "boots", "helmet", "goggles", "snow jacket">>,
     CAMPSITE |-> <<"tent", "sleeping bag", "stove", "cooler", "headlamp">>,
     TRIP     |-> <<"luggage", "car seat">>,
     CAMP     |-> <<"backpack", "water bottle", "sleeping bag">>,
     SPORTS   |-> <<"cleats", "shin guards", "jersey", "mouthguard">>]

\* Words that need a vehicle to fit (matched as parts of the hint in the code).
FitsVehicle == {"tire chains", "roof rack", "hitch"}

Pool(asset, kind) == IF asset.kind = "VEHICLE" THEN VehicleHints[kind] ELSE GearHints[kind]

\* The first hint an asset's words contain, Null if none does.
HintOf(asset, kind) ==
    LET hits == {i \in DOMAIN Pool(asset, kind) : Pool(asset, kind)[i] \in asset.words}
    IN  IF hits = {} THEN Null ELSE Pool(asset, kind)[Min(hits)]

\* A vehicle is always checked for a project that drives.
AssetMatchesKind(asset, kind) ==
    \/ HintOf(asset, kind) # Null
    \/ asset.kind = "VEHICLE" /\ VehicleHints[kind] # <<>>

\* What the check of an asset asks: that something fits a vehicle, or that the
\* asset itself is ready.
AssetTask(asset, kind, assets) ==
    LET vehicles == {i \in DOMAIN assets : assets[i].kind = "VEHICLE"}
    IN  CASE asset.kind = "GEAR" /\ vehicles # {} /\ HintOf(asset, kind) \in FitsVehicle ->
                [asks |-> "fit", what |-> asset.id, vehicle |-> assets[Min(vehicles)].id, edge |-> asset.id]
          [] asset.kind = "VEHICLE" ->
                [asks |-> "fit", vehicle |-> asset.id, edge |-> asset.id,
                 what |-> IF VehicleHints[kind] = <<>> THEN "winter readiness" ELSE VehicleHints[kind][1]]
          [] OTHER -> [asks |-> "ready", what |-> asset.id, vehicle |-> Null, edge |-> asset.id]

AssetDependencyTasks(kind, assets) ==
    {AssetTask(a, kind, assets) : a \in {b \in ToSet(assets) : AssetMatchesKind(b, kind)}}

\* A broken form of the next definition: an unknown age is skipped.
GrowingKnown(member, today, ceiling) ==
    ComputeAge(member.birth, today) # Null /\ ComputeAge(member.birth, today) <= ceiling

\* A child whose age is unknown is checked too.
Growing(member, today, ceiling) ==
    ComputeAge(member.birth, today) # Null => ComputeAge(member.birth, today) <= ceiling

\* The gear asked about is at most the first three items of the kind.
ChildGearAuditTasks(kind, members, today, ceiling) ==
    {[asks |-> "size", what |-> SubSeq(GearHints[kind], 1, Min({3, Len(GearHints[kind])})),
      vehicle |-> Null, edge |-> m.id] :
        m \in {n \in ToSet(members) : n.role = "DEPENDENT" /\ Growing(n, today, ceiling)}}

\* Assets first, then children, each list by title.
DependencyChain(kind, assets, members, today, ceiling) ==
    SetToSeq(AssetDependencyTasks(kind, assets))
        \o SetToSeq(ChildGearAuditTasks(kind, members, today, ceiling))

-----------------------------------------------------------------------------
\* Every child under the growth ceiling or of unknown age and every vehicle of a
\* driving project has a check of its own, a child above the ceiling has none, nothing
\* is checked twice, and what must fit a vehicle names one the household has.
ChecksEverything(kind, assets, members, today, ceiling, chain) ==
    LET edges == {c.edge : c \in ToSet(chain)}
        bornAfter(m, age) == m.birth = Null
            \/ Before([y |-> today.y - age, m |-> today.m, d |-> today.d], m.birth)
    IN  /\ Cardinality(edges) = Len(chain)
        /\ \A m \in ToSet(members) : m.role = "DEPENDENT" =>
              /\ bornAfter(m, ceiling) => m.id \in edges
              /\ m.id \in edges => bornAfter(m, ceiling + 1)
        /\ \A a \in ToSet(assets) : a.kind = "VEHICLE" /\ kind \notin {"CAMP", "SPORTS"} => a.id \in edges
        /\ \A c \in ToSet(chain) : c.asks = "fit" =>
              \E a \in ToSet(assets) : a.kind = "VEHICLE" /\ a.id = c.vehicle
=============================================================================
