--------------------------- MODULE SensorDiscovery ---------------------------
(***************************************************************************)
(* _discover() of src/atfield/collectors/lhmlib.py: which sensor of the     *)
(* helper feeds which signal, decided once, at the probe, from the last few *)
(* samples. A kill rule is bound to what it decides.                        *)
(***************************************************************************)
EXTENDS Integers, Sequences, SequencesExt, FiniteSets

CONSTANTS
    Catalog,           \* sensor -> [hw |-> its device, kind |-> what its name
                       \* and type say it measures]
    Tolerance,         \* _DUPLICATE_TOL_C
    Listings,          \* bound: orders in which a sample may list sensors
    Histories          \* bound: values of the last samples, sensor -> sequence

Missing == -1          \* no number: a null, or a sensor the sample leaves out

\* There is at least one sample, and each has a value, or none, of each sensor.
ASSUME DiscoveryAssumption ==
    /\ Tolerance \in Nat
    /\ Listings \subseteq Seq(DOMAIN Catalog)
    /\ \A values \in Histories : \A s, t \in DOMAIN Catalog :
         /\ values[s] \in Seq(Nat \cup {Missing}) \ {<<>>}
         /\ Len(values[s]) = Len(values[t])

GpuTemperatures == {"mem_junction", "hotspot"}
CpuKinds == {"package_temp", "package_power"}

VARIABLES
    listing,           \* the sensors, in the order of the last sample
    readings,          \* their values in the last samples, the newest last
    signals            \* _sensor_map; empty before the probe

discoveryVars == <<listing, readings, signals>>

DiscoveryInit ==
    /\ listing \in Listings
    /\ readings \in Histories
    /\ signals = <<>>
-----------------------------------------------------------------------------
\* _usable_value(): a temperature of zero is a sensor that is not fed.
Usable(s) == Last(readings[s]) > 0

SameChannel(s, t) ==
    Catalog[s].kind = Catalog[t].kind /\ Catalog[s].hw = Catalog[t].hw

\* The first usable sensor of its kind on its device (for a voltage, of its
\* rail on whichever device): of identical ones, the rest feed nothing.
IsFirst(s) ==
    \E i \in DOMAIN listing :
        /\ listing[i] = s
        /\ Usable(s)
        /\ \A k \in 1..(i - 1) : ~(Usable(listing[k]) /\ SameChannel(listing[k], s))

Listed(kinds) == SelectSeq(listing, LAMBDA s : Catalog[s].kind \in kinds /\ Usable(s))

\* Devices are numbered as they come up in the list.
IndexOf(s, kinds) ==
    LET sensors == Listed(kinds)
        Position(hw) == SelectInSeq(sensors, LAMBDA t : Catalog[t].hw = hw)
        devices == {Catalog[sensors[i]].hw : i \in DOMAIN sensors}
    IN  Cardinality({hw \in devices : Position(hw) < Position(Catalog[s].hw)})

Present(values) == {i \in DOMAIN values : values[i] # Missing}

\* The k-th smallest of the values that are there.
Ranked(values, k) ==
    CHOOSE v \in Range(values) :
        /\ v # Missing
        /\ Cardinality({i \in Present(values) : values[i] < v}) < k
        /\ k <= Cardinality({i \in Present(values) : values[i] <= v})

\* statistics.median(), doubled.
Median2(values) ==
    LET n == Cardinality(Present(values))
    IN  Ranked(values, (n + 1) \div 2) + Ranked(values, (n + 2) \div 2)

FaultySyntheticJunction_Exact(junction, hotspot) ==
    Last(readings[junction]) = Last(readings[hotspot])

\* synthetic_junction(): one physical sensor wearing two names.
SyntheticJunction(junction, hotspot) ==
    LET d == Median2(readings[junction]) - Median2(readings[hotspot])
    IN  -2 * Tolerance <= d /\ d <= 2 * Tolerance

\* _resolve_gpu_temps(): a junction that copies the hot spot is no junction.
GpuTemperature(s) ==
    /\ IsFirst(s)
    /\ Catalog[s].kind = "mem_junction" =>
         \A h \in DOMAIN Catalog :
            (Catalog[h].kind = "hotspot" /\ Catalog[h].hw = Catalog[s].hw
               /\ IsFirst(h)) => ~SyntheticJunction(s, h)

Discovered ==
    {s \in Range(listing) :
        \/ Catalog[s].kind \in GpuTemperatures /\ GpuTemperature(s)
        \/ Catalog[s].kind \in CpuKinds \cup {"rail"} /\ IsFirst(s)}

\* Both temperatures of a card carry one number; so do packages of a CPU, each
\* kind by its own count.
Signal(s) ==
    <<Catalog[s].kind,
      CASE Catalog[s].kind \in GpuTemperatures -> IndexOf(s, GpuTemperatures)
        [] Catalog[s].kind \in CpuKinds -> IndexOf(s, {Catalog[s].kind})
        [] Catalog[s].kind = "rail" -> Catalog[s].hw>>

Discover ==
    /\ signals = <<>>
    /\ signals' = [s \in Discovered |-> Signal(s)]
    /\ UNCHANGED <<listing, readings>>

DiscoveryNext == Discover

DiscoverySpec == DiscoveryInit /\ [][DiscoveryNext]_discoveryVars
-----------------------------------------------------------------------------
\* A copy: in every sample the two readings are within the tolerance, and
\* both are there or both are not.
Copies(j, h) ==
    \A i \in DOMAIN readings[j] :
        LET a == readings[j][i]
            b == readings[h][i]
        IN  /\ (a = Missing) = (b = Missing)
            /\ (a > 0) = (b > 0)
            /\ a - b <= Tolerance /\ b - a <= Tolerance

\* "A rule written for VRAM would bind to a die reading" (63 kills in three
\* hours): a copy of the hot spot is never published as the memory junction,
\* whichever of the two is listed first and however the samples jitter.
NoDieReadingAsVram ==
    \A j \in DOMAIN signals :
        Catalog[j].kind = "mem_junction" =>
          \A h \in Range(listing) :
            (Catalog[h].kind = "hotspot" /\ Catalog[h].hw = Catalog[j].hw) => ~Copies(j, h)

\* A device reports one hot spot: the junction is judged against the first.
OneHotspotPerDevice ==
    \A g, h \in DOMAIN Catalog :
        Catalog[g].kind = "hotspot" /\ SameChannel(g, h) => g = h
=============================================================================
