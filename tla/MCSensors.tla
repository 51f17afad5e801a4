------------------------------ MODULE MCSensors ------------------------------
(* The components around the sensors, each on a small instance. They share  *)
(* no state, so one is chosen at the start and runs on its own; the others  *)
(* stay as they begin.                                                      *)
EXTENDS SelfRestart, LhmHelper, LhmSupervisor, SensorDiscovery, InputIdle,
        StateMirror, Functions

CONSTANTS v1, v2, aj, ah, bj, aj2

VARIABLE subject

TwoDrivers == {v1, v2}

\* Two cards; the first has two memory sensors and a hot spot.
GpuSensors == [s \in {aj, ah, bj, aj2} |->
    CASE s \in {aj, aj2} -> [hw |-> "a", kind |-> "mem_junction"]
      [] s = ah -> [hw |-> "a", kind |-> "hotspot"]
      [] s = bj -> [hw |-> "b", kind |-> "mem_junction"]]

AllOrders == UNION {SetToSeqs(S) : S \in SUBSET DOMAIN GpuSensors}

Samples == [1..2 -> Missing..2]

TwoSamples ==
    {[s \in DOMAIN GpuSensors |-> CASE s = aj -> j [] s = ah -> h [] OTHER -> <<1, 2>>] :
        j \in Samples, h \in Samples}

\* A hypothesis of the theorem NoDieReadingIsVram holds here.
ASSUME HotspotAssumption == OneHotspotPerDevice

inputVars == <<presenceVars, idleVars>>
everything == <<subject, vars, helperVars, supervisorVars, discoveryVars,
                inputVars, mirrorVars>>

GpuAlone ==
    /\ subject = "gpu"
    /\ UNCHANGED <<subject, helperVars, supervisorVars, discoveryVars, inputVars,
                   mirrorVars>>
HelperAlone ==
    /\ subject = "helper"
    /\ UNCHANGED <<subject, vars, supervisorVars, discoveryVars, inputVars, mirrorVars>>
SupervisorAlone ==
    /\ subject = "supervisor"
    /\ UNCHANGED <<subject, vars, helperVars, discoveryVars, inputVars, mirrorVars>>
DiscoveryAlone ==
    /\ subject = "discovery"
    /\ UNCHANGED <<subject, vars, helperVars, supervisorVars, inputVars, mirrorVars>>
PresenceAlone ==
    /\ subject = "presence"
    /\ UNCHANGED <<subject, vars, helperVars, supervisorVars, discoveryVars, mirrorVars>>
MirrorAlone ==
    /\ subject = "mirror"
    /\ UNCHANGED <<subject, vars, helperVars, supervisorVars, discoveryVars, inputVars>>

SensorsInit ==
    /\ subject \in {"gpu", "helper", "supervisor", "discovery", "presence", "mirror"}
    /\ Init /\ HelperInit /\ SupervisorInit /\ MirrorInit
    /\ IdleInit
    /\ subject # "supervisor" => ~foreign
    /\ subject # "presence" => /\ ~sentinel /\ own = 0 /\ console = NoSession
                               /\ registered = {} /\ clock = 0
    /\ IF subject = "discovery" THEN DiscoveryInit
       ELSE listing = <<>> /\ readings = <<>> /\ signals = <<>>

SensorsNext ==
    \/ GpuAlone /\ Next
    \/ HelperAlone /\ HelperNext
    \/ SupervisorAlone /\ SupervisorNext
    \/ DiscoveryAlone /\ DiscoveryNext
    \/ PresenceAlone /\ IdleNext
    \/ MirrorAlone /\ MirrorNext

\* The fairness of the components.
SensorsSpec ==
    /\ SensorsInit /\ [][SensorsNext]_everything
    /\ WF_everything(GpuAlone /\ (Poll \/ GoOn \/ Answer))
    /\ WF_everything(HelperAlone /\ Serve)
    /\ WF_everything(HelperAlone /\ Read)
    /\ WF_everything(HelperAlone /\ Second)
    /\ WF_everything(SupervisorAlone /\ SupervisorLoop)
    /\ WF_everything(SupervisorAlone /\ StopTerminates)
    /\ WF_everything(SupervisorAlone /\ StopReturns)
    /\ WF_everything(SupervisorAlone /\ KilledDies)
=============================================================================
