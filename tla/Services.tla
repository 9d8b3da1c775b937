-------------------------------- MODULE Services --------------------------------
(***************************************************************************)
(* The services around the safety core that share no state with each other:  *)
(* supervision of safety goals, run times, notifications, ISO-TP, the VCU's   *)
(* message path, road reports and the WiFi configuration.  Interleaving them  *)
(* could show nothing that each alone does not: a behaviour is one of one     *)
(* service, picked by the initial state.                                      *)
(***************************************************************************)
EXTENDS SafetyGoals, RuntimeStats, Notifications, IsoTp, Vcu, WifiConfig

VARIABLE service  \* the one whose behaviour this is

vars == <<service, goalVars, statsVars, notificationVars, isotpVars, vcuVars, wifiVars>>

Init ==
    /\ service \in {"goals", "stats", "notifications", "isotp", "vcu", "road", "wifi"}
    /\ GoalsInit /\ StatsInit /\ NotificationsInit /\ IsoTpInit /\ VcuInit /\ WifiInit

GoalStep ==
    /\ service = "goals" /\ GoalsNext
    /\ UNCHANGED <<service, statsVars, notificationVars, isotpVars, vcuVars, wifiVars>>

StatsStep ==
    /\ service = "stats" /\ StatsNext
    /\ UNCHANGED <<service, goalVars, notificationVars, isotpVars, vcuVars, wifiVars>>

NotificationStep ==
    /\ service = "notifications" /\ NotificationsNext
    /\ UNCHANGED <<service, goalVars, statsVars, isotpVars, vcuVars, wifiVars>>

IsoTpStep ==
    /\ service = "isotp" /\ IsoTpNext
    /\ UNCHANGED <<service, goalVars, statsVars, notificationVars, vcuVars, wifiVars>>

VcuStep ==
    /\ service = "vcu" /\ VcuNext
    /\ UNCHANGED <<service, goalVars, statsVars, notificationVars, isotpVars, wifiVars>>

RoadStep ==
    /\ service = "road" /\ RoadReport
    /\ UNCHANGED <<service, goalVars, statsVars, notificationVars, isotpVars, wifiVars,
                   mqttVars, unacked, canVars>>

WifiStep ==
    /\ service = "wifi" /\ WifiNext
    /\ UNCHANGED <<service, goalVars, statsVars, notificationVars, isotpVars, vcuVars>>

Next ==
    \/ GoalStep
    \/ StatsStep
    \/ NotificationStep
    \/ IsoTpStep
    \/ VcuStep
    \/ RoadStep
    \/ WifiStep

Spec == Init /\ [][Next]_vars

\* Every variable of every service holds a value of the type the code gives it.
\* The queues, the ring of events, the windows of run times and what a mutex
\* guards stay within their sizes; the counts of the three tables that are filled
\* under no lock (asil_monitor.c:11, signal_manager.c:60, road_monitor.c:26) need
\* not, and are only as wide as their type.
TypeOK ==
    /\ GoalsTypeOK
    /\ StatsTypeOK
    /\ NotificationsTypeOK
    /\ IsoTpTypeOK
    /\ VcuTypeOK
    /\ WifiTypeOK
=============================================================================
