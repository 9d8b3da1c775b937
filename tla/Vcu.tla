---------------------------------- MODULE Vcu ----------------------------------
(***************************************************************************)
(* The VCU between the CAN bus and the outside (vcu/src/main.c,              *)
(* mqtt_handler.c), with the collision node at the other end of the bus.     *)
(* CAN frames are handled in the driver's callback, MQTT events by the       *)
(* thread that runs the client, connecting by the system work queue.          *)
(* handle_error has no case for an MQTT or BLE error: it enters the safe      *)
(* state and the thread that called it is stopped (see ErrorHandler).         *)
(***************************************************************************)
EXTENDS V2x, Sequences

CONSTANTS
    Distances,        \* distances of obstacles in cm
    NoObstacle,
    MaxOnBus, MaxUnacked  \* bounds: frames under way, publications unacknowledged

VARIABLES
    vcu_pc,           \* where main, the MQTT thread and the work queue are
    mqtt_link,        \* "down", "connecting" or "up"
    mqtt_work,        \* whether mqtt_connect_work_handler is scheduled
    subscribed,
    unacked,          \* publications with qos 1 the broker has not acknowledged
    link_lost,        \* history: the link went down or connecting failed
    on_bus,           \* frames under way: id, value, and of which obstacle
    obstacle,         \* what is in front of the collision node
    warned,           \* history: obstacles V2V hazard messages were sent for
    measured          \* history: obstacles whose frames were handled

mqttVars == <<vcu_pc, mqtt_link, mqtt_work, subscribed, link_lost>>
canVars == <<on_bus, obstacle, warned, measured>>
vcuVars == <<mqttVars, unacked, canVars, v2xVars>>

\* An echo of an obstacle farther than 514 cm comes after the 30 ms of line 24.
ASSUME VcuAssumption ==
    /\ Distances \subseteq 0 .. 514 /\ NoObstacle \notin Distances
    /\ MaxOnBus \in Nat /\ MaxUnacked \in Nat

VcuInit ==
    /\ V2xInit
    /\ vcu_pc = [main |-> "boot", mqtt |-> "run", workq |-> "run"]
    /\ mqtt_link = "down"
    /\ mqtt_work = FALSE
    /\ subscribed = FALSE
    /\ unacked = 0
    /\ link_lost = FALSE
    /\ on_bus = <<>>
    /\ obstacle = NoObstacle
    /\ warned = {}
    /\ measured = {}

-----------------------------------------------------------------------------
(* main.c:149-194.                                                          *)

\* Secure boot or BLE fails, and handle_error does not return; or there is no
\* CAN controller, and main does.
BootFails ==
    /\ vcu_pc.main = "boot"
    /\ \E end \in {"stopped", "returned"} : vcu_pc' = [vcu_pc EXCEPT !.main = end]
    /\ UNCHANGED <<mqtt_link, mqtt_work, subscribed, link_lost, unacked, canVars, v2xVars>>

\* From line 183 on frames are handled; the client is there after line 187.
AddFilter ==
    /\ vcu_pc.main = "boot"
    /\ vcu_pc' = [vcu_pc EXCEPT !.main = "filter"]
    /\ UNCHANGED <<mqtt_link, mqtt_work, subscribed, link_lost, unacked, canVars, v2xVars>>

InitMqtt ==
    /\ vcu_pc.main = "filter"
    /\ vcu_pc' = [vcu_pc EXCEPT !.main = "loop"]
    /\ UNCHANGED <<mqtt_link, mqtt_work, subscribed, link_lost, unacked, canVars, v2xVars>>

main == BootFails \/ AddFilter \/ InitMqtt

-----------------------------------------------------------------------------
(* mqtt_handler.c.                                                          *)

\* Publishing without a link fails, and nobody looks at that.
Publish(n) ==
    unacked' = IF mqtt_link # "up" THEN unacked
               ELSE IF unacked + n > MaxUnacked THEN MaxUnacked ELSE unacked + n

\* What is left after handle_error(ERROR_MQTT_...): nothing.
handle_error(thread) == vcu_pc' = [vcu_pc EXCEPT ![thread] = "stopped"]

\* Nothing under src/ schedules the first connection; somebody else does, once.
ScheduleFirst ==
    /\ vcu_pc.main = "loop" /\ ~link_lost
    /\ mqtt_link = "down" /\ ~mqtt_work
    /\ mqtt_work' = TRUE
    /\ UNCHANGED <<vcu_pc, mqtt_link, subscribed, link_lost, unacked, canVars, v2xVars>>

mqtt_connect_work_handler ==
    /\ mqtt_work /\ vcu_pc.workq = "run"
    /\ mqtt_work' = FALSE
    /\ \/ mqtt_link' = "connecting" /\ UNCHANGED <<vcu_pc, link_lost>>
       \/ handle_error("workq") /\ link_lost' = TRUE /\ UNCHANGED mqtt_link
    /\ UNCHANGED <<subscribed, unacked, canVars, v2xVars>>

\* A refused CONNACK is passed over.
Connack ==
    /\ mqtt_link = "connecting"
    /\ mqtt_link' = "up"
    /\ \E accepted \in BOOLEAN : subscribed' = accepted
    /\ UNCHANGED <<vcu_pc, mqtt_work, link_lost, unacked, v2xVars>>

\* Mutant: handle_error returns and the work is scheduled.
DisconnectAndSchedule ==
    /\ mqtt_link # "down"
    /\ mqtt_link' = "down" /\ link_lost' = TRUE
    /\ subscribed' = FALSE
    /\ unacked' = 0
    /\ mqtt_work' = TRUE
    /\ UNCHANGED <<vcu_pc, v2xVars>>

\* The work of line 48 would come after handle_error.
Disconnect ==
    /\ mqtt_link # "down"
    /\ mqtt_link' = "down" /\ link_lost' = TRUE
    /\ subscribed' = FALSE
    /\ unacked' = 0
    /\ handle_error("mqtt")
    /\ UNCHANGED <<mqtt_work, v2xVars>>

Acknowledge ==
    /\ unacked > 0
    /\ unacked' = unacked - 1
    /\ UNCHANGED vcu_pc \/ handle_error("mqtt")
    /\ UNCHANGED <<mqtt_link, mqtt_work, subscribed, link_lost, v2xVars>>

RefuseSubscription ==
    /\ subscribed
    /\ subscribed' = FALSE
    /\ handle_error("mqtt")
    /\ UNCHANGED <<mqtt_link, mqtt_work, link_lost, unacked, v2xVars>>

IncomingMessage ==
    /\ subscribed
    /\ process_v2i_message
    /\ UNCHANGED <<mqttVars, unacked>>

mqtt_evt_handler ==
    /\ vcu_pc.mqtt = "run"
    /\ Connack \/ Disconnect \/ Acknowledge \/ RefuseSubscription \/ IncomingMessage
    /\ UNCHANGED canVars

\* The link goes down when the thread that would notice it is stopped.
LinkBreaks ==
    /\ mqtt_link # "down" /\ vcu_pc.mqtt = "stopped"
    /\ mqtt_link' = "down" /\ link_lost' = TRUE
    /\ subscribed' = FALSE
    /\ unacked' = 0
    /\ UNCHANGED <<vcu_pc, mqtt_work, canVars, v2xVars>>

-----------------------------------------------------------------------------
(* collision_node/src/main.c, and the driver's callback of the VCU.         *)

\* Lines 23 and 30 give up with 0: after 30 ms without an echo, or earlier,
\* since start_time is not initialised when it is compared first.  The result
\* of line 38 is an integer in metres.
Measurements(o) == {0} \cup (IF o = NoObstacle THEN {} ELSE {o \div 100})

ObstacleMoves ==
    /\ obstacle' \in Distances \cup {NoObstacle}
    /\ UNCHANGED <<mqttVars, unacked, on_bus, warned, measured, v2xVars>>

\* Sending may fail, and nobody looks at that either.
Send(frame) ==
    /\ Len(on_bus) < MaxOnBus
    /\ on_bus' = Append(on_bus, frame)
    /\ UNCHANGED <<mqttVars, unacked, obstacle, warned, measured, v2xVars>>

collision_thread ==
    \E d \in Measurements(obstacle) : Send([id |-> "COLLISION", value |-> d, of |-> obstacle])

\* Battery, brake, speed, temperature, tyre pressure and position.
OtherNodeReports ==
    \E value \in {0, 91} : Send([id |-> "TEMP", value |-> value, of |-> NoObstacle])

\* Mutant: a 0 is taken for no obstacle, as the sensor means it.
NearAndSeen(frame) == frame.id = "COLLISION" /\ frame.value \in 1 .. 99

\* The test of line 98.
Near(frame) == frame.id = "COLLISION" /\ frame.value < 100

can_handler ==
    /\ vcu_pc.main \in {"filter", "loop"}
    /\ on_bus # <<>>
    /\ on_bus' = Tail(on_bus)
    /\ LET frame == Head(on_bus)
       IN  /\ Publish(IF Near(frame) \/ (frame.id = "TEMP" /\ frame.value > 90) THEN 2 ELSE 1)
           /\ warned' = IF Near(frame) THEN warned \cup {frame.of} ELSE warned
           /\ measured' = IF frame.id = "COLLISION" THEN measured \cup {frame.of} ELSE measured
    /\ UNCHANGED <<mqttVars, obstacle, v2xVars>>

VcuNext ==
    \/ main
    \/ ScheduleFirst
    \/ mqtt_connect_work_handler
    \/ mqtt_evt_handler
    \/ LinkBreaks
    \/ ObstacleMoves
    \/ collision_thread
    \/ OtherNodeReports
    \/ can_handler

-----------------------------------------------------------------------------
VcuTypeOK ==
    /\ V2xTypeOK
    /\ vcu_pc \in [main : {"boot", "stopped", "returned", "filter", "loop"},
                   mqtt : {"run", "stopped"}, workq : {"run", "stopped"}]
    /\ mqtt_link \in {"down", "connecting", "up"}
    /\ {mqtt_work, subscribed, link_lost} \subseteq BOOLEAN
    /\ unacked \in 0 .. MaxUnacked
    /\ Len(on_bus) <= MaxOnBus
    /\ obstacle \in Distances \cup {NoObstacle}
    /\ warned \cup measured \subseteq Distances \cup {NoObstacle}

\* A link that was lost, or that could not be set up the first time, stays
\* down: handle_error has stopped the thread before it could schedule the next
\* attempt, be it the MQTT thread (line 48) or the work queue (line 73).
LossIsFinal == [][link_lost => mqtt_link' = "down" /\ ~mqtt_work']_vcuVars

\* Whatever the collision node sends and however long a frame is under way
\* while the obstacle moves: no obstacle closer than 1 m whose frame is handled
\* goes without the warning of lines 98-102.
NearObstaclesWarned == \A o \in measured : o # NoObstacle /\ o < 100 => o \in warned

\* Neither of the two warnings loses its cause: that of an obstacle follows
\* every reading of a near one, that of a road segment its second report.
WarningsFollowReports == NearObstaclesWarned /\ FirstReportsKept
=============================================================================
