---------------------------------- MODULE V2x ----------------------------------
(***************************************************************************)
(* What the VCU does with messages of the infrastructure (v2i_handler.c) and *)
(* with reports of the road (road_monitor.c, infrastructure_manager.c).  The  *)
(* router (v2x_router.c) passes on safety messages only, with                 *)
(* CONFIG_V2X_EXPERIMENTAL = 0, and is handed none: a warning that is sent    *)
(* through it changes nothing, and notify_infrastructure_event and            *)
(* notify_traffic_congestion do no more than send one.                        *)
(* handle_traffic_light_update is not here: num_lights is never counted up,  *)
(* so its loop has no round (traffic_manager.c:28).                          *)
(***************************************************************************)
EXTENDS Integers, FiniteSetsExt

CONSTANTS
    Reporters,         \* threads that call update_road_condition
    SegmentIds,        \* road segments that are reported; 0 is one of them
    ZeroLight,         \* the state of a traffic light that has the value 0
    MaxRoadSegments    \* MAX_ROAD_SEGMENTS

VARIABLES
    v2i_ctx,           \* whether the last traffic light was not 0, road condition, flow
    segments,          \* the table, entry i of the code being i + 1 here
    num_segments,      \* uint8_t
    reporting,         \* what each reporter is about to do: at, segment and slot
    node_condition,    \* condition in the first infrastructure node
    brake_warnings,    \* whether trigger_brake_warning has been called
    reports,           \* history: reports of each segment, 2 for more
    announced,         \* history: segments broadcast_road_hazard was called for
    overrun            \* history: a report has looked behind the table

roadVars == <<segments, num_segments, reporting, reports, announced, overrun>>
v2xVars == <<v2i_ctx, roadVars, node_condition, brake_warnings>>

Conditions == {"NORMAL", "WET", "ICY"}
Lights == {"RED", "YELLOW", "GREEN"}
Flows == {"low", "high"}  \* up to and above HIGH_TRAFFIC_THRESHOLD
Segments == [id : SegmentIds, condition : Conditions]
SegmentSlots == 1 .. MaxRoadSegments

ASSUME V2xAssumption ==
    0 \in SegmentIds /\ MaxRoadSegments \in Nat /\ ZeroLight \in Lights

\* The value of an entry before it is written.
ZeroSegment == [id |-> 0, condition |-> "NORMAL"]
NotReporting == [at |-> "idle", segment |-> ZeroSegment, slot |-> 0]

V2xInit ==
    /\ v2i_ctx = [light |-> FALSE, road |-> "NORMAL", flow |-> "low"]
    /\ segments = [i \in SegmentSlots |-> ZeroSegment]
    /\ num_segments = 0
    /\ reporting = [t \in Reporters |-> NotReporting]
    /\ node_condition = "NORMAL"
    /\ brake_warnings = FALSE
    /\ reports = [s \in SegmentIds |-> 0]
    /\ announced = {}
    /\ overrun = FALSE

-----------------------------------------------------------------------------
\* near: closer than CRITICAL_DISTANCE, or than it takes to stop.  A message
\* may lack the distance, which is then any value.
handle_traffic_light_data(light, near) ==
    /\ v2i_ctx' = [v2i_ctx EXCEPT !.light = light # ZeroLight]
    /\ brake_warnings' = (brake_warnings \/ (light \in {"RED", "YELLOW"} /\ near))

handle_road_condition_data(condition) ==
    /\ v2i_ctx' = [v2i_ctx EXCEPT !.road = condition]
    /\ UNCHANGED brake_warnings

handle_traffic_flow_data(density) ==
    /\ v2i_ctx' = [v2i_ctx EXCEPT !.flow = density]
    /\ UNCHANGED brake_warnings

process_v2i_message ==
    /\ \/ \E light \in Lights, near \in BOOLEAN : handle_traffic_light_data(light, near)
       \/ \E condition \in Conditions : handle_road_condition_data(condition)
       \/ \E density \in Flows : handle_traffic_flow_data(density)
    /\ UNCHANGED <<roadVars, node_condition>>

-----------------------------------------------------------------------------
(* update_road_condition, under no lock: the search, then for a segment not  *)
(* found the check of the size, the increment and the copy.  The search is    *)
(* taken at one moment.  num_segments may be loaded again for the increment   *)
(* or kept from the check; what a copy behind the table hits is not in this   *)
(* state.                                                                  *)

Hazardous(condition) == condition # "NORMAL"

Known(s) == {i \in SegmentSlots : i <= num_segments /\ segments[i].id = s}

Count(s) == reports' = IF reports[s] < 2 THEN [reports EXCEPT ![s] = @ + 1] ELSE reports

Announce(s, condition) ==
    announced' = IF Hazardous(condition) THEN announced \cup {s} ELSE announced

\* Only a segment that is known already is announced (line 18).
UpdateKnown(t, s, condition) ==
    /\ reporting[t].at = "idle"
    /\ Known(s) # {}
    /\ segments' = [segments EXCEPT ![Min(Known(s))] = [id |-> s, condition |-> condition]]
    /\ Announce(s, condition)
    /\ Count(s)
    /\ UNCHANGED <<num_segments, reporting, overrun>>

SearchInVain(t, s, condition) ==
    /\ reporting[t].at = "idle"
    /\ Known(s) = {}
    /\ reporting' = [reporting EXCEPT
          ![t] = [at |-> "check", segment |-> [id |-> s, condition |-> condition], slot |-> 0]]
    /\ Count(s)
    /\ overrun' = (overrun \/ num_segments > MaxRoadSegments)
    /\ UNCHANGED <<segments, num_segments, announced>>

\* A count that racing reporters have raised beyond the table: anything may be
\* found behind it.
FindBehindTable(t, s, condition) ==
    /\ reporting[t].at = "idle"
    /\ Known(s) = {} /\ num_segments > MaxRoadSegments
    /\ Announce(s, condition)
    /\ Count(s)
    /\ overrun' = TRUE
    /\ UNCHANGED <<segments, num_segments, reporting>>

\* Without room the segment is not even stored.
CheckRoom(t) ==
    /\ reporting[t].at = "check"
    /\ reporting' = [reporting EXCEPT ![t] =
          IF num_segments < MaxRoadSegments
          THEN [@ EXCEPT !.at = "count", !.slot = num_segments] ELSE NotReporting]
    /\ UNCHANGED <<segments, num_segments, reports, announced, overrun>>

LoadSegmentsAgain(t) ==
    /\ reporting[t].at = "count"
    /\ reporting' = [reporting EXCEPT ![t].slot = num_segments]
    /\ UNCHANGED <<segments, num_segments, reports, announced, overrun>>

CountSegment(t) ==
    /\ reporting[t].at = "count"
    /\ num_segments' = (reporting[t].slot + 1) % 256
    /\ reporting' = [reporting EXCEPT ![t].at = "copy"]
    /\ UNCHANGED <<segments, reports, announced, overrun>>

CopySegment(t) ==
    LET r == reporting[t] IN
    /\ r.at = "copy"
    /\ segments' = [i \in SegmentSlots |-> IF i = r.slot + 1 THEN r.segment ELSE segments[i]]
    /\ reporting' = [reporting EXCEPT ![t] = NotReporting]
    /\ UNCHANGED <<num_segments, reports, announced, overrun>>

update_road_condition(t) ==
    /\ \/ \E s \in SegmentIds, condition \in Conditions :
             \/ UpdateKnown(t, s, condition)
             \/ SearchInVain(t, s, condition)
             \/ FindBehindTable(t, s, condition)
       \/ CheckRoom(t) \/ LoadSegmentsAgain(t) \/ CountSegment(t) \/ CopySegment(t)
    /\ UNCHANGED <<v2i_ctx, node_condition, brake_warnings>>

\* No node is ever given an id, so segment 0 is in the first one and no other
\* segment is in any.
process_road_condition(s, condition) ==
    /\ node_condition' = IF s = 0 THEN condition ELSE node_condition
    /\ UNCHANGED <<v2i_ctx, roadVars, brake_warnings>>

RoadReport ==
    \/ \E t \in Reporters : update_road_condition(t)
    \/ \E s \in SegmentIds, condition \in Conditions : process_road_condition(s, condition)

-----------------------------------------------------------------------------
V2xTypeOK ==
    /\ v2i_ctx \in [light : BOOLEAN, road : Conditions, flow : Flows]
    /\ segments \in [SegmentSlots -> Segments]
    /\ num_segments \in 0 .. 255
    /\ reporting \in [Reporters ->
          [at : {"idle", "check", "count", "copy"}, segment : Segments, slot : 0 .. 255]]
    /\ node_condition \in Conditions
    /\ {brake_warnings, overrun} \subseteq BOOLEAN
    /\ reports \in [SegmentIds -> 0 .. 2]
    /\ announced \subseteq SegmentIds

\* The first report of a segment is kept to the VCU even if it is a hazard, so
\* what broadcast_road_hazard is called for has been reported twice, with any
\* reporters in between (lines 15-28).  It is not so for segment 0, which an
\* entry counted and not yet copied passes for, nor once a racing increment
\* has made the search leave the table.
FirstReportsKept ==
    overrun \/ \A s \in announced \ {0} : reports[s] = 2
=============================================================================
