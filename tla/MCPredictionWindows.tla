------------------------- MODULE MCPredictionWindows -------------------------
EXTENDS PredictionWindows

Driving == [bay |-> "a", phase |-> "ready", near |-> TRUE, seated |-> TRUE]

MCGames == {Driving, [Driving EXCEPT !.near = FALSE], [Driving EXCEPT !.phase = "parked"],
            [Driving EXCEPT !.bay = "b"], [Driving EXCEPT !.seated = FALSE]}
MCOffsets == <<-1, 0>>
MCNoLead == {0}

Point(dt, speed) == [dt |-> dt, steer |-> -1, speed |-> speed, stop |-> 0]
MCAnswers == {[fits |-> TRUE, points |-> <<Point(1, 1), Point(2, 2)>>],
              [fits |-> TRUE, points |-> <<Point(1, 1), Point(2, 3)>>],
              [fits |-> FALSE, points |-> <<Point(1, 1)>>]}

(* A session starts at the first sample, and time passes from then on; one *)
(* thing is out of the ordinary.                                           *)
MCWindowsBound ==
  /\ session.state = "idle" => now' = 1 /\ sent' <= 1
  /\ game'.changes + faults' <= 1

MCWindowsInit == WindowsInit /\ game.is = Driving

MCWindowsSpec == MCWindowsInit /\ [][WindowsNext]_windowVars /\ WindowsFairness
=============================================================================
