---------------------------- MODULE MCMediaState ----------------------------
(* MediaState on small sets of revisions, files, bitrates and storage       *)
(* faults, driven by every command and every backend event, in scenarios    *)
(* that bound how often each part is started. What a scenario excludes is    *)
(* the steps that would take a generation past its bound.                   *)
EXTENDS MediaState

CONSTANT Scenarios

VARIABLE scenario

Scenario == [capture : Nat, stream : Nat, recording : Nat, reconnect : Nat,
             file : SUBSET File, bitrate : SUBSET Bitrate,
             fault : SUBSET StorageFault, analyzer : BOOLEAN]

Whole == [capture |-> 1, stream |-> 1, recording |-> 1, reconnect |-> 0,
          file |-> {1}, bitrate |-> {64}, fault |-> {}, analyzer |-> FALSE]
RestartedUnderStream == [Whole EXCEPT !.capture = 2, !.recording = 0, !.analyzer = TRUE]
RestartedUnderRecording == [Whole EXCEPT !.capture = 2, !.stream = 0, !.analyzer = TRUE]
Streams == [capture |-> 1, stream |-> 2, recording |-> 0, reconnect |-> 1,
            file |-> {1}, bitrate |-> {64, 128},
            fault |-> {}, analyzer |-> FALSE]
Backoff == [capture |-> 1, stream |-> 1, recording |-> 0, reconnect |-> 6,
            file |-> {1}, bitrate |-> {64},
            fault |-> {}, analyzer |-> FALSE]
Recordings == [capture |-> 1, stream |-> 0, recording |-> 2, reconnect |-> 0,
               file |-> {1, 2}, bitrate |-> {64},
               fault |-> {"unsafe", "unavailable"}, analyzer |-> TRUE]

StateScenarios ==
  {Whole, RestartedUnderStream, RestartedUnderRecording, Streams, Backoff,
   Recordings}

ASSUME ScenariosAssumption == \A s \in Scenarios : s \in Scenario

Within(s, m) ==
  /\ m.capture.generation <= s.capture /\ m.stream.generation <= s.stream
  /\ m.recording.generation <= s.recording
  /\ m.connection.reconnect_count <= s.reconnect
  /\ m.recording.current_file \in s.file \cup {None}
  /\ {m.stream.opus_bitrate_bps, m.stream.pending_opus_bitrate_bps}
       \subseteq s.bitrate \cup {0}
  /\ m.monitoring_error # "none" => s.analyzer
  /\ m.recording.warning \in s.fault \cup {"none"}

ScenarioInit == Init /\ scenario \in Scenarios
ScenarioNext == Next /\ Within(scenario, media') /\ UNCHANGED scenario

ScenarioSpec ==
  /\ ScenarioInit /\ [][ScenarioNext]_<<vars, scenario>>
  /\ Acknowledgements
=============================================================================
