------------------------------- MODULE MCPlatform -------------------------------
(* An instance for TLC of the services around the workflow: node editing,      *)
(* blocks, security, reliability and the canvas.  They share no state: each    *)
(* behaviour exercises one.                                                    *)
EXTENDS Canvas, TLC

VARIABLES
    part,
    nodes, undo_stack, redo_stack, registered, held, undone, ahead, edits_made,
    blocks, controllers, last, tasks, doing, block_log, passed,
    policies, added, profiles, principals, records, recording, made, log,
    rules, incidents, signal_counts, signals, scenarios, injected, calls, windows, samples,
    owner_rules, reports, mttr, consumed, cycles, events, told,
    scale, level, viewport, selection, rects, arranged,
    secrets, patterns, trusted_keys, sbom, artifacts

edit_vars == <<nodes, undo_stack, redo_stack, registered, held, undone, ahead, edits_made>>
block_vars == <<blocks, controllers, last, tasks, doing, block_log, passed>>
security_vars == <<policies, added, profiles, principals, records, recording, made, log>>
reliability_vars == <<rules, incidents, signal_counts, signals, scenarios, injected, calls, windows,
                      samples, owner_rules, reports>>
dash_vars == <<mttr, consumed, cycles, events, told>>
view_vars == <<scale, level, viewport, selection, rects, arranged>>
trust_vars == <<secrets, patterns, trusted_keys, sbom, artifacts>>

Parameter(default, required) == [default |-> default, required |-> required]

Edit == INSTANCE NodeEditing WITH
    made <- edits_made, Positions <- {0, 1}, MaxNodes <- 2, MaxEdits <- 5,
    Updates <- {<<>>, [x |-> 1], [y |-> 2]},
    Templates <- [s |-> [parameters |-> [x |-> Parameter(0, FALSE), y |-> Parameter(None, TRUE)],
                         presets |-> [fast |-> [y |-> 1]]]]

Block == INSTANCE Blocks WITH
    log <- block_log, Threads <- {"t", "u"}, Dimensions <- {"d", "e"}, Names <- {"n"},
    MaxBlocks <- 1, MaxControllers <- 1, MaxTasks <- 1

PolicyIf(conditions, decision, priority) ==
    [conditions |-> conditions, decision |-> decision, priority |-> priority]

Asks(id, kind, action, resource, context) ==
    [principal_id |-> id, principal_kind |-> kind, action |-> action, resource |-> resource,
     context |-> context]

NoAccess ==
    [allowed_paths |-> {}, allowed_hosts |-> {}, allowed_models |-> {},
     allow_fs_write |-> FALSE, allow_network |-> FALSE]

Secure == INSTANCE Security WITH
    rules <- policies, Threads <- {"t", "u"}, MaxRecords <- 3, MaxEntries <- 2,
    Rules <- [a |-> PolicyIf({[is |-> "ResourceStartsWith", value |-> <<"x">>]}, "Allow", 1),
              b |-> PolicyIf({[is |-> "ResourceIs", value |-> <<"x", "y">>],
                              [is |-> "ActionIs", value |-> "Write"]}, "Deny", 1),
              c |-> PolicyIf({[is |-> "PrincipalIs", value |-> "p"],
                              [is |-> "ContextEquals", key |-> "k", value |-> "v"]}, "Deny", 0),
              d |-> PolicyIf({[is |-> "PrincipalKindIs", value |-> "user"]}, "Allow", 2)],
    Requests <- {Asks("p", "user", "Write", <<"x", "y">>, <<>>),
                 Asks("p", "agent", "Read", <<"x", "z">>, [k |-> "v"]),
                 Asks("q", "user", "Write", <<"z">>, [k |-> "w"])},
    Tools <- {"tool"},
    Profiles <- {NoAccess, [NoAccess EXCEPT !.allowed_paths = {<<"w">>}, !.allowed_models = {"m"}],
                 [NoAccess EXCEPT !.allow_network = TRUE, !.allowed_hosts = {"h"}, !.allow_fs_write = TRUE]},
    Accesses <- {[is |-> "Path", path |-> <<"w", "f">>, write |-> w] : w \in BOOLEAN}
                \cup {[is |-> "Host", host |-> "h"], [is |-> "Model", model |-> "m"]},
    Principals <- [p |-> [name |-> "ops", capabilities |-> {"DEPLOY"}],
                   q |-> [name |-> "ops", capabilities |-> {"ADMIN", "DEPLOY"}]]

Rely == INSTANCE Dashboard WITH
    IncidentRules <- [all  |-> [matches |-> {"task.failed", "task.slow"}, threshold_count |-> 1],
                      slow |-> [matches |-> {"task.slow"}, threshold_count |-> 2]],
    SignalTypes <- {"task.failed", "task.slow"}, Dimensions <- {"d"},
    Scenarios <- [o |-> [targets |-> {"read", "write"}, policy |-> "Once", after_calls |-> 0],
                  n |-> [targets |-> {"write"}, policy |-> "AfterN", after_calls |-> 1],
                  r |-> [targets |-> {"read"}, policy |-> "Random", after_calls |-> 0],
                  a |-> [targets |-> {"write"}, policy |-> "Always", after_calls |-> 0]],
    Operations <- {"read", "write", "other"},
    Slos <- [p99  |-> [kind |-> "Latency", threshold |-> 1, percentile |-> 99, target |-> 999],
             p50  |-> [kind |-> "Latency", threshold |-> 1, percentile |-> 50, target |-> 510],
             up   |-> [kind |-> "TaskAvailability", threshold |-> 1, percentile |-> 0, target |-> 500]],
    Values <- 0..2, WindowSize <- 3,
    OwnerRules <- [o |-> [components |-> {"core"}, owner |-> "x", sla |-> "P1"],
                   p |-> [components |-> {"core", "ui"}, owner |-> "y", sla |-> "P3"]],
    Reports <- {[component |-> "core", measured |-> 12, baseline |-> 10, sla |-> None],
                [component |-> "ui", measured |-> 11, baseline |-> 10, sla |-> "P0"],
                [component |-> "db", measured |-> 1, baseline |-> 0, sla |-> None]},
    MaxSignals <- 4, MaxCalls <- 4, MaxSamples <- 4, MaxReports <- 4,
    Budgets <- [task |-> 2, ui |-> 6], Downtimes <- {1, 5}, TimesToResolve <- {None, 1, 4},
    RiskyTime <- 2, DegradedTime <- 3, Cycles <- {1, 2, 3}, TrackerSize <- 2, MaxTold <- 4,
    MaxEvents <- 2

Op(id, at, node, change) == [op_id |-> id, timestamp_ms |-> at, node_id |-> node, change |-> change]

(* The constants of Canvas.                                                    *)
MCOps ==
    {Op(1, 1, "m", [is |-> "Move", position |-> 0]), Op(2, 1, "m", [is |-> "Move", position |-> 1]),
     Op(3, 2, "m", [is |-> "AddEdge", edge |-> <<"m", "n">>]),
     Op(4, 1, "n", [is |-> "RemoveEdge", edge |-> <<"m", "n">>]),
     Op(5, 1, "m", [is |-> "SetParameter", name |-> "x", value |-> 1])}

MCTemplates == [s |-> 0, t |-> 1]

Area(x, y, w, h) == [at |-> <<x, y>>, size |-> <<w, h>>]

(* Coordinates are multiples of 72, so that three arrangements stay exact.     *)
View == INSTANCE CanvasView WITH
    Hundredth <- 64, Deltas <- {<<2, 1>>, <<1, 2>>, <<-1, 1>>, <<0, 1>>},
    Layouts <- {<<Area(0, 72, 72, 144), Area(144, 0, 144, 72), Area(72, 144, 72, 72)>>,
                <<Area(144, 0, 288, 72), Area(0, 0, 72, 72), Area(144, 72, 72, 72)>>},
    Areas <- {Area(0, 0, 144, 144), Area(72, 72, 72, 72), Area(144, 144, 144, 288), Area(288, 0, 72, 72)},
    CanvasBounds <- Area(0, 0, 288, 288), MinimapSize <- <<72, 36>>, CellSize <- 144,
    NodeIds <- {1, 2}, MaxArranges <- 3

Component(name, version, id, key) ==
    [name |-> name, version |-> version, hash |-> <<name, version>>, key_id |-> id, made_with |-> key]

Safe == INSTANCE Trust WITH
    SecretNames <- {"token"}, Literals <- {<<>>, <<1>>, <<1, 2>>, <<2, 2>>, <<2, 1, 2>>},
    Texts <- UNION {[1..n -> {1, 2}] : n \in 0..4}, Marker <- 0, MaxPatterns <- 3,
    KeyIds <- {"i", "j"}, Keys <- {<<1>>, <<2>>}, MaxArtifacts <- 2,
    Payloads <- {1 :> 1, 1 :> 2, 2 :> 1, (1 :> 1) @@ (2 :> 2), (1 :> 2) @@ (2 :> 1)},
    Components <- {Component(1, 1, "i", <<1>>), Component(1, 1, "j", <<2>>), Component(1, 2, "j", <<1>>),
                   Component(2, 1, "i", None), Component(2, 2, "i", <<>>)}

Parts == {"edit", "custom", "blocks", "policy", "sandbox", "audit", "incidents", "chaos", "slo",
          "triage", "trackers", "dashboard", "share", "adder",
          "zoom", "arrange", "navigate", "secrets", "signing", "supply"}

MCInit ==
    /\ part \in Parts
    /\ Edit!Init /\ Block!Init /\ Secure!Init /\ Rely!DashInit /\ Init /\ View!Init /\ Safe!Init
    /\ part # "adder" => templates = {}
    /\ part \notin {"arrange", "navigate", "secrets", "signing", "supply"} => rects[1].at = <<0, 72>>

EditNext ==
    \/ part = "edit" /\ Edit!EditNext
    \/ part = "custom" /\ edits_made.edits < 4 /\ Edit!Next

SecurityNext ==
    \/ part = "policy" /\ Secure!PolicyNext
    \/ part = "sandbox" /\ Secure!SandboxNext
    \/ part = "audit" /\ (Secure!AuditNext \/ Secure!Evaluate(Asks("q", "user", "Write", <<"z">>, <<>>)))

ReliabilityNext ==
    \/ part = "incidents" /\ Rely!IncidentNext
    \/ part = "chaos" /\ Rely!ChaosNext
    \/ part = "slo" /\ Rely!SloNext /\ Cardinality(DOMAIN windows') <= 2
    \/ part = "triage" /\ Rely!TriageNext /\ Len(reports') <= 2

(* The trackers on their own, and with a little of each service that the       *)
(* dashboard shows.                                                            *)
ServiceNext ==
    \/ Rely!AddRule("all")
    \/ Len(signals) < 2 /\ Rely!Ingest(Rely!TelemetrySignal("task.slow", "d"))
    \/ \E i \in DOMAIN incidents : Rely!Acknowledge(i) \/ Rely!Resolve(i)
    \/ Rely!RegisterSlo("p50")
    \/ \E name \in DOMAIN windows : samples[name] = <<>> /\ Rely!Record(name, 2)
    \/ \E r \in {[component |-> "db", measured |-> 1, baseline |-> 0, sla |-> None]} : Rely!Submit(r)
    \/ 1 \in DOMAIN reports /\ Rely!ResolveReport(1)

DashboardNext ==
    \/ part = "trackers" /\ Rely!TrackerNext
    \/ part = "dashboard" /\ (Rely!Snapshot \/ Rely!PushRecord(4) \/ Rely!Consume("ui", 5))
    \/ part = "dashboard" /\ ServiceNext /\ UNCHANGED dash_vars

CanvasNext ==
    \/ part = "share" /\ ShareNext
    \/ part = "adder" /\ AdderNext

ViewNext ==
    \/ part = "zoom" /\ View!ZoomNext
    \/ part = "arrange" /\ View!ArrangeNext
    \/ part = "navigate" /\ View!NavigationNext

TrustNext ==
    \/ part = "secrets" /\ Safe!SecretNext
    \/ part = "signing" /\ Safe!SigningNext
    \/ part = "supply" /\ Safe!SupplyNext

MCNext ==
    /\ UNCHANGED part
    /\ \/ EditNext /\ UNCHANGED <<block_vars, security_vars, reliability_vars, dash_vars, vars, view_vars, trust_vars>>
       \/ part = "blocks" /\ Block!Next
          /\ UNCHANGED <<edit_vars, security_vars, reliability_vars, dash_vars, vars, view_vars, trust_vars>>
       \/ SecurityNext /\ UNCHANGED <<edit_vars, block_vars, reliability_vars, dash_vars, vars, view_vars, trust_vars>>
       \/ ReliabilityNext /\ UNCHANGED <<edit_vars, block_vars, security_vars, dash_vars, vars, view_vars, trust_vars>>
       \/ DashboardNext /\ UNCHANGED <<edit_vars, block_vars, security_vars, vars, view_vars, trust_vars>>
       \/ CanvasNext /\ UNCHANGED <<edit_vars, block_vars, security_vars, reliability_vars, dash_vars, view_vars, trust_vars>>
       \/ ViewNext
          /\ UNCHANGED <<edit_vars, block_vars, security_vars, reliability_vars, dash_vars, vars, trust_vars>>
       \/ TrustNext
          /\ UNCHANGED <<edit_vars, block_vars, security_vars, reliability_vars, dash_vars, vars, view_vars>>

all_vars == <<part, edit_vars, block_vars, security_vars, reliability_vars, dash_vars,
              vars, view_vars, trust_vars>>

MCSpec == MCInit /\ [][MCNext]_all_vars

(* The properties of the modules, under the names that the run checks.         *)

(* Undo and redo lead back and forth through the same graphs (node.rs); the    *)
(* canvas's bounded stack holds the newest entries (node_adder.rs).            *)
UndoFaithful == Edit!UndoExact /\ Edit!RequiredPresent /\ UndoHoldsNewest

(* The log tells what blocks and controllers went through (registry.rs,        *)
(* controller.rs); the chain of audit records verifies and the action log      *)
(* follows it (audit.rs).                                                      *)
LogsFollow == Block!LogFollowsBlocks /\ Secure!ChainHolds

(* A matching rule of least priority decides (policy.rs), and names of         *)
(* principals are unique (identity.rs).                                        *)
LeastPriorityDecides == Secure!LeastPriorityDecides /\ Secure!NamesUnique


(* Each signal from the threshold on is in one incident of each of its rules   *)
(* (incident.rs); a status and its verdict agree (slo.rs); scenarios inject as *)
(* often as their policies allow (chaos.rs).                                   *)
SignalsTold == Rely!SignalsTold /\ Rely!PassingIsWithin /\ Rely!FaultsCounted

(* The dashboard shows the trouble there is (dashboard.rs), and the trackers   *)
(* hold the newest of what they were told (metrics.rs).                        *)
HealthTold == Rely!HealthTold /\ Rely!TrackersExact

(* The level of zoom fits the scale (zoom.rs), what is selected in view is     *)
(* drawn (selection.rs, visibility.rs), and arranging moves what it should.    *)
ViewFits == View!LevelFits /\ View!SelectedIsInView /\ View!ArrangedFits
================================================================================
