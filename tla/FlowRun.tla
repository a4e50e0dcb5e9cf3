------------------------------ MODULE FlowRun ------------------------------
(***************************************************************************)
(* Running Mercury flows (flows/runner.py) one after the other as a suite  *)
(* (flows/workspace.py).  A flow is a list of commands over variables; the *)
(* commands runFlow, repeat and retry run child flows.  What an ERP read   *)
(* returned is tracked by marks on the variables that hold it, and must    *)
(* not become an argument of a command that sends its arguments to the     *)
(* cloud.  The flow is not fixed: every command that could come next may.  *)
(***************************************************************************)
EXTENDS Naturals, Sequences, FiniteSets, SequencesExt

CONSTANTS
    Names,          \* keys of env, names given to saveAs
    EnvSavers,      \* bound: commands whose output a flow saves as env
    Runners,        \* how the runner was built: [dry, erp, gate]
    Files,          \* flow files of the workspace, in the order discovered: numbers
    Orders,         \* executionOrder.flowsOrder: sequences of sets of files a key matches
    MaxCommands,    \* bound: commands of a flow, with those of the flow that waits for it
    MaxDepth,       \* bound: flows within flows
    MaxIterations,  \* times, or maxIterations
    MaxRetries      \* maxRetries of a retry

ASSUME FlowAssumption ==
    /\ "env" \notin Names /\ "none" \notin Names
    /\ Runners \subseteq [dry : BOOLEAN, erp : BOOLEAN, gate : BOOLEAN]
    /\ \A r \in Runners : ~(r.erp /\ r.gate)  \* no caller passes ERP callbacks and a gate
    /\ Files \subseteq Nat /\ IsFiniteSet(Files)
    /\ Orders \subseteq Seq(SUBSET Files)
    /\ {MaxCommands, MaxDepth, MaxIterations, MaxRetries} \subseteq Nat

VARIABLES
    built,      \* the runner: dry_run, with ERP callbacks, with a capability gate
    frames,     \* run_flow calls, the outermost first
    phase,      \* idle, running, returning a result, raising or refusing a mutation
    result,     \* the FlowRunResult or the child output on its way up
    suite,      \* run_workspace_flows: flows to run, whether they were discovered
    previews,   \* ghost: write previews made by the flow that runs
    uploaded,   \* ghost: a cloud command was given ERP data
    escaped     \* ghost: ERP data went where the marks do not follow it

flowVars == <<built, frames, phase, result, suite, previews, uploaded, escaped>>

Local == {"assert", "emitReport"}  \* connectorStatus: an assert without arguments

\* What a template may name: a variable, or an entry of env.
Paths == {<<n>> : n \in Names} \cup {<<"env", n>> : n \in Names}

\* Where a value comes from: nowhere (absent), this side of the ERP (plain), or
\* an ERP read (erp).
Mix(values) == IF "erp" \in values THEN "erp" ELSE "plain"

\* What a command or a flow returns, or the message it raises: "loose" is the part
\* that no mark stands for (summaries of steps, messages of attempts, a condition).
NoResult == [status |-> "none", tainted |-> FALSE, value |-> "plain", loose |-> "plain"]

-----------------------------------------------------------------------------
\* _TaintState.references: a mark above or below the path.
References(marks, path) == \E p \in marks : IsPrefix(p, path) \/ IsPrefix(path, p)

AnyReferenced(marks, paths) == \E p \in paths : References(marks, p)

\* variables["env"][n]: a value saved as env takes the place of env as a whole, and
\* is taken to have every key.
EnvAt(f, n) == IF f.saved["env"] = "absent" THEN f.env[n] ELSE f.saved["env"]

\* _get_path: a saved variable hides the entry of env of the same name.
ValueAt(f, path) ==
    IF Len(path) = 2 THEN EnvAt(f, path[2])
    ELSE IF f.saved[path[1]] # "absent" THEN f.saved[path[1]] ELSE f.env[path[1]]

\* _interpolate_with_taint: an unknown variable is an error.
Renders(f, paths) == \A p \in paths : ValueAt(f, p) # "absent"
Rendered(f, paths) == Mix({ValueAt(f, p) : p \in paths})

Everything(f) ==
    Mix({f.env[n] : n \in Names} \cup {f.saved[n] : n \in Names \cup {"env"}}
        \cup {a.value : a \in f.artifacts})

\* _safe_tainted_variables, and the artifacts that are not marked
Safe(f) ==
    LET clear == {n \in Names : ~References(f.marks, <<n>>)} IN
    Mix({ValueAt(f, <<n>>) : n \in clear}
        \cup (IF References(f.marks, <<"env">>) THEN {} ELSE {EnvAt(f, n) : n \in clear})
        \cup {a.value : a \in {a \in f.artifacts : ~a.marked}})

\* A frame of run_flow; "call" is the group command it waits for.
NoCall == [name |-> "none", save |-> "none", marked |-> FALSE, over |-> <<>>, overMarked |-> FALSE,
           whole |-> FALSE, while |-> {}, left |-> 0, seen |-> "plain", tainted |-> FALSE, loose |-> "plain"]

NewFrame(env, marks, retrying) ==
    [env |-> env, saved |-> [n \in Names \cup {"env"} |-> "absent"], marks |-> marks, artifacts |-> {},
     heard |-> "plain", at |-> 0, retrying |-> retrying, call |-> NoCall]

\* _child_taint_state: keys rendered from marked variables, and keys marked above.
ChildMarks(f) ==
    LET given == DOMAIN f.call.over \cup {n \in Names : EnvAt(f, n) # "absent"}
        keys == {n \in given : \/ f.call.overMarked /\ n \in DOMAIN f.call.over
                               \/ References(f.marks, <<n>>)}
    IN {<<n>> : n \in keys} \cup {<<"env", n>> : n \in keys}

\* The entries of env the child is given, and those its file brings.
ChildEnv(f, own) ==
    [n \in Names |-> IF n \in DOMAIN f.call.over THEN f.call.over[n]
                     ELSE IF EnvAt(f, n) # "absent" THEN EnvAt(f, n)
                     ELSE IF n \in own THEN "plain" ELSE "absent"]

Running == Last(frames)
WithTop(f) == Append(Front(frames), f)
Top == phase = "running" /\ frames # <<>>

\* The marks of a child go by the keys of env: not by what was saved as env, nor
\* by a template that stands for the whole of it.
Unlooked(f) ==
    \/ f.saved["env"] = "erp"
    \/ f.call.whole /\ \E n \in DOMAIN f.call.over : f.call.over[n] = "erp"

\* _run_child_flow_command
EnterChild(f, own) ==
    /\ Len(frames) < MaxDepth
    /\ escaped' = (escaped \/ Unlooked(f))
    /\ frames' = Append(WithTop(f), NewFrame(ChildEnv(f, own), ChildMarks(f), f.retrying \/ f.call.name = "retry"))

FlowInit ==
    /\ built \in Runners
    /\ frames = <<>> /\ phase = "idle" /\ result = NoResult
    /\ suite = [todo |-> <<>>, found |-> FALSE]
    /\ previews = 0 /\ uploaded = FALSE /\ escaped = FALSE

-----------------------------------------------------------------------------
\* ordered_selected: for each key the first file it matches that is not used yet,
\* then the rest.
OrderedSelected(selected, order) ==
    LET picks[i \in 0..Len(order)] ==
            IF i = 0 THEN <<>>
            ELSE LET match == {f \in ToSet(selected) : f \in order[i] /\ f \notin ToSet(picks[i - 1])}
                 IN IF match = {} THEN picks[i - 1]
                    ELSE Append(picks[i - 1], CHOOSE f \in match : \A g \in match : f <= g)
    IN picks[Len(order)] \o SelectSeq(selected, LAMBDA f : f \notin ToSet(picks[Len(order)]))

\* discover_workspace_flows: tags choose the files; an invalid one that is chosen
\* ends the suite before it starts.
Discover(selected, invalid, order) ==
    /\ ~suite.found
    /\ suite' = [found |-> TRUE, todo |-> IF selected \cap invalid # {} THEN <<>>
                                         ELSE OrderedSelected(SetToSortSeq(selected, <), order)]
    /\ UNCHANGED <<built, frames, phase, result, previews, uploaded, escaped>>

\* _run_flow_files, the suite of a hosted tool: files sent without a config run in
\* the order they came and an invalid one is left out; nothing runs when a chosen
\* flow needs a connector that is not ready, or on an invalid one without
\* continue_on_failure.  The hosted runner has neither ERP callbacks nor a gate.
RunFlowFiles(selected, invalid, order, config, refused) ==
    /\ ~suite.found /\ ~built.erp /\ ~built.gate
    /\ suite' = [found |-> TRUE,
                 todo |-> IF refused \/ (config /\ selected \cap invalid # {}) THEN <<>>
                          ELSE IF config THEN OrderedSelected(SetToSortSeq(selected, <), order)
                          ELSE SetToSortSeq(selected \ invalid, <)]
    /\ UNCHANGED <<built, frames, phase, result, previews, uploaded, escaped>>

\* run_workspace_flows takes the next flow with the env of the workspace.
StartFlow(own) ==
    /\ suite.found /\ phase = "idle" /\ suite.todo # <<>>
    /\ frames' = <<NewFrame([n \in Names |-> IF n \in own THEN "plain" ELSE "absent"], {}, FALSE)>>
    /\ phase' = "running" /\ result' = NoResult
    /\ previews' = 0 /\ uploaded' = FALSE /\ escaped' = FALSE
    /\ UNCHANGED <<built, suite>>

\* A flow that failed ends the suite when continueOnFailure is off, or when
\* _error_result cannot parse the file any more.
FlowEnds(stops) ==
    /\ frames = <<>> /\ phase \in {"returning", "raising", "refusing"}
    /\ stops => phase # "returning"
    /\ suite' = [suite EXCEPT !.todo = IF stops THEN <<>> ELSE Tail(@)]
    /\ phase' = "idle"
    /\ result' = NoResult
    /\ UNCHANGED <<built, frames, previews, uploaded, escaped>>

-----------------------------------------------------------------------------
\* Leaving run_flow with a result.
Return(r) ==
    /\ frames' = Front(frames)
    /\ phase' = "returning"
    /\ result' = r

\* FlowRunResult at the end, on a confirmation, for a capability and for ERP data,
\* with the summaries of its steps; the last one withholds those that were marked.
Ended(f, status) ==
    [status |-> status, tainted |-> f.marks # {}, value |-> Everything(f), loose |-> f.heard]
CapabilityResult(f) == [Ended(f, "blocked") EXCEPT !.tainted = FALSE]
TaintResult(f) == [NoResult EXCEPT !.status = "erp_to_cloud_taint", !.tainted = TRUE, !.value = Safe(f)]

Groups == {"runFlow", "repeat", "retry"}

\* save_as marks the variable when the output or the arguments were marked.
MarksAfter(f, save, marked, argsMarked) ==
    IF save # "none" /\ (marked \/ argsMarked) THEN f.marks \cup {<<save>>} ELSE f.marks

\* What is saved without a mark though no mark stands for a part of it.
SavedUnmarked(c, output) == c.save # "none" /\ output.loose = "erp" /\ ~output.tainted /\ ~c.marked

\* After _execute: save, collect the artifact and the summary of the step (of a
\* group only its keys and counts; no matter once there are marks), and end on a
\* confirmation or on blocked data.
Complete(f, c, output) ==
    LET marks == MarksAfter(f, c.save, output.tainted, c.marked)
        kept == Mix({output.value, output.loose})
        g == [f EXCEPT !.saved = IF c.save = "none" THEN @ ELSE [@ EXCEPT ![c.save] = kept],
                       !.marks = marks,
                       !.heard = IF marks # {} THEN "plain" ELSE IF c.name \in Groups THEN @
                                 ELSE Mix({@, output.value}),
                       !.artifacts = IF c.name # "emitReport" THEN @
                                     ELSE @ \cup {[value |-> output.value, marked |-> output.tainted \/ c.marked]},
                       !.at = @ + 1, !.call = NoCall]
    IN IF output.status = "erp_to_cloud_taint" THEN Return(TaintResult(g))
       ELSE IF output.status = "confirmation_required" THEN Return(Ended(g, "confirmation_required"))
       ELSE /\ frames' = WithTop(g)
            /\ phase' = "running"
            /\ result' = NoResult

Raise(message) ==
    /\ phase' = "raising" /\ UNCHANGED frames
    /\ result' = [NoResult EXCEPT !.value = message]

Commands == Running.at + (IF Len(frames) = 1 THEN 0 ELSE frames[Len(frames) - 1].at)

\* The command is there to run: its args could be rendered and its when was true.
Takes(paths) == Top /\ Running.call = NoCall /\ Commands < MaxCommands /\ Renders(Running, paths)

CommandFor(name, paths, save) ==
    [NoCall EXCEPT !.name = name, !.save = save, !.marked = AnyReferenced(Running.marks, paths)]

\* _condition_matches was false, on whatever the condition rendered to.
SkipCommand ==
    /\ Takes({})
    /\ frames' = WithTop([Running EXCEPT !.at = @ + 1])
    /\ UNCHANGED <<built, phase, result, suite, previews, uploaded, escaped>>

\* A template names a variable that is not there, arguments are wrong, or an
\* assertion does not hold; the message may repeat the arguments.
CommandFails(paths) ==
    /\ Takes(paths)
    /\ Raise(Rendered(Running, paths))
    /\ UNCHANGED <<built, suite, previews, uploaded, escaped>>

\* capability_gate answered with a blocking reason; saveAs keeps that answer.
CapabilityBlocked(save) ==
    /\ Takes({}) /\ built.gate
    /\ Return(CapabilityResult(IF save = "none" THEN Running
                               ELSE [Running EXCEPT !.saved[save] = "plain"]))
    /\ UNCHANGED <<built, suite, previews, uploaded, escaped>>

\* A command that stays on this side: status, assertion, report; a dry run only
\* plans, and its plan repeats the arguments.
LocalCommand(name, paths, save) ==
    /\ Takes(paths)
    /\ Complete(Running, CommandFor(name, paths, save),
                [NoResult EXCEPT !.value = IF built.dry \/ name = "emitReport"
                                           THEN Rendered(Running, paths) ELSE "plain"])
    /\ UNCHANGED <<built, suite, previews, uploaded, escaped>>

\* _CLOUD_BOUND_COMMANDS with marked arguments end the flow.
CloudRefused(paths) ==
    /\ Takes(paths) /\ AnyReferenced(Running.marks, paths)
    /\ Return(TaintResult(Running))
    /\ UNCHANGED <<built, suite, previews, uploaded, escaped>>

\* searchKnowledge, retrieveContextPack, getDocument, runSkill
CloudCommand(paths, save) ==
    /\ Takes(paths) /\ ~AnyReferenced(Running.marks, paths)
    /\ uploaded' = (uploaded \/ (~built.dry /\ Rendered(Running, paths) = "erp"))
    /\ \/ Complete(Running, CommandFor("searchKnowledge", paths, save),
                   [NoResult EXCEPT !.value = Rendered(Running, paths)])
       \/ ~built.dry /\ Raise(Rendered(Running, paths))
    /\ UNCHANGED <<built, suite, previews, escaped>>

\* erpRead: what it returns is marked.
ErpRead(paths, save) ==
    /\ Takes(paths) /\ (built.dry \/ built.erp)
    /\ Complete(Running, CommandFor("erpRead", paths, save),
                IF built.dry THEN [NoResult EXCEPT !.value = Rendered(Running, paths)]
                ELSE [NoResult EXCEPT !.tainted = TRUE, !.value = "erp"])
    /\ UNCHANGED <<built, suite, previews, uploaded, escaped>>

\* erpWritePreview cannot run inside retry.
MayPreview(f) == ~f.retrying

\* erpWritePreview: a preview the callback made, complete or not.
ErpWritePreview(paths, save) ==
    /\ Takes(paths) /\ (built.dry \/ built.erp)
    /\ IF built.dry
       THEN /\ Complete(Running, CommandFor("erpWritePreview", paths, save),
                        [NoResult EXCEPT !.value = Rendered(Running, paths)])
            /\ UNCHANGED previews
       ELSE IF ~MayPreview(Running)
       THEN /\ phase' = "refusing" /\ UNCHANGED <<frames, result, previews>>
       ELSE /\ previews' = previews + 1
            /\ \/ Complete(Running, CommandFor("erpWritePreview", paths, save),
                           [NoResult EXCEPT !.status = "confirmation_required"])
               \/ Raise("plain")
    /\ UNCHANGED <<built, suite, uploaded, escaped>>

\* runFlow, repeat and retry: env rendered into the keys "over", each from its own
\* template or the whole of it from one (_tainted_mapping_keys finds no key then);
\* the condition of a repeat is kept as it is.
GroupCommand(name, save, over, whole, condition, count) ==
    /\ Takes(UNION {over[n] : n \in DOMAIN over})
    /\ Len(frames) < MaxDepth \/ (condition # {} /\ over = <<>> /\ count = MaxIterations)
    /\ LET used == UNION {over[n] : n \in DOMAIN over} IN
       frames' = WithTop([Running EXCEPT !.call =
            [NoCall EXCEPT !.name = name, !.save = save,
                           !.marked = AnyReferenced(Running.marks, used),
                           !.overMarked = ~whole /\ AnyReferenced(Running.marks, used),
                           !.whole = whole /\ AnyReferenced(Running.marks, used),
                           !.over = [n \in DOMAIN over |-> Rendered(Running, over[n])],
                           !.while = condition, !.left = count]])
    /\ UNCHANGED <<built, phase, result, suite, previews, uploaded, escaped>>

FlowEnd ==
    /\ Top /\ Running.call = NoCall /\ Running.at > 0
    /\ Return(Ended(Running, IF built.dry THEN "planned" ELSE "ok"))
    /\ UNCHANGED <<built, suite, previews, uploaded, escaped>>

-----------------------------------------------------------------------------
Waits(name) == Top /\ Running.call.name = name

\* What _repeat returns once no further iteration is run.
RepeatOutput(f, status) ==
    [status |-> status, tainted |-> f.call.tainted, value |-> f.call.seen, loose |-> f.call.loose]

EndRepeat(f, status) ==
    /\ Complete(f, f.call, RepeatOutput(f, status))
    /\ escaped' = (escaped \/ SavedUnmarked(f.call, RepeatOutput(f, status)))

\* The condition of a repeat sees env only, and is rendered without marks.
Tested == IF Running.call.while = {} THEN Running
          ELSE [Running EXCEPT !.call.loose = Mix({@, Rendered(Running, Running.call.while)})]

\* One more iteration, or none: times used up, or the condition false.
RepeatIterates(own) ==
    /\ Waits("repeat") /\ Running.call.left > 0
    /\ Renders(Running, Running.call.while)
    /\ EnterChild([Tested EXCEPT !.call.left = @ - 1], own)
    /\ UNCHANGED <<built, phase, result, suite, previews, uploaded>>

RepeatEnds ==
    /\ Waits("repeat")
    /\ \/ Running.call.left = 0 /\ EndRepeat(Running, "ok")
       \/ /\ Running.call.left > 0 /\ Running.call.while # {} /\ Renders(Running, Running.call.while)
          /\ EndRepeat(Tested, "ok")
    /\ UNCHANGED <<built, suite, previews, uploaded>>

\* The flow to run cannot be loaded, or the condition cannot be rendered.
GroupFails ==
    /\ Top /\ Running.call.left > 0
    /\ frames' = WithTop([Running EXCEPT !.call.left = @ - 1])
    /\ phase' = "raising"
    /\ UNCHANGED <<built, result, suite, previews, uploaded, escaped>>

RunFlowEnters(own) ==
    /\ Waits("runFlow") /\ Running.call.left > 0
    /\ EnterChild([Running EXCEPT !.call.left = 0], own)
    /\ UNCHANGED <<built, phase, result, suite, previews, uploaded>>

RetryEnters(own) ==
    /\ Waits("retry") /\ Running.call.left > 0
    /\ EnterChild([Running EXCEPT !.call.left = @ - 1], own)
    /\ UNCHANGED <<built, phase, result, suite, previews, uploaded>>

\* Deviation: a repeat only stops for blocked ERP data.
StopsOnTaint(r) == r.status = "erp_to_cloud_taint"

\* _repeat goes on after every other result, a capability that blocked included.
StopsRepeat(r) == r.status \in {"confirmation_required", "erp_to_cloud_taint"}

\* The child's result reaches the command that ran it; a retry adds the messages of
\* the attempts before.
ChildReturns ==
    /\ phase = "returning" /\ frames # <<>>
    /\ IF Running.call.name = "repeat"
       THEN LET f == [Running EXCEPT !.call.seen = Mix({@, result.value}),
                                     !.call.tainted = @ \/ result.tainted,
                                     !.call.loose = Mix({@, result.loose})]
            IN IF StopsRepeat(result) THEN EndRepeat(f, result.status)
               ELSE frames' = WithTop(f) /\ phase' = "running" /\ result' = NoResult /\ UNCHANGED escaped
       ELSE LET output == [result EXCEPT !.loose = Mix({@, Running.call.loose})]
            IN /\ Complete(Running, Running.call, output)
               /\ escaped' = (escaped \/ SavedUnmarked(Running.call, output))
    /\ UNCHANGED <<built, suite, previews, uploaded>>

\* A child raised: _retry keeps the message and runs it again, once when it only
\* plans; every other command, and every command for a refused mutation, lets it pass.
ChildRaises ==
    /\ phase \in {"raising", "refusing"} /\ frames # <<>>
    /\ IF /\ Running.call.name = "retry" /\ phase = "raising"
          /\ Running.call.left > 0 /\ ~built.dry
       THEN /\ phase' = "running" /\ result' = NoResult
            /\ frames' = WithTop([Running EXCEPT !.call.loose = Mix({@, result.value})])
       ELSE frames' = Front(frames) /\ UNCHANGED <<phase, result>>
    /\ UNCHANGED <<built, suite, previews, uploaded, escaped>>

-----------------------------------------------------------------------------
Saves == Names \cup {"env", "none"}
SavesOf(name) == IF name \in EnvSavers THEN Saves ELSE Saves \ {"env"}
Arguments == {{}} \cup {{p} : p \in Paths}
Overrides == {<<>>} \cup UNION {[{k} -> {{<<v>>} : v \in Names}] : k \in Names}
Conditions == {{}} \cup {{<<"env", n>>} : n \in Names}

FlowNext ==
    \/ \E selected, invalid \in SUBSET Files, order \in Orders :
        \/ Discover(selected, invalid, order)
        \/ \E config, refused \in BOOLEAN : RunFlowFiles(selected, invalid, order, config, refused)
    \/ \E own \in {{}, Names} :
        StartFlow(own) \/ RepeatIterates(own) \/ RunFlowEnters(own) \/ RetryEnters(own)
    \/ \E b \in BOOLEAN : FlowEnds(b)
    \/ SkipCommand \/ FlowEnd \/ RepeatEnds \/ GroupFails \/ ChildReturns \/ ChildRaises
    \/ \E save \in Saves : CapabilityBlocked(save)
    \/ \E paths \in Arguments :
        \/ CommandFails(paths) \/ CloudRefused(paths)
        \/ \E name \in Local : \E save \in SavesOf(name) : LocalCommand(name, paths, save)
        \/ \E save \in SavesOf("searchKnowledge") : CloudCommand(paths, save)
        \/ \E save \in SavesOf("erpRead") : ErpRead(paths, save)
        \/ \E save \in SavesOf("erpWritePreview") : ErpWritePreview(paths, save)
    \/ \E over \in Overrides : \E whole \in {FALSE, over # <<>>} :
        \/ \E save \in SavesOf("runFlow") : GroupCommand("runFlow", save, over, whole, {}, 1)
        \/ \E save \in SavesOf("retry"), n \in {0, MaxRetries} :
             GroupCommand("retry", save, over, whole, {}, n + 1)
        \/ \E save \in SavesOf("repeat"), k \in 0..MaxIterations, condition \in Conditions :
             GroupCommand("repeat", save, over, whole, condition, k)

FlowSpec == FlowInit /\ [][FlowNext]_flowVars

-----------------------------------------------------------------------------
(* What an ERP read returned is never an argument of a command that sends  *)
(* it to the cloud, whatever was saved, rendered into the env of a child,  *)
(* reported or returned by a child on the way, as long as it does not go   *)
(* where the marks do not follow it: saved from the summaries of the steps *)
(* of a flow that marked nothing, from the messages of failed attempts or  *)
(* from the condition of a repeat when no flow below returned marked; or   *)
(* given to a child through a value saved as env or an env that is one     *)
(* template.                                                               *)
ErpStaysLocal == uploaded => escaped

(* A write preview is the last thing a flow does: it is made once, never   *)
(* while a retry runs, and no command of the flow, of its children or of   *)
(* the flows around it runs after it.                                      *)
PreviewIsLast ==
    [][previews > 0 => previews' = 0 \/ (previews' = previews /\ phase' # "running")]_flowVars

\* A flow keeps ERP data local and stops at the preview of a write.
FlowContained == []ErpStaysLocal /\ PreviewIsLast
=============================================================================
