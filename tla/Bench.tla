-------------------------------- MODULE Bench --------------------------------
(***************************************************************************)
(* Guided measurements at the command line (pf-cli/src/main.rs): repeated  *)
(* A/B experiments, the display calibration sweep, and the diagnose,       *)
(* compare, report and export commands over sessions recorded earlier; and *)
(* the fit of the GUI's calibration form (pf-gui calibration.rs, create).  *)
(*                                                                         *)
(* A person drives the command between its prompts, and may interrupt a    *)
(* recording, plug in another screen, or run a command again.              *)
(***************************************************************************)
EXTENDS Diagnose, Redact, DisplayFit

CONSTANTS
  Panels,        (* the screens that can be attached                        *)
  Machine,       (* this machine                                            *)
  Host, User,    (* COMPUTERNAME and USERNAME as text                       *)
  Saved,         (* the sessions recorded earlier, by file                  *)
  Worlds,        (* effect of a condition, drift per block, settling time   *)
  Repetitions,   (* values of --reps                                        *)
  Settles,       (* values of --settle                                      *)
  Sweeps,        (* values of --levels                                      *)
  Forms,         (* reference points entered in the GUI                     *)
  BlockLength,   (* samples of a block recorded to its end                  *)
  MaxCommands    (* bound on the commands given                             *)

ASSUME BenchAssumption ==
  /\ MaxCommands \in Nat /\ BlockLength \in Nat \ {0}
  /\ None \notin Panels
  /\ Repetitions \subseteq 1..8 /\ Settles \subseteq Nat
  /\ \A levels \in Sweeps : Len(levels) \in 2..12 /\ Range(levels) \subseteq 0..FullRange

VARIABLES
  panel,      (* the attached screen                                       *)
  model,      (* sessions/display-calibration.json                         *)
  baseline,   (* the baseline file                                         *)
  recorded,   (* the experiment's session files that exist                 *)
  exported,   (* the exported files that exist                             *)
  cmd,        (* the command that is waiting or recording                  *)
  out,        (* what the last command printed                             *)
  given       (* commands so far                                           *)

benchVars == <<panel, model, baseline, recorded, exported, cmd, out, given>>

Idle == [kind |-> "none"]
Nothing == [kind |-> "none"]
Failed(code) == [kind |-> "failed", code |-> code]

(* A command is given at the shell's prompt, below the last one's text.    *)
Give == cmd = Idle /\ out = Nothing /\ given < MaxCommands /\ given' = given + 1
Back ==
  /\ out # Nothing /\ out' = Nothing
  /\ UNCHANGED <<panel, model, baseline, recorded, exported, cmd, given>>
Exit(o) == cmd' = Idle /\ out' = o

(* A write in place that fails leaves the file alone or no longer readable.*)
WriteCut(file) == file' \in {file, None} /\ out' = Failed(2)

-----------------------------------------------------------------------------
(* What a recording of the monitor holds: one reading per second, of a     *)
(* machine that draws level half watts once it has settled.                *)

Drawn(n, level, cpu, gpu) ==
  [label |-> <<"exp">>, base |-> 0,
   battery |-> [i \in 1..n |-> [mono |-> Second * (i - 1), wall |-> Second * i, dch |-> level[i],
                                chg |-> None, pct |-> 80, rem |-> 90]],
   cpu |-> [i \in 1..n |-> [mono |-> Second * (i - 1), v |-> cpu[i], c3 |-> None, pkg |-> None]],
   gpu |-> IF gpu THEN [i \in 1..n |-> [mono |-> Second * (i - 1),
                          adapters |-> <<[name |-> <<"gpu0">>, v |-> 0, pids |-> <<>>]>>]] ELSE <<>>,
   display |-> <<>>, net |-> <<>>, procs |-> <<>>, policy |-> [scheme |-> <<>>, dc |-> None],
   full |-> 100, design |-> None, count |-> 1, batteries |-> <<>>, named |-> <<>>]

(* Block k of an experiment: the change of condition shows for as long as  *)
(* the machine takes to settle.                                            *)
Rest == 20
Block(w, k, tag, n) ==
  LET level == Rest + (IF tag = "b" THEN w.effect ELSE 0) + w.drift * k
  IN Drawn(n, [i \in 1..n |-> IF i <= w.settling THEN level + 6 ELSE level],
           [i \in 1..n |-> 5], FALSE)

(* A level of a sweep: idle, busy in its first part, or plugged in.        *)
Level(b, how) ==
  Drawn(3, [i \in 1..3 |-> CASE how = "plugged" -> None
                             [] how = "busy" /\ i < 3 -> Rest + b + 8
                             [] OTHER -> Rest + b],
        [i \in 1..3 |-> IF how = "busy" /\ i < 3 THEN 50 ELSE 5], TRUE)

-----------------------------------------------------------------------------
(* The experiment.                                                          *)

(* Mutant: every repetition begins with A.                                 *)
order_forward(r) == <<"a", "b">>

(* A B, then B A, and so on.                                               *)
order(r) == IF r % 2 = 0 THEN <<"a", "b">> ELSE <<"b", "a">>

Tag(k) == order(k \div 2)[(k % 2) + 1]
OutFile(reps, k) == IF reps = 1 THEN <<Tag(k)>> ELSE <<k \div 2, Tag(k)>>

(* w is what the machine does, which the command does not know.            *)
StartExperiment(w, reps, settle) ==
  /\ Give
  /\ cmd' = [kind |-> "experiment", world |-> w, reps |-> reps, settle |-> settle, k |-> 0,
             stage |-> "prompt", blocks |-> <<>>]
  /\ UNCHANGED <<panel, model, baseline, recorded, exported, out>>

(* read_line: Enter, the end of the input, and --yes go on; an error ends  *)
(* the command.                                                            *)
Prompt ==
  /\ cmd # Idle /\ cmd.stage = "prompt"
  /\ \/ cmd' = [cmd EXCEPT !.stage = "record"] /\ UNCHANGED out
     \/ Exit(Failed(2))
  /\ UNCHANGED <<panel, model, baseline, recorded, exported, given>>

(* The blocks of each side added up; the first block of a side stands for  *)
(* it where a session is needed.                                           *)
analyze_repeated_experiment(as, bs) ==
  LET meds(ss, f(_)) == LET all == [i \in DOMAIN ss |-> f(ss[i])]
                        IN SelectSeq(all, LAMBDA m : m # None)
      level(s) == median(discharge(s))
      (* medians of medians, a hundred times the value *)
      of(ss) == LET m == median(meds(ss, level)) IN IF m = None THEN None ELSE m \div 10
      quality(ss) == aggregate_quality([i \in DOMAIN ss |-> capture_quality(ss[i])])
      from(ma, mb, qa, qb) ==
        comparison_from_stats(as[1], bs[1], ma, mb, qa, qb,
          ab_confidence(qa, qb, IF ma = None \/ mb = None THEN None ELSE mb - ma,
            aggregate_cpu_mismatch(meds(as, block_cpu_median), meds(bs, block_cpu_median))), {})
  IN from(of(as), of(bs), quality(as), quality(bs))

Sessions(c, tag) ==
  LET mine == SelectSeq(c.blocks, LAMBDA b : b.tag = tag)
  IN [i \in DOMAIN mine |-> Block(c.world, mine[i].k, tag, mine[i].n)]

(* One repetition is compared with its settling time, which 0 detects;     *)
(* with several, 0 removes nothing.                                        *)
analyze(c) ==
  LET as == Sessions(c, "a")  bs == Sessions(c, "b")
      trimmed(ss) == [i \in DOMAIN ss |-> trim_settle(ss[i], Second * c.settle)]
  IN IF c.reps = 1 THEN compare_sessions_with_settle(as[1], bs[1], Second * c.settle)
     ELSE analyze_repeated_experiment(trimmed(as), trimmed(bs))

(* A block ends with its last sample or, with the same exit code, when the *)
(* person interrupts it.                                                   *)
RecordBlock(n) ==
  /\ cmd.kind = "experiment" /\ cmd.stage = "record"
  /\ OutFile(cmd.reps, cmd.k) \notin recorded
  /\ recorded' = recorded \cup {OutFile(cmd.reps, cmd.k)}
  /\ LET c == [cmd EXCEPT !.k = @ + 1, !.stage = "prompt",
                          !.blocks = Append(@, [tag |-> Tag(cmd.k), k |-> cmd.k, n |-> n])]
     IN IF c.k < 2 * c.reps THEN cmd' = c /\ UNCHANGED out
        ELSE Exit([kind |-> "experiment", world |-> c.world, reps |-> c.reps, settle |-> c.settle,
                   blocks |-> c.blocks, answer |-> analyze(c)])
  /\ UNCHANGED <<panel, model, baseline, exported, given>>

(* The file exists, cannot be written, or is cut short by an error; the    *)
(* earlier blocks stay on disk and are not used again.                     *)
FailBlock ==
  /\ cmd.kind = "experiment" /\ cmd.stage = "record"
  /\ recorded' \in {recorded, recorded \cup {OutFile(cmd.reps, cmd.k)}}
  /\ Exit(Failed(2))
  /\ UNCHANGED <<panel, model, baseline, exported, given>>

-----------------------------------------------------------------------------
(* The calibration sweep.                                                   *)

(* The panel's identity is read once, at the start, or given by --panel.   *)
StartCalibrate(levels, claimed) ==
  /\ Give
  /\ cmd' = [kind |-> "calibrate", levels |-> levels, points |-> <<>>,
             stage |-> "prompt",
             panel |-> Or(claimed, panel), own |-> TRUE]
  /\ UNCHANGED <<panel, model, baseline, recorded, exported, out>>

SaveModel(c) ==
  LET fit == fit_linear(c.points)
      floor == Min({c.points[i][1] : i \in DOMAIN c.points})
  IN IF fit = None THEN Exit(Failed(2)) /\ UNCHANGED model
     ELSE \/ /\ model' = display_model(fit, Machine, c.panel, floor, c.own)
             /\ Exit([kind |-> "calibrated"])
          \/ WriteCut(model) /\ cmd' = Idle

(* The idle median, or that of all readings when nothing was idle; own     *)
(* remembers whether every level was measured on the panel named.          *)
RecordLevel(how) ==
  /\ cmd.kind = "calibrate" /\ cmd.stage = "record"
  /\ LET b == cmd.levels[Len(cmd.points) + 1]
         s == Level(b, how)
         w == Or(median(idle_subset(s)), median(discharge(s)))
         c == [cmd EXCEPT !.points = Append(@, <<b, w>>), !.own = @ /\ cmd.panel = panel,
                          !.stage = "prompt"]
     IN CASE w = None -> Exit(Failed(2)) /\ UNCHANGED model
          [] w # None /\ Len(c.points) = Len(c.levels) -> SaveModel(c)
          [] OTHER -> cmd' = c /\ UNCHANGED <<out, model>>
  /\ UNCHANGED <<panel, baseline, recorded, exported, given>>

FailLevel ==
  /\ cmd.kind = "calibrate" /\ cmd.stage = "record"
  /\ Exit(Failed(2))
  /\ UNCHANGED <<panel, model, baseline, recorded, exported, given>>

(* Another screen becomes the primary one.                                 *)
Dock ==
  /\ panel' \in Panels \ {panel}
  /\ cmd.kind # "experiment" /\ out = Nothing
  /\ UNCHANGED <<model, baseline, recorded, exported, cmd, out, given>>

-----------------------------------------------------------------------------
(* Text.  A line keeps the names in it and the words around them; numbers  *)
(* other than process ids are left out.                                    *)

Process(who) == who[1] \o <<" ", "(", "pid", " ", ToString(who[2]), ")">>
EvidenceLine(e) ==
  CASE e.kind = "started" -> <<"Process", " ", "started", " ">> \o Process(e.who)
                               \o <<"(", "parent", " ", "pid", " ", ToString(e.who[3]), ")">>
    [] e.kind \in {"active", "entered"} -> <<"Process", " ">> \o Process(e.who) \o <<" ", e.kind>>
                               \o <<"(", "parent", " ", "pid", " ", ToString(e.who[3]), ")">>
    [] e.kind = "stopped" -> <<"Process", " ">> \o Process(e.who) \o <<" ", "stopped">>
    [] e.kind = "gpu" -> <<"GPU", " ">> \o e.who \o <<" ", "activity">>
    [] OTHER -> <<e.kind>>
EvidenceLines(d) == [i \in DOMAIN d.evidence |-> EvidenceLine(d.evidence[i])]

render_diagnosis(label, d) == <<<<"DIAGNOSIS", ":", " ">> \o label>> \o EvidenceLines(d)

Listing(names) == FoldSet(LAMBDA n, acc : acc \o <<",", " ">> \o n, <<>>, names)
ContextLine(l) ==
  CASE l[1] = "processes" -> <<"processes", ":", " ">> \o Listing(l[3]) \o Listing(l[2])
    [] l[1] = "scheme" -> <<"scheme", ":", " ">> \o l[2] \o <<" ", "->", " ">> \o l[3]
    [] OTHER -> <<"median">>
render_comparison(c) ==
  <<<<"COMPARISON", ":", " ">> \o c.a \o <<" ", "vs", " ">> \o c.b>>
    \o SetToSeq({ContextLine(l) : l \in {x \in c.lines : x[1] \in {"processes", "scheme"}}})

render_report(s, d) ==
  <<<<"session", ":", " ">> \o s.label>>
    \o (IF headline_health(s) = None THEN <<<<"health", " ", "unavailable">>>> ELSE <<<<"health">>>>)
    \o [i \in DOMAIN s.batteries |-> <<"id", " ">> \o s.batteries[i].id]
    \o (IF PowerSummary(idle_subset(s)) = None THEN <<<<"no", " ", "idle">>>> ELSE <<<<"idle">>>>)
    \o EvidenceLines(d)
    \o <<<<"scheme", ":", " ">> \o (IF s.policy.scheme = <<>> THEN <<"unknown">> ELSE s.policy.scheme)>>
    \o (IF discharge_freshness(s) = None THEN <<>> ELSE <<<<"freshness">>>>)

(* The cells that carry a name or the reason of an absent value; a tidy    *)
(* row ends with the session's name.                                       *)
csv_cells(s) ==
  FlattenSeq([i \in DOMAIN s.gpu |-> FlattenSeq([j \in DOMAIN s.gpu[i].adapters |->
     LET a == s.gpu[i].adapters[j] IN <<a.name>> \o
       [k \in DOMAIN a.pids |-> a.name \o <<":">> \o Digits(a.pids[k])]])])
  \o FlattenSeq([i \in DOMAIN s.procs |-> [j \in DOMAIN s.procs[i].top |->
       Digits(s.procs[i].top[j].pid) \o <<":">> \o s.procs[i].top[j].name]])
  \o [i \in DOMAIN s.named |-> s.named[i].value] \o s.reasons
format_csv_row(cell) == <<"row", ",">> \o format_csv_cell(cell) \o <<",">>
tidy_csv_row(cell, id) == format_csv_row(cell) \o format_csv_cell(id)

redact_output(text, redact, sessions) ==
  LET masked(tokens) == [i \in DOMAIN text |-> redact_report_identifiers(text[i], tokens)]
  IN IF redact THEN masked(session_identifiers(sessions, Host, User)) ELSE text

-----------------------------------------------------------------------------
(* Commands over recorded sessions.                                         *)

(* The baseline is read before it is replaced.                             *)
Diagnosed(f, redact, d) ==
  [kind |-> "diagnosis", file |-> f, redact |-> redact, answer |-> d,
   text |-> redact_output(render_diagnosis(Saved[f].label, d), redact, <<Saved[f]>>)]

Diagnose(f, use, save, redact) ==
  /\ Give /\ UNCHANGED cmd
  /\ LET s == Saved[f]
         base == baseline_from_json(baseline)
     IN IF use /\ base = None THEN out' = Failed(2) /\ UNCHANGED baseline
        ELSE IF save /\ baseline_of(s) = None THEN out' = Failed(2) /\ UNCHANGED baseline
        ELSE \/ /\ baseline' = IF save THEN baseline_of(s) ELSE baseline
                /\ out' = Diagnosed(f, redact, diagnose_session(s, IF use THEN base.median ELSE None))
             \/ save /\ WriteCut(baseline)
  /\ UNCHANGED <<panel, model, recorded, exported>>

Compared(f, g, redact, c) ==
  [kind |-> "comparison", files |-> <<f, g>>, redact |-> redact, answer |-> c,
   text |-> redact_output(render_comparison(c), redact, <<Saved[f], Saved[g]>>)]

Compare(f, g, redact) ==
  /\ Give /\ UNCHANGED cmd
  /\ out' = Compared(f, g, redact, compare_sessions_with_settle(Saved[f], Saved[g], 0))
  /\ UNCHANGED <<panel, model, baseline, recorded, exported>>

(* A model of this machine and panel turns the session's brightness into   *)
(* watts, wherever the session was recorded.                               *)
display_watts(s) ==
  LET m == load_display_model_from(model, Machine, panel)
      b == median(ValuesBy(s.display, LAMBDA p : p.v))
  IN IF m = None \/ b = None THEN None ELSE display_w_at(m, b)

Report(f, redact) ==
  /\ Give /\ UNCHANGED cmd
  /\ LET s == Saved[f]
         w == display_watts(s)
         text == render_report(s, diagnose_session(s, None))
                   \o IF w = None THEN <<>> ELSE <<<<"panel", " ">> \o (IF model.panel = None THEN <<>> ELSE <<model.panel>>)>>
     IN out' = [kind |-> "report", file |-> f, redact |-> redact, watts |-> w,
                text |-> redact_output(text, redact, <<s>>)]
  /\ UNCHANGED <<panel, model, baseline, recorded, exported>>

(* The command line refuses an existing file with code 1, and so does the  *)
(* GUI's tidy export, which has a name of its own; a write that fails      *)
(* leaves its file.                                                        *)
Export(f, tidy, redact, force) ==
  /\ Give /\ UNCHANGED cmd
  /\ LET s == Saved[f]
         cells == csv_cells(s)
         rows == [i \in DOMAIN cells |->
                    IF tidy THEN tidy_csv_row(cells[i], s.label) ELSE format_csv_row(cells[i])]
     IN IF <<f, tidy>> \in exported /\ ~force THEN out' = Failed(1) /\ UNCHANGED exported
        ELSE /\ exported' = exported \cup {<<f, tidy>>}
             /\ \/ out' = [kind |-> "export", file |-> f, redact |-> redact,
                           text |-> redact_output(rows, redact, <<s>>)]
                \/ out' = Failed(2)
  /\ UNCHANGED <<panel, model, baseline, recorded>>

(* The GUI's form: fit, validation and class.                              *)
CreateCalibration(points, kind, claimed) ==
  /\ Give /\ UNCHANGED cmd
  /\ LET refs == {points[i][2] : i \in DOMAIN points}
         answer(f) == IF Len(points) < 2 \/ f = None THEN Failed("insufficient-evidence")
                      ELSE [kind |-> "fit", points |-> points, fit |-> f,
                            class |-> classify(f, Max(refs) - Min(refs), is_independent(kind),
                                               Or(claimed, panel) = panel)]
     IN out' = answer(fit_display_calibration(points))
  /\ UNCHANGED <<panel, model, baseline, recorded, exported>>

-----------------------------------------------------------------------------
(* A calibration from before models named their machine and panel.         *)
Legacy == [machine |-> None, panel |-> None, floor |-> 0, slope |-> <<1, 1>>, r2 |-> <<1, 1>>,
           own |-> FALSE]

BenchInit ==
  /\ panel \in Panels /\ model \in {None, Legacy}
  /\ baseline = None /\ recorded = {} /\ exported = {}
  /\ cmd = Idle /\ out = Nothing /\ given = 0

BenchNext ==
  \/ Back
  \/ \E w \in Worlds, r \in Repetitions, s \in Settles : StartExperiment(w, r, s)
  \/ Prompt
  \/ \E n \in {1, BlockLength} : RecordBlock(n)
  \/ FailBlock
  \/ \E l \in Sweeps, p \in Panels \cup {None} : StartCalibrate(l, p)
  \/ \E how \in {"idle", "busy", "plugged"} : RecordLevel(how)
  \/ FailLevel
  \/ Dock
  \/ \E f \in DOMAIN Saved, use, save, redact \in BOOLEAN : Diagnose(f, use, save, redact)
  \/ \E f, g \in DOMAIN Saved, redact \in BOOLEAN : Compare(f, g, redact)
  \/ \E f \in DOMAIN Saved, redact \in BOOLEAN : Report(f, redact)
  \/ \E f \in DOMAIN Saved, tidy, redact, force \in BOOLEAN : Export(f, tidy, redact, force)
  \/ \E r \in Forms, kind \in {"external_meter", "fitted_against_estimate"},
        p \in Panels \cup {None} : CreateCalibration(r, kind, p)

BenchSpec == BenchInit /\ [][BenchNext]_benchVars

-----------------------------------------------------------------------------
(* Properties.                                                              *)

(* An even number of balanced repetitions cancels a drift that is the same *)
(* from block to block: once every block has readings after the settling   *)
(* time, the difference reported is that of the conditions alone           *)
(* (cmd_experiment, A B B A; analyze_repeated_experiment).                 *)
DriftCancels ==
  (out.kind = "experiment" /\ out.reps % 2 = 0) =>
    LET long(b) == b.n > out.world.settling /\ Second * b.n > Second * out.settle
    IN (out.settle >= out.world.settling /\ \A i \in DOMAIN out.blocks : long(out.blocks[i])) =>
         out.answer.med_b - out.answer.med_a = 10 * out.world.effect

(* A report turns brightness into watts only with a model whose levels     *)
(* were measured on the attached screen, whatever was docked or swept in   *)
(* between, unless the sweep itself was not made on the panel it names     *)
(* (load_display_model, identity_mismatch_reason).                         *)
OwnPanelOnly ==
  (out.kind = "report" /\ out.watts # None) => (model.own => model.panel = panel)

Mirrors(c, r) ==
  LET other == [x \in {"A", "B"} |-> IF x = "A" THEN "B" ELSE "A"]
      flip(k) == IF k[2] = None THEN k ELSE <<k[1], other[k[2]]>>
  IN /\ r.med_a = c.med_b /\ r.med_b = c.med_a
     /\ (c.med_a # 0 /\ c.med_b # 0) =>
          /\ r.confidence = c.confidence /\ r.validity = c.validity
          /\ r.confounders = {flip(k) : k \in c.confounders}
          /\ (c.delta = None) = (r.delta = None)
          /\ c.delta # None => r.delta = -c.delta
     /\ r.norm.a = c.norm.b /\ r.own = <<c.own[2], c.own[1]>>
     /\ r.lines = {<<l[1], l[3], l[2]>> : l \in c.lines}

(* Exchanging the sides of a comparison mirrors it: the same confidence,   *)
(* validity and differences of context, the medians and the runtimes       *)
(* exchanged, the confounders of each side on the other                    *)
(* (compare_sessions_with_settle, ab_confidence, comparison_validity).     *)
SwapMirrored ==
  out.kind = "comparison" =>
    Mirrors(out.answer, compare_sessions_with_settle(Saved[out.files[2]], Saved[out.files[1]], 0))

(* What a held-out reference says cannot move the predictions it is        *)
(* compared with, as long as the other points have two levels              *)
(* (fit_display_calibration: "training fit is never presented as           *)
(* validation quality").                                                   *)
HoldOutIsHonest ==
  out.kind = "fit" =>
    LET res == out.fit.residuals
        n == Len(res)
        levels == {res[i].input : i \in (1..n) \ Held(n)}
        again(i) == fit_display_calibration([j \in 1..n |->
                      <<res[j].input, res[j].reference + (IF j = i THEN 3 ELSE 0)>>])
        same(p, q) == p[1] * q[2] = q[1] * p[2]
    IN Cardinality(levels) > 1 =>
         \A i \in Held(n) : \A j \in 1..n :
           same(again(i).residuals[j].predicted, res[j].predicted)

(* Redacted text names nothing: no word of an identifier of the sessions,  *)
(* no path, address or GUID, no number after "pid", and a second pass      *)
(* changes nothing                                                         *)
(* (redact_report_identifiers, session_identifiers).                       *)
Vocabulary == {" ", ":", ",", "(", ")", "\"", "<", ">"} \cup Numerals \cup OneChar
Texts == {"diagnosis", "comparison", "report", "export"}
RedactedHides ==
  (out.kind \in Texts /\ out.redact) =>
    LET ss == IF out.kind = "comparison" THEN <<Saved[out.files[1]], Saved[out.files[2]]>>
              ELSE <<Saved[out.file]>>
        tokens == session_identifiers(ss, Host, User)
        private == UNION {Range(tokens[i].value) : i \in DOMAIN tokens} \ Vocabulary
        line(t) == /\ Range(t) \cap (private \cup {x \in DOMAIN Shape : ~is_field_label(<<x>>)}) = {}
                   /\ \A i \in 1..(Len(t) - 2) : t[i] = "pid" => t[i + 2] \notin Numerals
                   /\ redact_report_identifiers(t, tokens) = t
    IN \A i \in DOMAIN out.text : line(out.text[i])

-----------------------------------------------------------------------------
(* Why OwnPanelOnly holds: a command has the fields its steps change, what  *)
(* is printed is read before anything else is asked, and a model is own     *)
(* only with the name of a real screen.                                     *)
BenchInv ==
  /\ panel \in Panels
  /\ cmd # Idle => {"kind", "stage"} \subseteq DOMAIN cmd
  /\ cmd.kind = "calibrate" => {"own", "panel", "points"} \subseteq DOMAIN cmd
  /\ out # Nothing => cmd = Idle
  /\ model # None /\ model.own => model.panel \in Panels
  /\ OwnPanelOnly

=============================================================================
