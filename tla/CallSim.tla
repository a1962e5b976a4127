------------------------------- MODULE CallSim -------------------------------
(***************************************************************************)
(* The call simulator's driver (src/call_sim/src/main.rs).  main() sets up *)
(* the working directory, optionally builds images and cleans containers, *)
(* loads client profiles, then runs the requested test sets one after      *)
(* another: a "group_" prefix selects a group call, Test::new prepares the *)
(* set, a match dispatches on the set's name (an unknown name panics), and *)
(* the set's function performs its steps (preprocess_sounds and run of     *)
(* each group) before test.report().  Every `?` ends main() with Err.      *)
(*                                                                         *)
(* test.rs, docker.rs and the analysis tools are not in the repository's   *)
(* src/: each of their calls is one step that succeeds or fails.  Test     *)
(* cases, groups and network profiles are their names; a case list built   *)
(* with format! is built with the same concatenation.                      *)
(***************************************************************************)
EXTENDS Integers, Sequences, TLC

CONSTANTS
    Requests   \* the argument lists `test_sets` the user may give

\* A command-line test set name: an optional "group_" prefix and the rest.
Arg == [prefixed : BOOLEAN, base : STRING]

ASSUME CallSimAssumption == Requests \subseteq Seq(Arg)

(* The steps of a test set: preprocess_sounds, or run of one group with   *)
(* its test cases (by name) and its network profiles.                      *)
Pre == [op |-> "preprocess"]
Run(g, cases, profiles) == [op |-> "run", group |-> g, cases |-> cases, profiles |-> profiles]

Ptimes(ms) == [i \in 1..Len(ms) |-> "ptime_" \o ToString(ms[i])]

run_minimal_example ==
    << Run("minimal_example", <<"default">>, <<"None">>) >>

run_advanced_example ==
    << Pre, Run("advanced_example", <<"default">>, <<"None">>) >>

run_baseline_over_all_profiles ==
    << Run("baseline_over_all_profiles", <<"default">>,
           <<"Default", "Moderate", "International", "SpikyLoss",
             "LimitedBandwidth(100)", "LimitedBandwidth(50)", "LimitedBandwidth(25)">>),
       Run("baseline_deterministic_loss",
           [i \in 1..3 |-> "loss_" \o ToString(10 * i)], <<"None">>) >>

run_dtx_tests_with_loss ==
    << Run("dtx_tests_with_loss", <<"with_dtx", "no_dtx">>,
           <<"None", "SimpleLoss(5)", "SimpleLoss(10)", "SimpleLoss(20)",
             "SimpleLoss(30)", "SimpleLoss(40)">>) >>

run_example_with_relay ==
    << Run("example_with_relay",
           <<"no_relay", "with_relay", "force_udp_relay", "force_tcp_relay">>, <<"None">>) >>

run_ptime_analysis ==
    << Pre,
       Run("ptime_over_loss", Ptimes(<<20, 40, 60, 120>>),
           <<"None", "SimpleLoss(10)", "SimpleLoss(20)", "SimpleLoss(30)",
             "SimpleLoss(40)", "SimpleLoss(50)">>),
       Run("ptime_over_bandwidth", Ptimes(<<20, 40, 60, 120>>),
           <<"None", "LimitedBandwidth(250)", "LimitedBandwidth(125)",
             "LimitedBandwidth(100)", "LimitedBandwidth(75)", "LimitedBandwidth(50)",
             "LimitedBandwidth(25)">>) >>

run_video_send_over_bandwidth ==
    << Pre, Run("video_send_over_bandwidth", <<"video">>,
                <<"None">> \o [i \in 1..11 |-> "LimitedBandwidth(" \o
                    ToString(<<2000, 1500, 1250, 1000, 750, 500, 250, 125, 100, 75, 50>>[i]) \o ")"]) >>

run_video_compare_vp8_vs_vp9 ==
    << Pre, Run("video_compare_vp8_vs_vp9", <<"vp8", "vp9">>, <<"Default">>) >>

run_changing_bandwidth_audio_test ==
    << Run("changing_bandwidth_audio_test", Ptimes(<<20, 60, 120>>), <<"Custom(limit_default)">>) >>

\* format!("ptime_{ms}_{loss}") over (20|60) x (0, 5, .., 50).
run_deterministic_loss_test ==
    << Run("deterministic_loss_test",
           [i \in 1..22 |-> "ptime_" \o ToString(IF i <= 11 THEN 20 ELSE 60)
                            \o "_" \o ToString(((i - 1) % 11) * 5)],
           <<"None">>) >>

\* The match of main(): the test set functions by name.
TestSets ==
    [n \in {"minimal_example", "advanced_example", "baseline_over_all_profiles",
            "dtx_tests_with_loss", "example_with_relay", "ptime_analysis",
            "video_send_over_bandwidth", "video_compare_vp8_vs_vp9",
            "changing_bandwidth_audio_test", "deterministic_loss_test"} |->
        CASE n = "minimal_example" -> run_minimal_example
          [] n = "advanced_example" -> run_advanced_example
          [] n = "baseline_over_all_profiles" -> run_baseline_over_all_profiles
          [] n = "dtx_tests_with_loss" -> run_dtx_tests_with_loss
          [] n = "example_with_relay" -> run_example_with_relay
          [] n = "ptime_analysis" -> run_ptime_analysis
          [] n = "video_send_over_bandwidth" -> run_video_send_over_bandwidth
          [] n = "video_compare_vp8_vs_vp9" -> run_video_compare_vp8_vs_vp9
          [] n = "changing_bandwidth_audio_test" -> run_changing_bandwidth_audio_test
          [] n = "deterministic_loss_test" -> run_deterministic_loss_test]

-----------------------------------------------------------------------------
VARIABLES
    args,    \* the parsed command line: test_sets, --build, --clean, --client-profile-dir
    pc,      \* "setup", "loop" (between test sets), "set" (inside one), or the exit:
             \* "ok", "err" (a `?` returned Err), "panic"
    queue,   \* the test set names not yet started
    set,     \* the name of the running test set
    ctype,   \* its call type: "direct" or "group"
    step,    \* the next step of the running test set
    log      \* what was done: Test::new, each step, each report

vars == <<args, pc, queue, set, ctype, step, log>>

Init ==
    /\ args \in [sets : Requests, build : BOOLEAN, clean : BOOLEAN, profileDir : BOOLEAN]
    /\ pc = "setup"
    /\ queue = <<>>
    /\ set = ""
    /\ ctype = "direct"
    /\ step = 0
    /\ log = <<>>

\* Mutant: the group call configuration is never selected.
CallTypeOfDirect(a) == "direct"

\* `test_set_name.strip_prefix("group_")`: the call type and the set's name.
CallTypeOf(a) == IF a.prefixed THEN "group" ELSE "direct"

\* An empty test_sets runs "minimal_example".
DefaultSets(s) == IF s = <<>> THEN <<[prefixed |-> FALSE, base |-> "minimal_example"]>> ELSE s

\* A `?` in main(): the program exits with Err.
Fail ==
    /\ pc' = "err"
    /\ UNCHANGED <<args, queue, set, ctype, step, log>>

(* get_client_profiles panics (expect, unwrap, panic!) when the profile    *)
(* directory cannot be listed or a file cannot be opened or parsed; the   *)
(* generated profiles cannot fail.                                         *)
LoadProfilesMayPanic(a) == a.profileDir

(* Lines 778-816: set_current_dir, the optional build and clean, and the  *)
(* client profiles (read from files, which panics on a bad file, or       *)
(* generated); then the default test set.                                  *)
Setup ==
    /\ pc = "setup"
    /\ \/ Fail                                    \* current_dir / set_current_dir
       \/ args.build /\ Fail                      \* build_images
       \/ args.clean /\ Fail                      \* clean_up / clean_network
       \/ /\ LoadProfilesMayPanic(args)
          /\ pc' = "panic"
          /\ UNCHANGED <<args, queue, set, ctype, step, log>>
       \/ /\ pc' = "loop"
          /\ queue' = DefaultSets(args.sets)
          /\ UNCHANGED <<args, set, ctype, step, log>>

(* Lines 829-854 up to the match: strip the prefix, Test::new(..)?, then  *)
(* dispatch on the name, where an unknown name panics after Test::new.     *)
NewTest ==
    /\ pc = "loop"
    /\ queue # <<>>
    /\ \/ Fail
       \/ LET a == Head(queue) IN
          /\ log' = Append(log, [ev |-> "new", set |-> a.base, type |-> CallTypeOf(a)])
          /\ set' = a.base
          /\ ctype' = CallTypeOf(a)
          /\ step' = 1
          /\ pc' = IF a.base \in DOMAIN TestSets THEN "set" ELSE "panic"
          /\ UNCHANGED <<args, queue>>

\* Mutant: the set is reported one step early.
SetDoneEarly(s, k) == k >= Len(TestSets[s])

\* The test set function has performed all its steps and returned Ok(()).
SetDone(s, k) == k > Len(TestSets[s])

(* One `test.preprocess_sounds(..).await?` or `test.run(..).await?` of the *)
(* running test set function.                                             *)
SetStep ==
    /\ pc = "set"
    /\ ~SetDone(set, step)
    /\ \/ Fail
       \/ /\ log' = Append(log, [ev |-> "step", set |-> set, type |-> ctype,
                                 what |-> TestSets[set][step]])
          /\ step' = step + 1
          /\ UNCHANGED <<args, pc, queue, set, ctype>>

\* Line 852: `test.report().await?`, then the next test set.
Report ==
    /\ pc = "set"
    /\ SetDone(set, step)
    /\ \/ Fail
       \/ /\ log' = Append(log, [ev |-> "report", set |-> set, type |-> ctype])
          /\ queue' = Tail(queue)
          /\ pc' = "loop"
          /\ UNCHANGED <<args, set, ctype, step>>

\* Line 856: every test set ran; main() returns Ok(()).
Finish ==
    /\ pc = "loop"
    /\ queue = <<>>
    /\ pc' = "ok"
    /\ UNCHANGED <<args, queue, set, ctype, step, log>>

Next == Setup \/ NewTest \/ SetStep \/ Report \/ Finish

Spec == Init /\ [][Next]_vars

-----------------------------------------------------------------------------
\* The report events of the log, and the reports a list of names asks for.
Reports == SelectSeq(log, LAMBDA e : e.ev = "report")

Expected(s) == [i \in 1..Len(s) |-> [ev |-> "report", set |-> s[i].base, type |-> IF s[i].prefixed THEN "group" ELSE "direct"]]

(* When main() returns Ok, it has run and reported every requested test    *)
(* set exactly once, in the order given, each under the call type its      *)
(* "group_" prefix selects, and "minimal_example" when none was given.     *)
OkReportsEveryRequest ==
    pc = "ok" => Reports = Expected(DefaultSets(args.sets))

(* Every report of a test set comes right after its Test::new and all of   *)
(* the steps of its function, in the function's order, under the same      *)
(* call type: a set is never reported half run.                            *)
ReportFollowsAllSteps ==
    \A i \in 1..Len(log) :
        log[i].ev = "report" =>
            LET s == log[i].set
                n == Len(TestSets[s])
            IN /\ i > n + 1
               /\ log[i - n - 1] = [ev |-> "new", set |-> s, type |-> log[i].type]
               /\ \A k \in 1..n :
                      log[i - n - 1 + k] = [ev |-> "step", set |-> s, type |-> log[i].type,
                                            what |-> TestSets[s][k]]

(* The comment above run_ptime_analysis (lines 439-442): "since all the    *)
(* tests cases are run within the set, they should all be uniquely named". *)
(* Two runs performed within one test set never share a test case name.    *)
UniqueCaseNames ==
    \A i, j \in 1..Len(log) :
        /\ i < j
        /\ log[i].ev = "step" /\ log[j].ev = "step"
        /\ log[i].what.op = "run" /\ log[j].what.op = "run"
        /\ \A k \in i..j : log[k].ev # "new"
        => \A x \in 1..Len(log[i].what.cases), y \in 1..Len(log[j].what.cases) :
               log[i].what.cases[x] # log[j].what.cases[y]
=============================================================================
