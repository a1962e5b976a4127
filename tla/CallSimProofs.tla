---------------------------- MODULE CallSimProofs ----------------------------
(***************************************************************************)
(* Proof, for every set of command lines, that the call simulator reports  *)
(* a test set only after its Test::new and every step of its function, in  *)
(* order and under one call type (ReportFollowsAllSteps).                  *)
(***************************************************************************)
EXTENDS CallSim, SequenceTheorems, TLAPS

\* The steps the test set functions perform.
Steps == UNION {{TestSets[n][k] : k \in 1..Len(TestSets[n])} : n \in DOMAIN TestSets}

\* Test set names: the command line's, and those of the match of main().
Names == STRING \cup DOMAIN TestSets

\* Command-line test set names, the default one included.
Args == [prefixed : BOOLEAN, base : Names]

\* The events main() logs.
Event ==
    [ev : {"new", "report"}, set : Names, type : {"direct", "group"}]
    \cup [ev : {"step"}, set : Names, type : {"direct", "group"}, what : Steps]

TypeOK ==
    /\ args \in [sets : Requests, build : BOOLEAN, clean : BOOLEAN, profileDir : BOOLEAN]
    /\ pc \in {"setup", "loop", "set", "ok", "err", "panic"}
    /\ queue \in Seq(Args)
    /\ ctype \in {"direct", "group"}
    /\ step \in Nat
    /\ log \in Seq(Event)

(* While a test set function runs, its Test::new is the log entry step     *)
(* entries back, and after it come the steps done so far, in order: the    *)
(* tail of the log is the report-to-be's prefix.                           *)
InSet ==
    pc = "set" =>
        /\ queue # <<>>
        /\ set \in DOMAIN TestSets
        /\ step \in 1..Len(TestSets[set]) + 1
        /\ step <= Len(log)
        /\ log[Len(log) - step + 1] = [ev |-> "new", set |-> set, type |-> ctype]
        /\ \A k \in 1..step - 1 :
               log[Len(log) - step + 1 + k] = [ev |-> "step", set |-> set, type |-> ctype,
                                              what |-> TestSets[set][k]]

(* Only a test set main() dispatched to is ever reported.                  *)
ReportsKnown ==
    \A i \in 1..Len(log) : log[i].ev = "report" => log[i].set \in DOMAIN TestSets

IInv == TypeOK /\ InSet /\ ReportsKnown /\ ReportFollowsAllSteps

\* ReportFollowsAllSteps at one position of a log l.
FollowsAt(l, i) ==
    l[i].ev = "report" =>
        LET s == l[i].set
            n == Len(TestSets[s])
        IN /\ i > n + 1
           /\ l[i - n - 1] = [ev |-> "new", set |-> s, type |-> l[i].type]
           /\ \A k \in 1..n :
                  l[i - n - 1 + k] = [ev |-> "step", set |-> s, type |-> l[i].type,
                                      what |-> TestSets[s][k]]

-----------------------------------------------------------------------------
(* Every test set function performs a finite list of steps.                *)
LEMMA TestSetsLen ==
    \A n \in DOMAIN TestSets : Len(TestSets[n]) \in Nat
<1> SUFFICES ASSUME NEW n \in DOMAIN TestSets PROVE Len(TestSets[n]) \in Nat
  OBVIOUS
<1>1. TestSets[n] \in {run_minimal_example, run_advanced_example,
                       run_baseline_over_all_profiles, run_dtx_tests_with_loss,
                       run_example_with_relay, run_ptime_analysis,
                       run_video_send_over_bandwidth, run_video_compare_vp8_vs_vp9,
                       run_changing_bandwidth_audio_test, run_deterministic_loss_test}
  BY DEF TestSets
<1>2. /\ Len(run_minimal_example) = 1
      /\ Len(run_advanced_example) = 2
      /\ Len(run_baseline_over_all_profiles) = 2
      /\ Len(run_dtx_tests_with_loss) = 1
      /\ Len(run_example_with_relay) = 1
      /\ Len(run_ptime_analysis) = 3
      /\ Len(run_video_send_over_bandwidth) = 2
      /\ Len(run_video_compare_vp8_vs_vp9) = 2
      /\ Len(run_changing_bandwidth_audio_test) = 1
      /\ Len(run_deterministic_loss_test) = 1
  BY DEF run_minimal_example, run_advanced_example, run_baseline_over_all_profiles,
         run_dtx_tests_with_loss, run_example_with_relay, run_ptime_analysis,
         run_video_send_over_bandwidth, run_video_compare_vp8_vs_vp9,
         run_changing_bandwidth_audio_test, run_deterministic_loss_test
<1> QED
  BY <1>1, <1>2

(* ReportFollowsAllSteps is FollowsAt at every position of the log.        *)
LEMMA FollowsAtAll == ReportFollowsAllSteps <=> \A i \in 1..Len(log) : FollowsAt(log, i)
BY DEF ReportFollowsAllSteps, FollowsAt

(* Appending to a log keeps every report it already had preceded by its    *)
(* Test::new and steps, since those entries lie before the report.         *)
LEMMA FollowsKept ==
    ASSUME NEW S, NEW l \in Seq(S), NEW e \in S,
           \A i \in 1..Len(l) : l[i].ev = "report" => l[i].set \in DOMAIN TestSets,
           \A i \in 1..Len(l) : FollowsAt(l, i)
    PROVE  \A i \in 1..Len(l) : FollowsAt(Append(l, e), i)
<1> SUFFICES ASSUME NEW i \in 1..Len(l), Append(l, e)[i].ev = "report"
             PROVE  FollowsAt(Append(l, e), i)
  BY DEF FollowsAt
<1>1. /\ Len(Append(l, e)) = Len(l) + 1
      /\ \A j \in 1..Len(l) : Append(l, e)[j] = l[j]
  BY AppendProperties
<1>2. l[i].ev = "report" /\ l[i].set \in DOMAIN TestSets /\ FollowsAt(l, i)
  BY <1>1
<1> DEFINE s == l[i].set
           n == Len(TestSets[s])
<1>3. n \in Nat
  BY <1>2, TestSetsLen DEF FollowsAt
<1>4. /\ i > n + 1
      /\ l[i - n - 1] = [ev |-> "new", set |-> s, type |-> l[i].type]
      /\ \A k \in 1..n :
             l[i - n - 1 + k] = [ev |-> "step", set |-> s, type |-> l[i].type,
                                 what |-> TestSets[s][k]]
  BY <1>2 DEF FollowsAt
<1>5. /\ i - n - 1 \in 1..Len(l)
      /\ \A k \in 1..n : i - n - 1 + k \in 1..Len(l)
  BY <1>3, <1>4
<1> QED
  BY <1>1, <1>4, <1>5 DEF FollowsAt

(* A step that appends an event to the log keeps the log typed and every   *)
(* report it had in place; the new event, if a report, must be in place.   *)
LEMMA LogAppend ==
    ASSUME NEW e \in Event, log \in Seq(Event), ReportsKnown, ReportFollowsAllSteps,
           log' = Append(log, e),
           e.ev = "report" => e.set \in DOMAIN TestSets /\ FollowsAt(log', Len(log) + 1)
    PROVE  log' \in Seq(Event) /\ ReportsKnown' /\ ReportFollowsAllSteps'
<1>1. /\ log' \in Seq(Event)
      /\ Len(log') = Len(log) + 1
      /\ \A j \in 1..Len(log) : log'[j] = log[j]
      /\ log'[Len(log) + 1] = e
  BY AppendProperties
<1>2. \A i \in 1..Len(log) : FollowsAt(log', i)
  <2>1. /\ \A i \in 1..Len(log) : log[i].ev = "report" => log[i].set \in DOMAIN TestSets
        /\ \A i \in 1..Len(log) : FollowsAt(log, i)
    BY DEF ReportsKnown, ReportFollowsAllSteps, FollowsAt
  <2> QED
    BY <1>1, <2>1, FollowsKept
<1>3. ReportsKnown'
  BY <1>1 DEF ReportsKnown
<1>4. \A i \in 1..Len(log') : FollowsAt(log', i)
  <2>1. FollowsAt(log', Len(log) + 1)
    <3>1. CASE e.ev = "report"
      BY <3>1
    <3>2. CASE e.ev # "report"
      BY <1>1, <3>2 DEF FollowsAt
    <3> QED
      BY <3>1, <3>2
  <2>2. Len(log) \in Nat
    BY LenProperties
  <2> QED
    BY <1>1, <1>2, <2>1, <2>2
<1> QED
  BY <1>1, <1>3, <1>4 DEF ReportFollowsAllSteps, FollowsAt

-----------------------------------------------------------------------------
LEMMA InitIInv == Init => IInv
<1> SUFFICES ASSUME Init PROVE IInv
  OBVIOUS
<1>0. /\ args \in [sets : Requests, build : BOOLEAN, clean : BOOLEAN, profileDir : BOOLEAN]
      /\ pc = "setup" /\ queue = <<>> /\ ctype = "direct" /\ step = 0 /\ log = <<>>
  BY Zenon DEF Init
<1>1. <<>> \in Seq(Args) /\ <<>> \in Seq(Event) /\ Len(<<>>) = 0
  BY EmptySeq
<1>3. TypeOK
  BY <1>0, <1>1 DEF TypeOK
<1>4. InSet
  BY <1>0 DEF InSet
<1>5. 1..Len(log) = {}
  BY <1>0, <1>1
<1>6. ReportsKnown /\ ReportFollowsAllSteps
  BY <1>5, Zenon DEF ReportsKnown, ReportFollowsAllSteps
<1> QED
  BY <1>3, <1>4, <1>6 DEF IInv

LEMMA NextIInv == IInv /\ [Next]_vars => IInv'
<1> SUFFICES ASSUME IInv, [Next]_vars PROVE IInv'
  OBVIOUS
<1>0. TypeOK /\ InSet /\ ReportsKnown /\ ReportFollowsAllSteps
  BY DEF IInv
<1>1. CASE Setup
  <2>1. /\ UNCHANGED <<args, set, ctype, step, log>>
        /\ pc' \in {"err", "panic", "loop"}
        /\ queue' = queue \/ queue' = DefaultSets(args.sets)
    BY <1>1 DEF Setup, Fail
  <2>2. DefaultSets(args.sets) \in Seq(Args)
    <3>1. args.sets \in Seq(Args)
      <4>1. Arg \subseteq Args
        BY DEF Arg, Args, Names
      <4> QED
        BY <1>0, <4>1, SeqMonotonic, CallSimAssumption DEF TypeOK
    <3>2. <<[prefixed |-> FALSE, base |-> "minimal_example"]>> \in Seq(Args)
      <4>1. "minimal_example" \in Names
        BY DEF Names, TestSets
      <4> QED
        BY <4>1 DEF Args
    <3> QED
      BY <3>1, <3>2 DEF DefaultSets
  <2> QED
    BY <1>0, <2>1, <2>2 DEF IInv, TypeOK, InSet, ReportsKnown, ReportFollowsAllSteps
<1>2. CASE NewTest
  <2>1. pc = "loop" /\ queue # <<>>
    BY <1>2 DEF NewTest
  <2>2. CASE Fail
    BY <1>0, <2>2 DEF Fail, IInv, TypeOK, InSet, ReportsKnown, ReportFollowsAllSteps
  <2>3. CASE ~Fail
    <3> DEFINE a == Head(queue)
               e == [ev |-> "new", set |-> a.base, type |-> CallTypeOf(a)]
    <3>1. /\ log' = Append(log, e)
          /\ set' = a.base
          /\ ctype' = CallTypeOf(a)
          /\ step' = 1
          /\ pc' = IF a.base \in DOMAIN TestSets THEN "set" ELSE "panic"
          /\ UNCHANGED <<args, queue>>
      BY <1>2, <2>3 DEF NewTest
    <3>2. a \in Args
      BY <1>0, <2>1, HeadTailProperties DEF TypeOK
    <3>3. e \in Event /\ e.ev # "report"
      BY <3>2 DEF Args, Event, CallTypeOf
    <3>4. log' \in Seq(Event) /\ ReportsKnown' /\ ReportFollowsAllSteps'
      BY <1>0, <3>1, <3>3, LogAppend DEF TypeOK
    <3>5. Len(log') = Len(log) + 1 /\ log'[Len(log')] = e /\ Len(log) \in Nat
      BY <1>0, <3>1, <3>3, AppendProperties DEF TypeOK
    <3>6. InSet'
      <4> SUFFICES ASSUME pc' = "set" PROVE InSet'
        BY DEF InSet
      <4>1. a.base \in DOMAIN TestSets /\ Len(TestSets[a.base]) \in Nat
        BY <3>1, TestSetsLen
      <4> QED
        BY <2>1, <3>1, <3>5, <4>1 DEF InSet
    <3>7. TypeOK'
      BY <1>0, <3>1, <3>4 DEF TypeOK, CallTypeOf
    <3> QED
      BY <3>4, <3>6, <3>7 DEF IInv
  <2> QED
    BY <2>2, <2>3
<1>3. CASE SetStep
  <2> DEFINE n == Len(TestSets[set])
             b == Len(log) - step + 1
  <2>1. /\ pc = "set" /\ set \in DOMAIN TestSets /\ n \in Nat
        /\ step \in 1..n /\ step <= Len(log) /\ Len(log) \in Nat
        /\ log[b] = [ev |-> "new", set |-> set, type |-> ctype]
        /\ \A k \in 1..step - 1 :
               log[b + k] = [ev |-> "step", set |-> set, type |-> ctype,
                             what |-> TestSets[set][k]]
    <3>1. pc = "set" /\ ~SetDone(set, step)
      BY <1>3 DEF SetStep
    <3>2. set \in DOMAIN TestSets /\ n \in Nat
      BY <1>0, <3>1, TestSetsLen DEF InSet
    <3> QED
      BY <1>0, <3>1, <3>2, LenProperties DEF InSet, SetDone, TypeOK
  <2>2. CASE Fail
    BY <1>0, <2>2 DEF Fail, IInv, TypeOK, InSet, ReportsKnown, ReportFollowsAllSteps
  <2>3. CASE ~Fail
    <3> DEFINE e == [ev |-> "step", set |-> set, type |-> ctype, what |-> TestSets[set][step]]
    <3>1. /\ log' = Append(log, e)
          /\ step' = step + 1
          /\ UNCHANGED <<args, pc, queue, set, ctype>>
      BY <1>3, <2>3 DEF SetStep
    <3>2. e \in Event /\ e.ev # "report"
      <4>1. set \in Names /\ TestSets[set][step] \in Steps
        BY <2>1 DEF Names, Steps
      <4> QED
        BY <1>0, <4>1 DEF Event, TypeOK
    <3>3. log' \in Seq(Event) /\ ReportsKnown' /\ ReportFollowsAllSteps'
      BY <1>0, <3>1, <3>2, LogAppend DEF TypeOK
    <3>4. /\ Len(log') = Len(log) + 1
          /\ \A j \in 1..Len(log) : log'[j] = log[j]
          /\ log'[Len(log) + 1] = e
      BY <1>0, <3>1, <3>2, AppendProperties DEF TypeOK
    <3>5. InSet'
      <4>1. Len(log') - step' + 1 = b /\ b \in 1..Len(log) /\ step' \in 1..n + 1
        BY <2>1, <3>1, <3>4
      <4>2. log'[b] = [ev |-> "new", set |-> set, type |-> ctype]
        BY <2>1, <3>4, <4>1
      <4>3. \A k \in 1..step' - 1 :
               log'[b + k] = [ev |-> "step", set |-> set, type |-> ctype,
                              what |-> TestSets[set][k]]
        <5>0. step' - 1 = step
          BY <2>1, <3>1
        <5> SUFFICES ASSUME NEW k \in 1..step
                     PROVE  log'[b + k] = [ev |-> "step", set |-> set, type |-> ctype,
                                           what |-> TestSets[set][k]]
          BY <5>0, Zenon
        <5>1. CASE k < step
          BY <2>1, <3>4, <5>1
        <5>2. CASE k = step
          BY <2>1, <3>4, <5>2
        <5> QED
          BY <2>1, <5>1, <5>2
      <4>4. queue' # <<>> /\ step' <= Len(log')
        BY <1>0, <2>1, <3>1, <3>4 DEF InSet
      <4>5. log'[Len(log') - step' + 1] = [ev |-> "new", set |-> set, type |-> ctype]
        BY <4>1, <4>2
      <4> QED
        BY <2>1, <3>1, <4>1, <4>3, <4>4, <4>5 DEF InSet
    <3>6. TypeOK'
      BY <1>0, <3>1, <3>3 DEF TypeOK
    <3> QED
      BY <3>3, <3>5, <3>6 DEF IInv
  <2> QED
    BY <2>2, <2>3
<1>4. CASE Report
  <2> DEFINE n == Len(TestSets[set])
             b == Len(log) - step + 1
  <2>1. /\ pc = "set" /\ queue # <<>> /\ set \in DOMAIN TestSets /\ n \in Nat
        /\ step = n + 1 /\ step <= Len(log) /\ Len(log) \in Nat
        /\ log[b] = [ev |-> "new", set |-> set, type |-> ctype]
        /\ \A k \in 1..step - 1 :
               log[b + k] = [ev |-> "step", set |-> set, type |-> ctype,
                             what |-> TestSets[set][k]]
    <3>1. pc = "set" /\ SetDone(set, step)
      BY <1>4 DEF Report
    <3>2. set \in DOMAIN TestSets /\ n \in Nat
      BY <1>0, <3>1, TestSetsLen DEF InSet
    <3> QED
      BY <1>0, <3>1, <3>2, LenProperties DEF InSet, SetDone, TypeOK
  <2>2. CASE Fail
    BY <1>0, <2>2 DEF Fail, IInv, TypeOK, InSet, ReportsKnown, ReportFollowsAllSteps
  <2>3. CASE ~Fail
    <3> DEFINE e == [ev |-> "report", set |-> set, type |-> ctype]
    <3>1. /\ log' = Append(log, e)
          /\ queue' = Tail(queue)
          /\ pc' = "loop"
          /\ UNCHANGED <<args, set, ctype, step>>
      BY <1>4, <2>3 DEF Report
    <3>2. e \in Event
      BY <1>0, <2>1 DEF Event, Names, TypeOK
    <3>3. /\ Len(log') = Len(log) + 1
          /\ \A j \in 1..Len(log) : log'[j] = log[j]
          /\ log'[Len(log) + 1] = e
      BY <1>0, <3>1, <3>2, AppendProperties DEF TypeOK
    <3>4. FollowsAt(log', Len(log) + 1)
      <4>1. Len(log) + 1 > n + 1 /\ (Len(log) + 1) - n - 1 = b /\ b \in 1..Len(log)
        BY <2>1
      <4>2. log'[b] = [ev |-> "new", set |-> set, type |-> ctype]
        BY <2>1, <3>3, <4>1
      <4>3. \A k \in 1..n :
               log'[b + k] = [ev |-> "step", set |-> set, type |-> ctype,
                              what |-> TestSets[set][k]]
        <5> SUFFICES ASSUME NEW k \in 1..n
                     PROVE  log'[b + k] = [ev |-> "step", set |-> set, type |-> ctype,
                                           what |-> TestSets[set][k]]
          OBVIOUS
        <5>1. k \in 1..step - 1 /\ b + k \in 1..Len(log)
          BY <2>1
        <5> QED
          BY <2>1, <3>3, <5>1
      <4>4. /\ log'[Len(log) + 1].set = set
            /\ log'[Len(log) + 1].type = ctype
        BY <3>3
      <4> QED
        BY <4>1, <4>2, <4>3, <4>4 DEF FollowsAt
    <3>5. log' \in Seq(Event) /\ ReportsKnown' /\ ReportFollowsAllSteps'
      BY <1>0, <2>1, <3>1, <3>2, <3>4, LogAppend DEF TypeOK
    <3>6. Tail(queue) \in Seq(Args)
      BY <1>0, <2>1, HeadTailProperties DEF TypeOK
    <3>7. TypeOK' /\ InSet'
      BY <1>0, <3>1, <3>5, <3>6 DEF TypeOK, InSet
    <3> QED
      BY <3>5, <3>7 DEF IInv
  <2> QED
    BY <2>2, <2>3
<1>5. CASE Finish
  BY <1>0, <1>5 DEF Finish, IInv, TypeOK, InSet, ReportsKnown, ReportFollowsAllSteps
<1>6. CASE UNCHANGED vars
  BY <1>0, <1>6 DEF vars, IInv, TypeOK, InSet, ReportsKnown, ReportFollowsAllSteps
<1> QED
  BY <1>1, <1>2, <1>3, <1>4, <1>5, <1>6 DEF Next

(* Lines 829-854: test.report() runs only after Test::new and every step   *)
(* of the set's function, in order: the log holds, right before each       *)
(* report, the set's Test::new and then exactly its steps, under the call  *)
(* type its "group_" prefix chose; a set is never reported half run, and   *)
(* a failing step ends main() before the report.                           *)
THEOREM ReportsFollowSteps == Spec => []ReportFollowsAllSteps
<1>1. IInv => ReportFollowsAllSteps
  BY DEF IInv
<1> QED
  BY <1>1, InitIInv, NextIInv, PTL DEF Spec

====
