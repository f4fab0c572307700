----------------------------- MODULE CommandLine -----------------------------
(***************************************************************************)
(* The program seuYacc seen from main: it generates a parser from a file,  *)
(* or it tests itself, or it explains its use.  The self tests of both     *)
(* generators compile what they have generated and run it, each in a child *)
(* process (runSelfTests and runProcess, parse_table.cpp and               *)
(* code_generator.cpp): seuYacc looks every 100 ms whether the child has   *)
(* ended and kills it after 60 seconds, seuLex waits without a limit.      *)
(***************************************************************************)
EXTENDS Integers, Sequences, TLAPS

CONSTANT MaxLooks   \* how often the parent sleeps between two looks (kTimeoutMs / 100)

VARIABLES
  command,     \* of main: "generate", "self-test" or "usage"
  test, step,  \* the self test and the place in it
  doing,       \* "generate", "steps", "wait", "sleep", "kill", "collect", "unwind" or "ended"
  child,       \* "none", "running", "dying" with a SIGKILL on its way, or "zombie"
  looks,       \* how often the parent has slept for this child
  sigchld,     \* how SIGCHLD is handled: "default" or, inherited, "ignored"
  passed,      \* allPassed, of the cases that seuLex runs by itself
  directory,   \* the working directory: "start" or "temp"
  exitCode,    \* -1 as long as there is none
  fates,       \* history: how the children ended
  broken       \* history: the parts that failed and are no children

testVars == <<command, test, step, doing, child, looks, sigchld, passed, directory, exitCode, fates, broken>>

-----------------------------------------------------------------------------
\* "work" generates a parser or a scanner, or builds tables and compares them; a "child" is
\* the compiler, or what it has compiled; "cases" are words for an automaton.
SeuYaccTest ==
  [limited |-> TRUE,
   steps   |-> <<"work", "work", "child", "child", "work", "child", "child", "work", "child",
                 "enter", "work", "child", "work", "child", "leave">>]
SeuLexTest ==
  [limited |-> FALSE,
   steps   |-> <<"work", "child", "child", "work", "child", "child", "work", "child", "child",
                 "work", "cases", "work", "work">>]

CommandInit ==
  /\ command \in {"generate", "self-test", "usage"}
  /\ test \in {SeuYaccTest, SeuLexTest} /\ (command # "self-test" => test = SeuYaccTest)
  /\ doing = (IF command = "generate" THEN "generate" ELSE "steps")
  /\ sigchld \in {"default", "ignored"} /\ (command # "self-test" => sigchld = "default")
  /\ step = 1 /\ child = "none" /\ looks = 0 /\ passed = TRUE /\ directory = "start"
  /\ exitCode = -1 /\ fates = <<>> /\ broken = {}

-----------------------------------------------------------------------------
Ends(code) == doing' = "ended" /\ exitCode' = code
\* The call that generates a parser comes back: 1 if it threw.
GenerateReturns(code) ==
  /\ doing = "generate" /\ Ends(code)
  /\ UNCHANGED <<command, test, step, child, looks, sigchld, passed, directory, fates, broken>>
ExplainUse ==
  /\ command = "usage" /\ doing = "steps"
  /\ Ends(1)
  /\ UNCHANGED <<command, test, step, child, looks, sigchld, passed, directory, fates, broken>>

-----------------------------------------------------------------------------
\* A step of the self test succeeds, or throws.
Begins(kind) == /\ command = "self-test" /\ doing = "steps"
                /\ step \in DOMAIN test.steps /\ test.steps[step] = kind
Passes == doing' = "steps" /\ step' = step + 1
Throws == doing' = "unwind" /\ UNCHANGED step
Tries(kind) ==
  \/ Passes /\ UNCHANGED broken
  \/ Throws /\ broken' = broken \cup {kind}

Work ==
  /\ Begins("work") /\ Tries("work")
  /\ UNCHANGED <<command, test, child, looks, sigchld, passed, directory, exitCode, fates>>

Cases ==
  /\ Begins("cases") /\ Passes
  /\ passed' \in {passed, FALSE}
  /\ UNCHANGED <<command, test, child, looks, sigchld, directory, exitCode, fates, broken>>

\* getcwd and chdir before the block of try, and the chdir behind it.
Enter ==
  /\ Begins("enter") /\ Tries("enter")
  /\ directory' = IF broken' = broken THEN "temp" ELSE directory
  /\ UNCHANGED <<command, test, child, looks, sigchld, passed, exitCode, fates>>
Leave ==
  /\ Begins("leave") /\ Tries("leave")
  /\ directory' = IF broken' = broken THEN "start" ELSE directory
  /\ UNCHANGED <<command, test, child, looks, sigchld, passed, exitCode, fates>>

Return ==
  /\ command = "self-test" /\ doing = "steps" /\ step = Len(test.steps) + 1
  /\ Ends(IF passed THEN 0 ELSE 1)
  /\ UNCHANGED <<command, test, step, child, looks, sigchld, passed, directory, fates, broken>>

\* An exception, through the handler that goes back to the directory when it comes from the
\* block of try, to the one of main.  The way back may be refused, which nobody notices.
InTry == directory = "temp" /\ test.steps[step] # "leave"
Unwind ==
  /\ doing = "unwind" /\ Ends(1)
  /\ \/ /\ directory' = IF InTry THEN "start" ELSE directory
        /\ UNCHANGED broken
     \/ InTry /\ broken' = broken \cup {"back"} /\ UNCHANGED directory
  /\ UNCHANGED <<command, test, step, child, looks, sigchld, passed, fates>>

-----------------------------------------------------------------------------
\* runProcess.  Without a disposition for SIGCHLD the system keeps a child that has ended
\* until its parent waits for it; with SIG_IGN it does not, and the parent finds none.
Fork ==
  /\ Begins("child")
  /\ \/ doing' = "wait" /\ child' = "running" /\ looks' = 0 /\ UNCHANGED <<step, broken>>
     \/ Throws /\ broken' = broken \cup {"child"} /\ UNCHANGED <<child, looks>>
  /\ UNCHANGED <<command, test, sigchld, passed, directory, exitCode, fates>>

\* The child ends by itself, at any time; too late once the parent has looked for the last time.
Ended(fate) ==
  /\ child' = IF sigchld = "ignored" THEN "none" ELSE "zombie"
  /\ fates' = Append(fates, fate)
  /\ UNCHANGED <<command, test, step, doing, looks, sigchld, passed, directory, exitCode, broken>>
ChildEnds ==
  /\ child = "running"
  /\ \E fate \in {"success", "failure", "signal"} : Ended(IF doing = "wait" \/ doing = "sleep" THEN fate ELSE "late")
ChildDies == child = "dying" /\ Ended("killed")

\* waitpid returns: the status of the child, or an error when there is none.
Reap ==
  /\ child \in {"zombie", "none"} /\ child' = "none"
  /\ IF child = "zombie" /\ fates[Len(fates)] = "success" THEN Passes ELSE Throws

Look ==
  /\ doing = "wait" /\ test.limited
  /\ \/ Reap
     \/ child = "running" /\ doing' = (IF looks >= MaxLooks THEN "kill" ELSE "sleep") /\ UNCHANGED <<step, child>>
  /\ UNCHANGED <<command, test, looks, sigchld, passed, directory, exitCode, fates, broken>>

\* A slip: the time that was slept is not counted.
MutSleep ==
  /\ doing = "sleep" /\ doing' = "wait"
  /\ UNCHANGED <<command, test, step, child, looks, sigchld, passed, directory, exitCode, fates, broken>>
Sleep ==
  /\ doing = "sleep" /\ doing' = "wait" /\ looks' = looks + 1
  /\ UNCHANGED <<command, test, step, child, sigchld, passed, directory, exitCode, fates, broken>>

\* A slip: the parent does not wait for the child that it kills.
MutKill ==
  /\ doing = "kill" /\ Throws
  /\ child' = IF child = "running" THEN "dying" ELSE child
  /\ UNCHANGED <<command, test, looks, sigchld, passed, directory, exitCode, fates, broken>>
\* The child may have ended since the last look: a signal to a zombie, or to none, does nothing.
Kill ==
  /\ doing = "kill" /\ doing' = "collect"
  /\ child' = IF child = "running" THEN "dying" ELSE child
  /\ UNCHANGED <<command, test, step, looks, sigchld, passed, directory, exitCode, fates, broken>>
Collect ==
  /\ doing = "collect" /\ child \in {"zombie", "none"} /\ child' = "none" /\ Throws
  /\ UNCHANGED <<command, test, looks, sigchld, passed, directory, exitCode, fates, broken>>

Block ==
  /\ doing = "wait" /\ ~test.limited /\ Reap
  /\ UNCHANGED <<command, test, looks, sigchld, passed, directory, exitCode, fates, broken>>

-----------------------------------------------------------------------------
Parent ==
  \/ ExplainUse \/ Work \/ Cases \/ Enter \/ Leave \/ Return \/ Unwind
  \/ Fork \/ Look \/ Sleep \/ Kill \/ Collect \/ Block
CommandNext == (\E code \in {0, 1} : GenerateReturns(code)) \/ Parent \/ ChildEnds \/ ChildDies
CommandSpec == CommandInit /\ [][CommandNext]_testVars

-----------------------------------------------------------------------------
\* Whichever way runProcess comes back, its child is gone, as a process and as a zombie, so
\* that there is never more than one; and runSelfTests leaves the process in the directory
\* where it began, unless the system refuses the way back.
NothingLeftBehind ==
  /\ doing \in {"steps", "unwind", "ended"} => child = "none"
  /\ doing = "ended" /\ broken \cap {"leave", "back"} = {} => directory = "start"

\* A self test that has a limit ends whatever its children do, and one without if none of them
\* stays for ever; it succeeds exactly if every part of it did, which includes that each child
\* ended with 0 before the last look at it, and that it was there to be waited for.
Deserved == passed /\ broken = {} /\ sigchld = "default" /\ \A k \in DOMAIN fates : fates[k] = "success"
SelfTestDecides ==
  command = "self-test" /\ (test.limited \/ []<>(child # "running"))
    => <>(doing = "ended" /\ exitCode = (IF Deserved THEN 0 ELSE 1))

-----------------------------------------------------------------------------
(***************************************************************************)
(* Whatever children do and whatever fails, the self tests leave no child  *)
(* behind and the process in the directory where it began.                 *)
(***************************************************************************)
\* runProcess has not come back: a child may be there.
Watching == {"wait", "sleep", "kill", "collect"}

\* Where a child may be, the step is one that runs a child; nothing has failed as long as no
\* exception is on its way; and one that comes from the last step of the block, the way back,
\* has left its mark.  Away from its directory the process is in the block of the test of
\* seuYacc, or at its end, unless the way back was refused.
Whereabouts ==
  /\ test \in {SeuYaccTest, SeuLexTest} /\ step \in Nat \ {0}
  /\ doing \in {"generate", "steps", "unwind", "ended"} \cup Watching
  /\ doing \in Watching => step \in DOMAIN test.steps /\ test.steps[step] = "child"
  /\ doing \in {"generate", "steps", "unwind", "ended"} => child = "none"
  /\ doing \in {"generate", "steps"} \cup Watching => broken = {}
  /\ doing = "unwind" => step \in DOMAIN test.steps /\ (test.steps[step] = "leave" => "leave" \in broken)
  /\ directory \in {"start", "temp"}
  /\ directory = "temp" =>
       /\ command = "self-test" /\ test = SeuYaccTest /\ step \in 11..15 /\ doing # "generate"
       /\ doing = "ended" => broken \cap {"leave", "back"} # {}

-----------------------------------------------------------------------------
\* Where the two tests enter and leave a directory.
LEMMA TestPlaces ==
  ASSUME NEW t \in {SeuYaccTest, SeuLexTest}, NEW k \in DOMAIN t.steps
  PROVE  /\ k \in Nat \ {0} /\ k + 1 \in Nat \ {0}
         /\ t.steps[k] = "enter" => t = SeuYaccTest /\ k = 10
         /\ t.steps[k] = "leave" <=> t = SeuYaccTest /\ k = 15
         /\ k \in 11..15 /\ k # 15 => k + 1 \in 11..15
  BY DEF SeuYaccTest, SeuLexTest

LEMMA YaccLength == Len(SeuYaccTest.steps) = 15
  BY DEF SeuYaccTest

-----------------------------------------------------------------------------
LEMMA Started == CommandInit => Whereabouts
  BY DEF CommandInit, Whereabouts, Watching

LEMMA Kept == Whereabouts /\ [CommandNext]_testVars => Whereabouts'
  <1> SUFFICES ASSUME Whereabouts, [CommandNext]_testVars
               PROVE  Whereabouts'
    OBVIOUS
  <1> USE YaccLength DEF Whereabouts, Watching
  <1>0. ASSUME step \in DOMAIN test.steps
        PROVE  /\ step + 1 \in Nat \ {0}
               /\ test.steps[step] = "enter" => test = SeuYaccTest /\ step = 10
               /\ test.steps[step] = "leave" <=> test = SeuYaccTest /\ step = 15
               /\ step \in 11..15 /\ step # 15 => step + 1 \in 11..15
    BY <1>0, TestPlaces
  <1>1. CASE \E code \in {0, 1} : GenerateReturns(code)
    BY <1>0, <1>1 DEF GenerateReturns, Ends
  <1>2. CASE ExplainUse
    BY <1>0, <1>2 DEF ExplainUse, Ends
  <1>3. CASE Work
    BY <1>0, <1>3 DEF Work, Begins, Tries, Passes, Throws
  <1>4. CASE Cases
    BY <1>0, <1>4 DEF Cases, Begins, Passes
  <1>5. CASE Enter
    BY <1>0, <1>5 DEF Enter, Begins, Tries, Passes, Throws
  <1>6. CASE Leave
    BY <1>0, <1>6 DEF Leave, Begins, Tries, Passes, Throws
  <1>7. CASE Return
    <2>1. step = Len(test.steps) + 1
      BY <1>7 DEF Return
    <2>2. ~(test = SeuYaccTest /\ step \in 11..15)
      BY <2>1, YaccLength, SMT
    <2>3. directory = "start"
      BY <2>2
    <2> QED  BY <1>7, <2>3 DEF Return, Ends
  <1>8. CASE Unwind
    BY <1>0, <1>8 DEF Unwind, Ends, InTry
  <1>9. CASE Fork
    BY <1>0, <1>9 DEF Fork, Begins, Throws
  <1>10. CASE Look
    BY <1>0, <1>10 DEF Look, Reap, Passes, Throws
  <1>11. CASE Sleep
    BY <1>0, <1>11 DEF Sleep
  <1>12. CASE Kill
    BY <1>0, <1>12 DEF Kill
  <1>13. CASE Collect
    BY <1>0, <1>13 DEF Collect, Throws
  <1>14. CASE Block
    BY <1>0, <1>14 DEF Block, Reap, Passes, Throws
  <1>15. CASE ChildEnds
    BY <1>0, <1>15 DEF ChildEnds, Ended
  <1>16. CASE ChildDies
    BY <1>0, <1>16 DEF ChildDies, Ended
  <1>17. CASE UNCHANGED testVars
    BY <1>17 DEF testVars
  <1> QED  BY <1>1, <1>2, <1>3, <1>4, <1>5, <1>6, <1>7, <1>8, <1>9, <1>10, <1>11, <1>12, <1>13, <1>14, <1>15, <1>16, <1>17 DEF CommandNext, Parent

\* Whatever the children do and whichever part fails, no call of runProcess leaves a child
\* behind, running or as a zombie, and the process ends in the directory where it began,
\* unless the way back was refused.
THEOREM NothingIsLeftBehind == CommandSpec => []NothingLeftBehind
  <1>1. Whereabouts => NothingLeftBehind
    BY DEF Whereabouts, NothingLeftBehind
  <1> QED  BY <1>1, Started, Kept, PTL DEF CommandSpec
=============================================================================
