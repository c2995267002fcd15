-------------------------- MODULE CommandLineProofs --------------------------
(***************************************************************************)
(* What the exit codes say, and what a directory made by `gen` holds, for  *)
(* every grammar, every sequence of commands and every interference.       *)
(***************************************************************************)
EXTENDS CommandLine, TLAPS

-----------------------------------------------------------------------------
(* The inductive invariants.                                               *)

(* What has been found out before a stage is arrived at.                   *)
Passed ==
  /\ stage \in {"idle", "loading", "loaded", "opening", "reading", "making", "generating", "exited"}
  /\ stage # "idle" => command \in Commands
  /\ stage \notin {"idle", "exited"} =>
       ~faulted /\ ~(command.name = "match" /\ command.source = "none")
  /\ stage \in {"loaded", "opening", "reading", "making", "generating"} =>
       command.grammar = "sound"
  /\ stage \in {"opening", "reading"} => command.name = "match" /\ CanRecognize(command.rule)
  /\ stage \in {"making", "generating"} => command.name = "gen" /\ CanGenerate(command.rule)
  /\ stage \in {"loading", "loaded", "making"} => index = 0
  /\ stage = "generating" /\ index # 0 => Lang[command.rule] # {}

(* What was met is what was listed and is not to be read any more, and the *)
(* two flags sum it up.                                                    *)
Met ==
  /\ stage \notin {"reading", "exited"} =>
       listing = {} /\ DOMAIN met = {} /\ ~errored /\ ~rejected
  /\ stage = "reading" =>
       /\ command.source = "dir"
       /\ entries \subseteq listing /\ DOMAIN met = listing \ entries
       /\ errored <=> \E i \in DOMAIN met : met[i].limit \/ met[i].read \notin Texts
       /\ rejected <=> \E i \in DOMAIN met : /\ ~met[i].limit /\ met[i].read \in Texts
                                             /\ met[i].read \notin Lang[command.rule]

ExitInv == Passed /\ Met /\ ExitExact

(* The strings made so far are in the directory, but for those that somebody *)
(* else has touched since; and of what `gen` wrote nothing else is read.   *)
Kept ==
  /\ index \in Nat
  /\ stage = "generating" /\ command.out =>
       \A i \in 0 .. index - 1 : i \in DOMAIN origin /\ origin[i] \in {command.rule, None}
  /\ stage = "reading" =>
       \A i \in DOMAIN origin : origin[i] # None =>
         i \in listing /\ (i \in DOMAIN met => met[i].read \in {dir[i], None})

PairInv == Kept /\ PairsWithMatch

-----------------------------------------------------------------------------
(* The exit code.                                                          *)

LEMMA ExitInit == Init => ExitInv
BY DEF Init, ExitInv, Passed, Met, ExitExact, Nothing

(* The single input of `match --input` and `match --file`.                 *)
LEMMA ReportCounted ==
  ASSUME ExitInv, NEW i, NEW read, stage = "opening", ReportOne(i, read)
  PROVE  ExitInv'
<1> PICK limit \in BOOLEAN :
      /\ Answer(CodeOf(Verdict(read, limit)))
      /\ met' = [j \in {i} |-> [read |-> read, limit |-> limit]]
  BY DEF ReportOne
<1>1. /\ listing' = {i} /\ DOMAIN met' = {i}
      /\ met'[i].read = read /\ met'[i].limit = limit
      /\ UNCHANGED <<command, faulted>> /\ stage' = "exited"
      /\ exit' = CodeOf(Verdict(read, limit))
  BY DEF ReportOne, Answer
<1>2. Passed' /\ Met'
  BY <1>1 DEF ExitInv, Passed, Met
<1>3. ~Refused' /\ ~faulted'
  BY <1>1 DEF ExitInv, Passed, Refused, CanRecognize
<1>4. Unanswered' <=> limit \/ read \notin Texts
  BY <1>1, <1>3 DEF Unanswered
<1>5. ExitExact'
  BY <1>1, <1>4 DEF ExitExact, Verdict, Decide, CodeOf, OK, NO, ERROR
<1>6. QED
  BY <1>2, <1>5 DEF ExitInv

LEMMA ReadCounted ==
  ASSUME ExitInv, ReadEntry
  PROVE  ExitInv'
<1> PICK i \in entries : \E read \in {Content(i), None}, limit \in BOOLEAN :
      /\ rejected' = (rejected \/ Verdict(read, limit) = "reject")
      /\ errored' = (errored \/ Verdict(read, limit) = "error")
      /\ entries' = entries \ {i}
      /\ met' = With(met, i, [read |-> read, limit |-> limit])
  BY DEF ReadEntry
<1> PICK read \in {Content(i), None}, limit \in BOOLEAN :
      /\ rejected' = (rejected \/ Verdict(read, limit) = "reject")
      /\ errored' = (errored \/ Verdict(read, limit) = "error")
      /\ entries' = entries \ {i}
      /\ met' = With(met, i, [read |-> read, limit |-> limit])
  OBVIOUS
<1>1. stage = "reading" /\ UNCHANGED <<stage, command, faulted, listing>>
  BY DEF ReadEntry
<1>2. /\ DOMAIN met' = DOMAIN met \cup {i} /\ i \notin DOMAIN met
      /\ met'[i].read = read /\ met'[i].limit = limit
      /\ \A j \in DOMAIN met : met'[j] = met[j]
  BY <1>1 DEF ExitInv, Met, With
<1>3. /\ Verdict(read, limit) = "error" <=> limit \/ read \notin Texts
      /\ Verdict(read, limit) = "reject" <=>
           ~limit /\ read \in Texts /\ read \notin Lang[command.rule]
  BY DEF Verdict, Decide
<1>4. errored' <=> \E j \in DOMAIN met' : met'[j].limit \/ met'[j].read \notin Texts
  BY <1>1, <1>2, <1>3 DEF ExitInv, Met
<1>5. rejected' <=> \E j \in DOMAIN met' : /\ ~met'[j].limit /\ met'[j].read \in Texts
                                           /\ met'[j].read \notin Lang[command'.rule]
  BY <1>1, <1>2, <1>3 DEF ExitInv, Met
<1>6. Met'
  <2>1. stage' = "reading" /\ command'.source = "dir"
    BY <1>1 DEF ExitInv, Met
  <2>2. entries' \subseteq listing' /\ DOMAIN met' = listing' \ entries'
    BY <1>1, <1>2 DEF ExitInv, Met
  <2>3. QED
    BY <1>4, <1>5, <2>1, <2>2, Zenon DEF Met
<1>7. QED
  BY <1>1, <1>6 DEF ExitInv, Passed, ExitExact, CanRecognize

LEMMA EndCounted ==
  ASSUME ExitInv, EndDirectory
  PROVE  ExitInv'
<1>1. /\ stage = "reading" /\ stage' = "exited" /\ exit' = CodeOfAll
      /\ entries = {} /\ UNCHANGED <<command, faulted, listing, met>>
  BY DEF EndDirectory, Answer, history
<1>2. Passed' /\ Met'
  BY <1>1 DEF ExitInv, Passed, Met
<1>3. ~Refused' /\ ~faulted'
  BY <1>1 DEF ExitInv, Passed, Met, Refused, CanRecognize
<1>4. met' = met /\ command' = command
  BY <1>1
<1>5. DOMAIN met = listing
  BY <1>1 DEF ExitInv, Met
<1>6. errored <=> \E i \in DOMAIN met : met[i].limit \/ met[i].read \notin Texts
  BY <1>1 DEF ExitInv, Met
<1>7. rejected <=> \E i \in DOMAIN met : /\ ~met[i].limit /\ met[i].read \in Texts
                                         /\ met[i].read \notin Lang[command.rule]
  BY <1>1 DEF ExitInv, Met
<1>8. Unanswered' <=> errored
  BY <1>3, <1>4, <1>6 DEF Unanswered
<1>9. ~errored => (rejected <=> \E i \in DOMAIN met : met[i].read \notin Lang[command.rule])
  BY <1>6, <1>7
<1>10. ExitExact'
  BY <1>1, <1>4, <1>5, <1>8, <1>9 DEF ExitExact, CodeOfAll
<1>11. QED
  BY <1>2, <1>10 DEF ExitInv

LEMMA ExitStep == ExitInv /\ [Next]_vars => ExitInv'
<1> SUFFICES ASSUME ExitInv, [Next]_vars PROVE ExitInv'
  OBVIOUS
<1> USE DEF ExitInv
<1>1. CASE Start
  <2>1. /\ ~faulted' /\ DOMAIN met' = {} /\ listing' = {} /\ command' \in Commands
        /\ ~errored' /\ ~rejected' /\ index' = 0
    BY <1>1 DEF Start, Nothing
  <2>2. CASE command'.name = "match" /\ command'.source = "none"
    <3>1. stage' = "exited" /\ exit' = ERROR
      BY <1>1, <2>2 DEF Start, Answer
    <3>2. QED
      BY <2>1, <2>2, <3>1 DEF Passed, Met, ExitExact, Unanswered, Refused
  <2>3. CASE ~(command'.name = "match" /\ command'.source = "none")
    <3>1. stage' = "loading"
      BY <1>1, <2>3 DEF Start
    <3>2. QED
      BY <2>1, <2>3, <3>1 DEF Passed, Met, ExitExact
  <2>4. QED
    BY <2>2, <2>3
<1>2. CASE Load
  BY <1>2 DEF Load, Go, Answer, history, progress, Passed, Met, ExitExact, Unanswered, Refused
<1>3. CASE Check \/ ListRules
  <2>1. /\ stage = "loaded" /\ command.name \in {"check", "rules"}
        /\ stage' = "exited" /\ exit' = OK
        /\ UNCHANGED <<command, history>>
    BY <1>3 DEF Check, ListRules, Answer
  <2>2. QED
    BY <2>1 DEF history, Passed, Met, ExitExact, Unanswered, Refused
<1>4. CASE GateMatch
  BY <1>4 DEF GateMatch, Go, Answer, history, progress, Passed, Met, ExitExact, Unanswered,
              Refused, CanRecognize
<1>5. CASE GateGen
  BY <1>5 DEF GateGen, Go, Answer, history, progress, Passed, Met, ExitExact, Unanswered,
              Refused, CanRecognize, CanGenerate
<1>6. CASE MatchLiteral
  BY <1>6, ReportCounted DEF MatchLiteral
<1>7. CASE MatchFile
  BY <1>7, ReportCounted DEF MatchFile
<1>8. CASE ListDirectory
  <2>1. stage = "opening" /\ UNCHANGED <<command, met, errored, rejected>>
    BY <1>8 DEF ListDirectory
  <2>2. CASE Answer(ERROR) /\ faulted' = TRUE /\ UNCHANGED <<entries, listing>>
    BY <2>1, <2>2 DEF Answer, Passed, Met, ExitExact, Unanswered
  <2>3. CASE Go("reading") /\ entries' = DOMAIN dir /\ listing' = DOMAIN dir /\ UNCHANGED faulted
    <3>1. ~errored /\ ~rejected
      BY <2>1 DEF Met
    <3>2. QED
      BY <1>8, <2>1, <2>3, <3>1 DEF ListDirectory, Go, Passed, Met, ExitExact, CanRecognize
  <2>4. QED
    BY <1>8, <2>2, <2>3 DEF ListDirectory
<1>9. CASE ReadEntry
  BY <1>9, ReadCounted
<1>10. CASE EndDirectory
  BY <1>10, EndCounted
<1>11. CASE MakeDirectory
  BY <1>11 DEF MakeDirectory, Go, Answer, progress, Passed, Met, ExitExact, Unanswered,
               CanGenerate, CanRecognize
<1>12. CASE MeetLimit
  BY <1>12 DEF MeetLimit, GiveUp, Answer, Passed, Met, ExitExact, Unanswered
<1>13. CASE Produce
  BY <1>13 DEF Produce, Passed, Met, ExitExact, CanGenerate, CanRecognize
<1>14. CASE FailToWrite
  BY <1>14 DEF FailToWrite, Answer, Passed, Met, ExitExact, Unanswered
<1>15. CASE NoExpansion
  <2>1. /\ stage = "generating" /\ stage' = "exited" /\ exit' = ERROR
        /\ index < command.count /\ Lang[command.rule] = {}
        /\ UNCHANGED <<command, faulted, listing, met>>
    BY <1>15 DEF NoExpansion, Answer, history
  <2>2. command.name = "gen" /\ command.count > 0
    BY <2>1 DEF Passed
  <2>3. QED
    BY <2>1, <2>2 DEF Passed, Met, ExitExact, Unanswered, Refused
<1>16. CASE EndGen
  BY <1>16 DEF EndGen, Answer, history, progress, Passed, Met, ExitExact, Unanswered, Refused
<1>17. CASE Meddle
  BY <1>17 DEF Meddle, progress, Passed, Met, ExitExact, Unanswered, Refused, CanRecognize,
               CanGenerate
<1>18. CASE UNCHANGED vars
  BY <1>18 DEF vars, history, progress, Passed, Met, ExitExact, Unanswered, Refused,
               CanRecognize, CanGenerate
<1>19. QED
  BY <1>1, <1>2, <1>3, <1>4, <1>5, <1>6, <1>7, <1>8, <1>9, <1>10, <1>11, <1>12, <1>13,
     <1>14, <1>15, <1>16, <1>17, <1>18 DEF Next, Match, Gen

(* Whatever the grammar, the files, the limits met and the interference,   *)
(* 2 says that a part of the question was not answered, 1 that all was and *)
(* an input is not in the language, 0 that all are (combine, run_match).   *)
THEOREM ExitsExact == Spec => []ExitExact
<1>1. Spec => []ExitInv
  BY ExitInit, ExitStep, PTL DEF Spec
<1>2. ExitInv => ExitExact
  BY DEF ExitInv
<1>3. QED
  BY <1>1, <1>2, PTL

-----------------------------------------------------------------------------
(* The directory of `gen`.                                                 *)

LEMMA PairInit == Init => PairInv
BY DEF Init, PairInv, Kept, PairsWithMatch, Exited, Nothing

(* On the way to a stage in which nothing is made or read.                 *)
LEMMA Waiting ==
  ASSUME PairInv, UNCHANGED <<dir, origin>>, index' \in Nat,
         stage' \notin {"generating", "reading", "exited"}
  PROVE  PairInv'
BY DEF PairInv, Kept, PairsWithMatch, Exited

(* A command that ends without an answer says so, and one that does not    *)
(* use the directory promises nothing of it.                               *)
LEMMA GivenUp ==
  ASSUME PairInv, UNCHANGED <<dir, origin>>, index' \in Nat, stage' = "exited",
         \/ exit' = ERROR
         \/ command'.name \in {"check", "rules"}
         \/ command'.name = "match" /\ command'.source # "dir"
  PROVE  PairInv'
BY DEF PairInv, Kept, PairsWithMatch, Exited, ERROR, OK

LEMMA PairRead ==
  ASSUME ExitInv, PairInv, ReadEntry
  PROVE  PairInv'
<1> PICK i \in entries : \E read \in {Content(i), None}, limit \in BOOLEAN :
      met' = With(met, i, [read |-> read, limit |-> limit])
  BY DEF ReadEntry
<1> PICK read \in {Content(i), None}, limit \in BOOLEAN :
      met' = With(met, i, [read |-> read, limit |-> limit])
  OBVIOUS
<1>1. stage = "reading" /\ UNCHANGED <<dir, origin, index, stage, listing>>
  BY DEF ReadEntry
<1>2. read \in {dir[i], None}
  BY DEF Content
<1>3. ASSUME NEW j \in DOMAIN origin, origin[j] # None, j \in DOMAIN met'
      PROVE  met'[j].read \in {dir[j], None}
  <2>1. CASE j = i
    BY <1>2, <1>3, <2>1 DEF With
  <2>2. CASE j # i
    BY <1>1, <1>3, <2>2 DEF With, PairInv, Kept
  <2>3. QED
    BY <2>1, <2>2
<1>4. Kept'
  BY <1>1, <1>3 DEF PairInv, Kept
<1>5. QED
  BY <1>1, <1>4 DEF PairInv, PairsWithMatch, Exited

LEMMA PairMatched ==
  ASSUME ExitInv, PairInv, EndDirectory, ExitInv'
  PROVE  PairInv'
<1>1. /\ stage = "reading" /\ stage' = "exited"
      /\ UNCHANGED <<dir, origin, index, command, met, listing>>
  BY DEF EndDirectory, Answer, progress, history
<1>2. command.name = "match" /\ command.rule \in DOMAIN Lang
  BY <1>1 DEF ExitInv, Passed, CanRecognize
<1>3. ASSUME exit' = NO, Generated[command.rule] \subseteq Lang[command.rule],
             \A i \in listing : i \in DOMAIN origin /\ origin[i] = command.rule
      PROVE  FALSE
  <2>1. ~Unanswered' /\ DOMAIN met = listing
    BY <1>1, <1>3 DEF ExitInv, ExitExact, NO, ERROR
  <2>2. PICK i \in listing : met[i].read \notin Lang[command.rule]
    BY <1>1, <1>3, <2>1 DEF ExitInv, ExitExact, NO, OK
  <2>3. met[i].read \in Texts
    BY <1>1, <2>1, <2>2 DEF Unanswered
  <2>4. origin[i] = command.rule /\ origin[i] # None /\ i \in DOMAIN origin
    BY <1>2, <1>3, <2>2, CommandLineAssumption DEF CommandLineAssumption
  <2>5. met[i].read = dir[i]
    BY <1>1, <2>1, <2>2, <2>3, <2>4, CommandLineAssumption
       DEF CommandLineAssumption, PairInv, Kept
  <2>6. dir[i] \in Generated[command.rule]
    BY <2>4 DEF PairInv, PairsWithMatch
  <2>7. QED
    BY <1>3, <2>2, <2>5, <2>6
<1>4. \A i \in DOMAIN origin : origin[i] # None => i \in listing
  BY <1>1 DEF PairInv, Kept
<1>5. QED
  BY <1>1, <1>2, <1>3, <1>4 DEF PairInv, Kept, PairsWithMatch, Exited

LEMMA PairProduced ==
  ASSUME ExitInv, PairInv, Produce
  PROVE  PairInv'
<1>1. /\ stage = "generating" /\ index' = index + 1 /\ index \in Nat
      /\ UNCHANGED <<command, stage>>
  BY DEF Produce, PairInv, Kept
<1>2. CASE ~command.out
  BY <1>1, <1>2 DEF Produce, PairInv, Kept, PairsWithMatch, Exited
<1>3. CASE command.out
  <2> PICK text \in Generated[command.rule] : dir' = With(dir, index, text)
    BY <1>3 DEF Produce
  <2>1. /\ DOMAIN dir' = DOMAIN dir \cup {index} /\ dir'[index] = text
        /\ \A j \in DOMAIN dir \ {index} : dir'[j] = dir[j]
    BY DEF With
  <2>2. origin' = With(origin, index, command.rule)
    BY <1>3 DEF Produce
  <2>3. /\ DOMAIN origin' = DOMAIN origin \cup {index} /\ origin'[index] = command.rule
        /\ \A j \in DOMAIN origin \ {index} : origin'[j] = origin[j]
    BY <2>2 DEF With
  <2>4. \A j \in DOMAIN origin' :
          origin'[j] # None => j \in DOMAIN dir' /\ dir'[j] \in Generated[origin'[j]]
    BY <2>1, <2>3 DEF PairInv, PairsWithMatch
  <2>5. \A j \in 0 .. index' - 1 :
          j \in DOMAIN origin' /\ origin'[j] \in {command.rule, None}
    <3>1. 0 .. index' - 1 = (0 .. index - 1) \cup {index}
      BY <1>1
    <3>2. \A j \in 0 .. index - 1 : j \in DOMAIN origin /\ origin[j] \in {command.rule, None}
      BY <1>1, <1>3 DEF PairInv, Kept
    <3>3. QED
      BY <2>3, <3>1, <3>2
  <2>6. QED
    BY <1>1, <2>4, <2>5 DEF PairInv, Kept, PairsWithMatch, Exited
<1>4. QED
  BY <1>2, <1>3

LEMMA PairSpoilt ==
  ASSUME ExitInv, PairInv, FailToWrite
  PROVE  PairInv'
<1>1. /\ stage' = "exited" /\ exit' = ERROR /\ index \in Nat /\ UNCHANGED index
  BY DEF FailToWrite, Answer, progress, PairInv, Kept
<1>2. CASE UNCHANGED <<dir, origin>>
  BY <1>1, <1>2, GivenUp
<1>3. CASE /\ \E content \in Texts \cup {Garbage} : dir' = With(dir, index, content)
           /\ origin' = Without(origin, index)
  <2>1. /\ DOMAIN dir' = DOMAIN dir \cup {index}
        /\ \A j \in DOMAIN dir \ {index} : dir'[j] = dir[j]
    BY <1>3 DEF With
  <2>2. /\ DOMAIN origin' = DOMAIN origin \ {index}
        /\ \A j \in DOMAIN origin' : origin'[j] = origin[j]
    BY <1>3 DEF Without
  <2>3. \A j \in DOMAIN origin' :
          origin'[j] # None => j \in DOMAIN dir' /\ dir'[j] \in Generated[origin'[j]]
    BY <2>1, <2>2 DEF PairInv, PairsWithMatch
  <2>4. QED
    BY <1>1, <2>3 DEF PairInv, Kept, PairsWithMatch, Exited, ERROR, OK
<1>4. QED
  BY <1>2, <1>3 DEF FailToWrite

(* Somebody else's hand is on one file, and no more is said of it.         *)
LEMMA PairMeddled ==
  ASSUME ExitInv, PairInv, Meddle
  PROVE  PairInv'
<1> PICK i \in Indices :
      /\ \/ \E content \in Texts \cup {Garbage} : dir' = With(dir, i, content)
         \/ dir' = Without(dir, i)
      /\ origin' = [j \in DOMAIN origin |-> IF j = i THEN None ELSE origin[j]]
  BY DEF Meddle
<1>1. UNCHANGED <<command, stage, exit, index, listing, met>>
  BY DEF Meddle, progress
<1>2. \A j \in DOMAIN dir \ {i} : j \in DOMAIN dir' /\ dir'[j] = dir[j]
  BY DEF With, Without
<1>3. /\ DOMAIN origin' = DOMAIN origin
      /\ \A j \in DOMAIN origin : origin'[j] = IF j = i THEN None ELSE origin[j]
  OBVIOUS
<1>4. \A j \in DOMAIN origin : origin'[j] # None => j # i /\ origin'[j] = origin[j]
  BY <1>3
<1>5. \A j \in DOMAIN origin :
        origin'[j] # None => j \in DOMAIN dir' /\ dir'[j] \in Generated[origin'[j]]
  BY <1>2, <1>4 DEF PairInv, PairsWithMatch
<1>6. Kept'
  <2>1. index' \in Nat
    BY <1>1 DEF PairInv, Kept
  <2>2. stage' = "generating" /\ command'.out =>
          \A j \in 0 .. index' - 1 : j \in DOMAIN origin' /\ origin'[j] \in {command'.rule, None}
    BY <1>1, <1>3 DEF PairInv, Kept
  <2>3. stage' = "reading" =>
          \A j \in DOMAIN origin' : origin'[j] # None =>
            j \in listing' /\ (j \in DOMAIN met' => met'[j].read \in {dir'[j], None})
    <3> SUFFICES ASSUME stage = "reading", NEW j \in DOMAIN origin, origin'[j] # None
                 PROVE  j \in listing /\ (j \in DOMAIN met => met[j].read \in {dir'[j], None})
      BY <1>1, <1>3
    <3>1. origin[j] # None /\ dir'[j] = dir[j]
      BY <1>2, <1>4 DEF PairInv, PairsWithMatch
    <3>2. QED
      BY <3>1 DEF PairInv, Kept
  <2>4. QED
    BY <2>1, <2>2, <2>3 DEF Kept
<1>7. Exited("gen")' /\ exit' = OK /\ command'.out =>
        \A j \in 0 .. command'.count - 1 :
          j \in DOMAIN origin' /\ origin'[j] \in {command'.rule, None}
  BY <1>1, <1>3 DEF PairInv, PairsWithMatch, Exited
<1>8. Exited("match")' /\ command'.source = "dir" /\ exit' # ERROR =>
        /\ \A j \in DOMAIN origin' : origin'[j] # None => j \in listing'
        /\ exit' = NO /\ Generated[command'.rule] \subseteq Lang[command'.rule] =>
             \E j \in listing' : j \notin DOMAIN origin' \/ origin'[j] # command'.rule
  <2> SUFFICES ASSUME Exited("match"), command.source = "dir", exit # ERROR
               PROVE  /\ \A j \in DOMAIN origin' : origin'[j] # None => j \in listing
                      /\ exit = NO /\ Generated[command.rule] \subseteq Lang[command.rule] =>
                           \E j \in listing : j \notin DOMAIN origin' \/ origin'[j] # command.rule
    BY <1>1 DEF Exited
  <2>1. \A j \in DOMAIN origin' : origin'[j] # None => j \in listing
    BY <1>3, <1>4 DEF PairInv, PairsWithMatch
  <2>2. ASSUME exit = NO, Generated[command.rule] \subseteq Lang[command.rule]
        PROVE  \E j \in listing : j \notin DOMAIN origin' \/ origin'[j] # command.rule
    <3>1. PICK j \in listing : j \notin DOMAIN origin \/ origin[j] # command.rule
      BY <2>2 DEF PairInv, PairsWithMatch
    <3>2. command.rule # None
      BY <2>2, CommandLineAssumption
         DEF CommandLineAssumption, ExitInv, ExitExact, Exited, Unanswered, Refused, CanRecognize,
             NO, ERROR
    <3>3. QED
      BY <1>3, <3>1, <3>2
  <2>3. QED
    BY <2>1, <2>2
<1>9. QED
  BY <1>3, <1>5, <1>6, <1>7, <1>8 DEF PairInv, PairsWithMatch

LEMMA PairStep == ExitInv /\ PairInv /\ [Next]_vars /\ ExitInv' => PairInv'
<1> SUFFICES ASSUME ExitInv, PairInv, [Next]_vars, ExitInv' PROVE PairInv'
  OBVIOUS
<1>0. index \in Nat
  BY DEF PairInv, Kept
<1>1. CASE Start
  <2>1. UNCHANGED <<dir, origin>> /\ index' = 0
    BY <1>1 DEF Start
  <2>2. CASE stage' = "loading"
    BY <2>1, <2>2, Waiting
  <2>3. CASE stage' = "exited" /\ command'.name = "match" /\ command'.source = "none"
    BY <2>1, <2>3, GivenUp
  <2>4. QED
    BY <1>1, <2>2, <2>3 DEF Start, Answer
<1>2. CASE Load
  <2>1. UNCHANGED <<dir, origin, index, command>> /\ stage = "loading"
    BY <1>2 DEF Load, progress, history
  <2>2. CASE stage' = "loaded"
    BY <1>0, <2>1, <2>2, Waiting
  <2>3. CASE stage' = "exited" /\ exit' = ERROR
    BY <1>0, <2>1, <2>3, GivenUp
  <2>4. QED
    BY <1>2, <2>2, <2>3 DEF Load, Go, Answer
<1>3. CASE Check \/ ListRules
  <2>1. /\ UNCHANGED <<dir, origin, index, command>> /\ stage' = "exited"
        /\ command.name \in {"check", "rules"}
    BY <1>3 DEF Check, ListRules, progress, history, Answer
  <2>2. QED
    BY <1>0, <2>1, GivenUp
<1>4. CASE GateMatch
  <2>1. UNCHANGED <<dir, origin, index, command>> /\ command.name = "match"
    BY <1>4 DEF GateMatch, progress, history
  <2>2. CASE stage' = "opening"
    BY <1>0, <2>1, <2>2, Waiting
  <2>3. CASE stage' = "exited" /\ exit' = ERROR
    BY <1>0, <2>1, <2>3, GivenUp
  <2>4. QED
    BY <1>4, <2>2, <2>3 DEF GateMatch, Go, Answer
<1>5. CASE GateGen
  <2>1. /\ UNCHANGED <<dir, origin, index, command>> /\ command.name = "gen"
        /\ index = 0
    BY <1>5 DEF GateGen, progress, history, ExitInv, Passed
  <2>2. CASE stage' = "making"
    BY <1>0, <2>1, <2>2, Waiting
  <2>3. CASE stage' = "exited" /\ exit' = ERROR
    BY <1>0, <2>1, <2>3, GivenUp
  <2>4. CASE stage' = "generating" /\ ~command.out
    BY <2>1, <2>4 DEF PairInv, Kept, PairsWithMatch, Exited
  <2>5. QED
    BY <1>5, <2>2, <2>3, <2>4 DEF GateGen, Go, Answer
<1>6. CASE MatchLiteral \/ MatchFile
  <2>1. /\ UNCHANGED <<dir, origin, index, command>> /\ stage' = "exited"
        /\ command.name = "match" /\ command.source # "dir"
    BY <1>6 DEF MatchLiteral, MatchFile, ReportOne, Answer, progress
  <2>2. QED
    BY <1>0, <2>1, GivenUp
<1>7. CASE ListDirectory
  <2>1. UNCHANGED <<dir, origin, index, command, met>> /\ DOMAIN met = {}
    BY <1>7 DEF ListDirectory, ExitInv, Met
  <2>2. CASE stage' = "exited" /\ exit' = ERROR
    BY <1>0, <2>1, <2>2, GivenUp
  <2>3. CASE stage' = "reading" /\ listing' = DOMAIN dir
    BY <2>1, <2>3 DEF PairInv, Kept, PairsWithMatch, Exited
  <2>4. QED
    BY <1>7, <2>2, <2>3 DEF ListDirectory, Go, Answer
<1>8. CASE ReadEntry
  BY <1>8, PairRead
<1>9. CASE EndDirectory
  BY <1>9, PairMatched
<1>10. CASE MakeDirectory
  <2>1. UNCHANGED <<dir, origin, index>> /\ index = 0
    BY <1>10 DEF MakeDirectory, progress, ExitInv, Passed
  <2>2. CASE stage' = "exited" /\ exit' = ERROR
    BY <1>0, <2>1, <2>2, GivenUp
  <2>3. CASE stage' = "generating"
    <3>1. 0 .. index' - 1 = {}
      BY <2>1
    <3>2. QED
      BY <2>1, <2>3, <3>1 DEF PairInv, Kept, PairsWithMatch, Exited
  <2>4. QED
    BY <1>10, <2>2, <2>3 DEF MakeDirectory, Go, Answer
<1>11. CASE NoExpansion
  <2>1. UNCHANGED <<dir, origin, index>> /\ stage' = "exited" /\ exit' = ERROR
    BY <1>11 DEF NoExpansion, Answer, progress, history
  <2>2. QED
    BY <1>0, <2>1, GivenUp
<1>12. CASE MeetLimit
  <2>1. UNCHANGED <<dir, origin, index>> /\ stage' = "exited" /\ exit' = ERROR
    BY <1>12 DEF MeetLimit, GiveUp, Answer
  <2>2. QED
    BY <1>0, <2>1, GivenUp
<1>13. CASE Produce
  BY <1>13, PairProduced
<1>14. CASE FailToWrite
  BY <1>14, PairSpoilt
<1>15. CASE EndGen
  <2>1. /\ UNCHANGED <<dir, origin, index, command>> /\ stage = "generating" /\ stage' = "exited"
        /\ command.name = "gen" /\ index = command.count
    BY <1>15 DEF EndGen, Answer, progress, history, ExitInv, Passed
  <2>2. QED
    BY <2>1 DEF PairInv, Kept, PairsWithMatch, Exited
<1>16. CASE Meddle
  BY <1>16, PairMeddled
<1>17. CASE UNCHANGED vars
  BY <1>17 DEF vars, progress, history, PairInv, Kept, PairsWithMatch, Exited
<1>18. QED
  BY <1>1, <1>2, <1>3, <1>4, <1>5, <1>6, <1>7, <1>8, <1>9, <1>10, <1>11, <1>12, <1>13,
     <1>14, <1>15, <1>16, <1>17 DEF Next, Match, Gen

(* Whatever ran over the directory and whoever else uses it: what `gen`    *)
(* wrote stays of its rule, 0 means that all that was asked for is there,  *)
(* one that fails spoils the file it was writing and no other, and         *)
(* `match --dir` passes over no file of it and says no only for one that   *)
(* is not of its rule (generating, matching_dir).                          *)
THEOREM GeneratedPairs == Spec => []PairsWithMatch
<1>1. Init => ExitInv /\ PairInv
  BY ExitInit, PairInit
<1>2. (ExitInv /\ PairInv) /\ [Next]_vars => (ExitInv /\ PairInv)'
  BY ExitStep, PairStep
<1>3. ExitInv /\ PairInv => PairsWithMatch
  BY DEF PairInv
<1>4. QED
  BY <1>1, <1>2, <1>3, PTL DEF Spec
=============================================================================
