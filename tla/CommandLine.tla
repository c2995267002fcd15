----------------------------- MODULE CommandLine -----------------------------
(***************************************************************************)
(* The commands `check`, `rules`, `match` and `gen`, one run after another *)
(* by somebody who also uses the directory `gen --out` writes and `match`  *)
(* reads (src/bin/abnf-oracle.rs).  The recognizer and the generator are   *)
(* what their own modules show of them: they answer by the language of a   *)
(* rule and by what can be drawn from it, or that they met a limit.        *)
(***************************************************************************)
EXTENDS Naturals

CONSTANTS
  None,
  Texts,         \* What UTF-8 files hold.
  Garbage,       \* What another file holds.
  Lang,          \* Of each rule of the sound grammar the texts it matches,
  Generated,     \* and those drawn from it: not always the same (%x1F600-1F601).
  Unusable,      \* The rules that reach prose, or what no input holds.
  Commands,      \* Bound: the command lines considered, and what is wrong with the grammar
                 \* each names: it is "sound", or "unreadable", "unparsable", "unsound".
  Indices,       \* Bound: the files of the directory, by number.
  MaxCommands,   \* Bound: commands run.
  MaxMeddling,   \* Bound: files somebody else writes or removes.
  DefaultLimit   \* GenOptions::default(): what output and steps are limited to.

ASSUME CommandLineAssumption ==
  /\ None \notin Texts /\ Garbage \notin Texts
  /\ None \notin DOMAIN Lang
  /\ \A r \in DOMAIN Lang : Lang[r] \subseteq Texts /\ Generated[r] \subseteq Texts
  /\ Indices \subseteq Nat
  /\ \A c \in Commands :
       /\ c.name \in {"check", "rules", "match", "gen"}
       /\ c.name = "match" => c.source \in {"none", "literal", "file", "dir"}
       /\ c.name = "match" /\ c.source = "literal" => c.text \in Texts
       /\ c.name = "match" /\ c.source = "file" => c.file \in Indices
       /\ c.name = "gen" => c.count \in Nat /\ 0 .. c.count - 1 \subseteq Indices
                              /\ c.out \in BOOLEAN
  /\ DefaultLimit # None

VARIABLES
  dir,        \* What each of its files holds; no files if it is not there.
  command,    \* The command being run, or run last.
  stage,      \* Where it is.
  exit,       \* Its exit code, or None.
  entries,    \* Of `match --dir`: the files yet to be read.
  rejected, errored,
  index,      \* Of `gen`: the strings made.
  ran, meddled,
  (* What really happened, for the properties.                             *)
  faulted,    \* Whether a file, directory or limit got in the way of the command as a whole.
  listing,    \* The inputs it had, and
  met,        \* of each it got to, [read |-> content, or None; limit |-> whether cut off].
  origin      \* Of each file `gen` wrote in full last the rule it is of, or None once
              \* somebody else has touched it.

history == <<faulted, listing, met, origin>>
progress == <<entries, rejected, errored, index>>
vars == <<dir, command, stage, exit, progress, ran, meddled, history>>

OK    == 0
NO    == 1
ERROR == 2

Nothing == [i \in {} |-> None]

Answer(code) == stage' = "exited" /\ exit' = code

Go(next) == stage' = next /\ UNCHANGED exit

With(f, i, x) == [j \in DOMAIN f \cup {i} |-> IF j = i THEN x ELSE f[j]]

Without(f, i) == [j \in DOMAIN f \ {i} |-> f[j]]

Init ==
  /\ dir = Nothing
  /\ command = None /\ stage = "idle" /\ exit = None
  /\ entries = {} /\ rejected = FALSE /\ errored = FALSE /\ index = 0
  /\ ran = 0 /\ meddled = 0
  /\ faulted = FALSE /\ listing = {} /\ met = Nothing /\ origin = Nothing

-----------------------------------------------------------------------------
(* A match without an input is refused before anything is read.            *)
Start ==
  /\ stage \in {"idle", "exited"} /\ ran < MaxCommands
  /\ \E c \in Commands :
       /\ command' = c
       /\ IF c.name = "match" /\ c.source = "none"
          THEN Answer(ERROR)
          ELSE stage' = "loading" /\ exit' = None
  /\ entries' = {} /\ rejected' = FALSE /\ errored' = FALSE /\ index' = 0
  /\ ran' = ran + 1
  /\ faulted' = FALSE /\ listing' = {} /\ met' = Nothing
  /\ UNCHANGED <<dir, meddled, origin>>

Load ==
  /\ stage = "loading"
  /\ IF command.grammar = "sound" THEN Go("loaded") ELSE Answer(ERROR)
  /\ UNCHANGED <<dir, command, progress, ran, meddled, history>>

(* Warnings do not matter to the exit code, nor does what is in the table. *)
Check ==
  /\ stage = "loaded" /\ command.name = "check"
  /\ Answer(OK)
  /\ UNCHANGED <<dir, command, progress, ran, meddled, history>>

ListRules ==
  /\ stage = "loaded" /\ command.name = "rules"
  /\ Answer(OK)
  /\ UNCHANGED <<dir, command, progress, ran, meddled, history>>

CanRecognize(r) == r \in DOMAIN Lang /\ r \notin Unusable

(* The same question: a rule that matches nothing passes.                  *)
CanGenerate(r) == CanRecognize(r)

(* Whether the rule will do as a start, before any input is read or made.  *)
GateMatch ==
  /\ stage = "loaded" /\ command.name = "match"
  /\ IF CanRecognize(command.rule) THEN Go("opening") ELSE Answer(ERROR)
  /\ UNCHANGED <<dir, command, progress, ran, meddled, history>>

GateGen ==
  /\ stage = "loaded" /\ command.name = "gen"
  /\ IF ~CanGenerate(command.rule) THEN Answer(ERROR)
     ELSE IF command.out THEN Go("making") ELSE Go("generating")
  /\ UNCHANGED <<dir, command, progress, ran, meddled, history>>

-----------------------------------------------------------------------------
(* match                                                                   *)

(* Past the gate only a limit fails a question; the depth is never without *)
(* one, given or not.                                                      *)
Decide(text, limit) ==
  IF limit THEN "error" ELSE IF text \in Lang[command.rule] THEN "accept" ELSE "reject"

(* What is read is None if it cannot be; what is not UTF-8 is no text.     *)
Verdict(read, limit) == IF read \in Texts THEN Decide(read, limit) ELSE "error"

(* What there is to read of a file at this moment.                         *)
Content(i) == IF i \in DOMAIN dir THEN dir[i] ELSE None

CodeOf(verdict) == IF verdict = "accept" THEN OK ELSE IF verdict = "reject" THEN NO ELSE ERROR

ReportOne(i, read) ==
  /\ \E limit \in BOOLEAN :
       /\ Answer(CodeOf(Verdict(read, limit)))
       /\ met' = [j \in {i} |-> [read |-> read, limit |-> limit]]
  /\ listing' = {i}
  /\ UNCHANGED <<dir, command, progress, ran, meddled, faulted, origin>>

MatchLiteral ==
  /\ stage = "opening" /\ command.name = "match" /\ command.source = "literal"
  /\ ReportOne(0, command.text)

MatchFile ==
  /\ stage = "opening" /\ command.name = "match" /\ command.source = "file"
  /\ \E read \in {Content(command.file), None} : ReportOne(command.file, read)

(* A directory that is not there, cannot be read or holds no files.        *)
ListDirectory ==
  /\ stage = "opening" /\ command.name = "match" /\ command.source = "dir"
  /\ \/ Answer(ERROR) /\ faulted' = TRUE /\ UNCHANGED <<entries, listing>>
     \/ /\ DOMAIN dir # {}
        /\ Go("reading")
        /\ entries' = DOMAIN dir /\ listing' = DOMAIN dir
        /\ UNCHANGED faulted
  /\ UNCHANGED <<dir, command, rejected, errored, index, ran, meddled, met, origin>>

(* In order.  A file listed may be gone, or another, by the time it is read.*)
ReadEntry ==
  /\ stage = "reading"
  /\ \E i \in entries : \E read \in {Content(i), None}, limit \in BOOLEAN :
       LET verdict == Verdict(read, limit) IN
       /\ \A j \in entries : i <= j
       /\ rejected' = (rejected \/ verdict = "reject")
       /\ errored' = (errored \/ verdict = "error")
       /\ entries' = entries \ {i}
       /\ met' = With(met, i, [read |-> read, limit |-> limit])
  /\ UNCHANGED <<dir, command, stage, exit, index, ran, meddled, faulted, listing, origin>>

(* A slip to catch: a rejection settles it, whatever else could be read.   *)
CodeOfAllRejecting == IF rejected THEN NO ELSE IF errored THEN ERROR ELSE OK

CodeOfAll == IF errored THEN ERROR ELSE IF rejected THEN NO ELSE OK

EndDirectory ==
  /\ stage = "reading" /\ entries = {}
  /\ Answer(CodeOfAll)
  /\ UNCHANGED <<dir, command, progress, ran, meddled, history>>

-----------------------------------------------------------------------------
(* gen                                                                     *)

MakeDirectory ==
  /\ stage = "making"
  /\ \/ Answer(ERROR) /\ faulted' = TRUE
     \/ Go("generating") /\ UNCHANGED faulted
  /\ UNCHANGED <<dir, command, progress, ran, meddled, listing, met, origin>>

(* Asked for a string of a rule that matches nothing.                      *)
NoExpansion ==
  /\ stage = "generating" /\ index < command.count
  /\ Lang[command.rule] = {}
  /\ Answer(ERROR)
  /\ UNCHANGED <<dir, command, progress, ran, meddled, history>>

(* Not given, the limit is the default; 0 is how one asks for none.        *)
GenLimit(flag) == IF flag = None THEN DefaultLimit ELSE IF flag = 0 THEN None ELSE flag

Limited == GenLimit(command.max_output_len) # None \/ GenLimit(command.max_steps) # None

(* A slip to catch: a string that met a limit is left out.                 *)
SkipString == Go(stage) /\ index' = index + 1 /\ UNCHANGED faulted

GiveUp == Answer(ERROR) /\ faulted' = TRUE /\ UNCHANGED index

MeetLimit ==
  /\ stage = "generating" /\ index < command.count
  /\ Lang[command.rule] # {} /\ Limited
  /\ GiveUp
  /\ UNCHANGED <<dir, command, entries, rejected, errored, ran, meddled, listing, met, origin>>

(* The next string, printed or written to the file of its number.          *)
Produce ==
  /\ stage = "generating" /\ index < command.count
  /\ Lang[command.rule] # {}
  /\ \E text \in Generated[command.rule] :
       IF command.out
       THEN dir' = With(dir, index, text) /\ origin' = With(origin, index, command.rule)
       ELSE UNCHANGED <<dir, origin>>
  /\ index' = index + 1
  /\ UNCHANGED <<command, stage, exit, entries, rejected, errored, ran, meddled, faulted, listing, met>>

(* The file cannot be opened, or not written in full: it holds anything.   *)
FailToWrite ==
  /\ stage = "generating" /\ index < command.count /\ command.out
  /\ Lang[command.rule] # {}
  /\ \/ UNCHANGED <<dir, origin>>
     \/ /\ \E content \in Texts \cup {Garbage} : dir' = With(dir, index, content)
        /\ origin' = Without(origin, index)
  /\ Answer(ERROR) /\ faulted' = TRUE
  /\ UNCHANGED <<command, progress, ran, meddled, listing, met>>

EndGen ==
  /\ stage = "generating" /\ index = command.count
  /\ Answer(OK)
  /\ UNCHANGED <<dir, command, progress, ran, meddled, history>>

-----------------------------------------------------------------------------
(* Somebody else writes a file of the directory, or removes one.           *)
Meddle ==
  /\ meddled < MaxMeddling
  /\ \E i \in Indices :
       /\ \/ \E content \in Texts \cup {Garbage} : dir' = With(dir, i, content)
          \/ i \in DOMAIN dir /\ dir' = Without(dir, i)
       /\ origin' = [j \in DOMAIN origin |-> IF j = i THEN None ELSE origin[j]]
  /\ meddled' = meddled + 1
  /\ UNCHANGED <<command, stage, exit, progress, ran, faulted, listing, met>>

Match == GateMatch \/ MatchLiteral \/ MatchFile \/ ListDirectory \/ ReadEntry \/ EndDirectory
Gen == GateGen \/ MakeDirectory \/ NoExpansion \/ MeetLimit \/ Produce \/ FailToWrite \/ EndGen

Next == Start \/ Load \/ Check \/ ListRules \/ Match \/ Gen \/ Meddle

Spec == Init /\ [][Next]_vars
-----------------------------------------------------------------------------
(* Whether the question the command asks could not be answered, by what    *)
(* really happened.                                                        *)
Refused ==
  \/ command.name = "match" /\ command.source = "none"
  \/ command.grammar # "sound"
  \/ command.name = "match" /\ ~CanRecognize(command.rule)
  \/ /\ command.name = "gen"
     /\ \/ ~CanGenerate(command.rule)
        \/ command.count > 0 /\ Lang[command.rule] = {}

Unanswered ==
  Refused \/ faulted \/ \E i \in DOMAIN met : met[i].limit \/ met[i].read \notin Texts

(* The exit code tells three answers apart (SCOPE.md 11): 2 exactly when   *)
(* part of the question could not be answered, though others of its inputs *)
(* were rejected; 1 exactly when all was answered and some input is not in *)
(* the language; and no input that was listed is passed over.              *)
ExitExact ==
  stage = "exited" =>
    /\ exit = IF Unanswered THEN ERROR
              ELSE IF \E i \in DOMAIN met : met[i].read \notin Lang[command.rule] THEN NO
              ELSE OK
    /\ DOMAIN met = listing

Exited(name) == stage = "exited" /\ command.name = name

(* `gen --out` pairs with `match --dir`, whatever the directory held, which *)
(* commands ran over it, and who else uses it.  A file `gen` wrote stays a *)
(* string of its rule through other runs, their leftovers and failures,    *)
(* until somebody else touches it.  0 means that all the strings asked for *)
(* are there, of this rule.  And `match` looks at every file `gen` wrote,  *)
(* and says no only if there is one that is not of its rule: of another,   *)
(* not written in full, or touched by somebody else.                       *)
PairsWithMatch ==
  /\ \A i \in DOMAIN origin :
       origin[i] # None => i \in DOMAIN dir /\ dir[i] \in Generated[origin[i]]
  /\ Exited("gen") /\ exit = OK /\ command.out =>
       \A i \in 0 .. command.count - 1 :
         i \in DOMAIN origin /\ origin[i] \in {command.rule, None}
  /\ Exited("match") /\ command.source = "dir" /\ exit # ERROR =>
       /\ \A i \in DOMAIN origin : origin[i] # None => i \in listing
       /\ exit = NO /\ Generated[command.rule] \subseteq Lang[command.rule] =>
            \E i \in listing : i \notin DOMAIN origin \/ origin[i] # command.rule
=============================================================================
