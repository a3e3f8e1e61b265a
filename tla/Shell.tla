-------------------------------- MODULE Shell --------------------------------
(* The ManiOS shell, one command line at a time (userland/bin/sh.c): the     *)
(* words become stages with redirections, and run_pipeline starts one        *)
(* process per stage, each inheriting the shell's descriptors 0 and 1, which *)
(* the shell points where the stage needs them and then puts back.           *)
EXTENDS Naturals, Sequences, FiniteSets

CONSTANTS STAGES_MAX, MaxWords,
          Codes                \* what a process may exit with

VARIABLES words,       \* "cd" (a builtin), "a" (any other word), or an operator
          stages,      \* what parse made of them
          k,           \* the stage run_pipeline starts next
          phase,       \* "parse", "start", "wait", "done"
          held,        \* descriptors the shell holds besides 0, 1 and 2
          next_in,     \* the end of the pipe the next stage reads, or None
          pids,        \* per stage: "none", "run", "exited", "waited"
          ends,        \* per stage: the process's descriptors 0 and 1
          codes,       \* per stage: what its process exited with
          status

vars == <<words, stages, k, phase, held, next_in, pids, ends, codes, status>>

Ops == {"|", "<", ">"}
None == <<"none", 0>>
Tty == <<"tty", 0>>
ReadEnd(i) == <<"r", i>>
WriteEnd(i) == <<"w", i>>
Saved == {<<"saved", 0>>, <<"saved", 1>>}

NewStage == [argv |-> <<>>, in |-> FALSE, out |-> FALSE]

(* parse: one pass over the words; the stages so far, the one being filled,  *)
(* or an error.  A redirection takes the word after it.                      *)
RECURSIVE ParseFrom(_, _, _)
ParseFrom(i, done, s) ==
  LET n == Len(words)
      w == IF i <= n THEN words[i] ELSE "end"
  IN  CASE w \in {"<", ">"} ->
             IF i + 1 > n \/ words[IF i + 1 > n THEN i ELSE i + 1] \in Ops THEN <<>>
             ELSE ParseFrom(i + 2, done, IF w = "<" THEN [s EXCEPT !.in = TRUE]
                                         ELSE [s EXCEPT !.out = TRUE])
        [] w \notin Ops \cup {"end"} ->
             ParseFrom(i + 1, done, [s EXCEPT !.argv = Append(@, w)])
        [] OTHER ->
             IF s.argv = <<>> THEN <<>>
             ELSE IF w = "end" THEN Append(done, s)
             ELSE IF Len(done) + 1 = STAGES_MAX THEN <<>>
             ELSE ParseFrom(i + 1, Append(done, s), NewStage)

Parse == ParseFrom(1, <<>>, NewStage)

Builtin(s) == s.argv[1] = "cd"

(* run: a syntax error is status 2; a builtin alone, not redirected, runs in *)
(* the shell itself; anything else goes to run_pipeline.                     *)
RunSyntaxError ==
  /\ phase = "parse" /\ words # <<>> /\ Parse = <<>>
  /\ status' = 2 /\ phase' = "done"
  /\ UNCHANGED <<words, stages, k, held, next_in, pids, ends, codes>>

RunBuiltin ==
  /\ phase = "parse" /\ Len(Parse) = 1
  /\ ~Parse[1].in /\ ~Parse[1].out /\ Builtin(Parse[1])
  /\ stages' = Parse /\ phase' = "done" /\ status' \in {0, 1}
  /\ UNCHANGED <<words, k, held, next_in, pids, ends, codes>>

RunPipeline ==
  /\ phase = "parse" /\ Parse # <<>>
  /\ ~(Len(Parse) = 1 /\ ~Parse[1].in /\ ~Parse[1].out /\ Builtin(Parse[1]))
  /\ stages' = Parse /\ phase' = "start" /\ held' = Saved
  /\ UNCHANGED <<words, k, next_in, pids, ends, codes, status>>

RunNothing ==
  /\ phase = "parse" /\ words = <<>>
  /\ phase' = "done"
  /\ UNCHANGED <<words, stages, k, held, next_in, pids, ends, codes, status>>

(* One turn of run_pipeline's loop.  `in` and `out` say whether the stage's  *)
(* files open, `link` whether pipe() works, `born` whether spawn() does.     *)
Started(in, out, link, born) ==
  LET s == stages[k]
      given_in == IF s.in THEN IF in THEN <<"file", k>> ELSE None ELSE next_in
      linked == ~s.out /\ k < Len(stages) /\ link
      given_out == IF s.out THEN IF out THEN <<"file", k>> ELSE None
                   ELSE IF linked THEN WriteEnd(k) ELSE None
      runs == (s.in => in) /\ (s.out => out) /\ ~Builtin(s) /\ born
  IN  /\ pids' = [pids EXCEPT ![k] = IF runs THEN "run" ELSE "none"]
      /\ ends' = [ends EXCEPT ![k] =
                    IF runs THEN <<IF given_in = None THEN Tty ELSE given_in,
                                   IF given_out = None THEN Tty ELSE given_out>>
                    ELSE <<None, None>>]
      /\ next_in' = IF linked THEN ReadEnd(k) ELSE None

StageKeepsOut(in, out, link, born) ==
  /\ phase = "start" /\ k <= Len(stages)
  /\ Started(in, out, link, born)
  /\ held' = (held \ {next_in}) \cup (IF next_in' = None THEN {} ELSE {next_in', WriteEnd(k)})
  /\ k' = k + 1
  /\ UNCHANGED <<words, stages, phase, codes, status>>

Stage(in, out, link, born) ==
  /\ phase = "start" /\ k <= Len(stages)
  /\ Started(in, out, link, born)
  /\ held' = (held \ {next_in}) \cup ({next_in'} \ {None})
  /\ k' = k + 1
  /\ UNCHANGED <<words, stages, phase, codes, status>>

AllStarted ==
  /\ phase = "start" /\ k > Len(stages)
  /\ held' = held \ {next_in} /\ next_in' = None
  /\ status' = 127 /\ phase' = "wait" /\ k' = 1
  /\ UNCHANGED <<words, stages, pids, ends, codes>>

Holders(fd) == {i \in DOMAIN ends : pids[i] = "run" /\ fd \in {ends[i][1], ends[i][2]}}

(* A stage may end once what it reads ends, and what it writes is read or    *)
(* has no reader left.                                                       *)
CanEnd(i) ==
  /\ pids[i] = "run"
  /\ \A j \in 1 .. STAGES_MAX : ends[i][1] = ReadEnd(j) =>
        WriteEnd(j) \notin held /\ Holders(WriteEnd(j)) \subseteq {i}
  /\ \A j \in 1 .. STAGES_MAX : ends[i][2] = WriteEnd(j) =>
        Holders(ReadEnd(j)) # {} \/ ReadEnd(j) \notin held

StageEnds(i, code) ==
  /\ CanEnd(i)
  /\ pids' = [pids EXCEPT ![i] = "exited"]
  /\ codes' = [codes EXCEPT ![i] = code]
  /\ UNCHANGED <<words, stages, k, phase, held, next_in, ends, status>>

(* The waits, in the order of the stages, and report.                        *)
Wait ==
  /\ phase = "wait" /\ k <= Len(stages) /\ pids[k] \in {"none", "exited"}
  /\ IF pids[k] = "exited"
     THEN /\ pids' = [pids EXCEPT ![k] = "waited"]
          /\ status' = codes[k]
     ELSE UNCHANGED <<pids, status>>
  /\ k' = k + 1
  /\ UNCHANGED <<words, stages, phase, held, next_in, ends, codes>>

AllWaited ==
  /\ phase = "wait" /\ k > Len(stages)
  /\ status' = IF pids[Len(stages)] = "none" THEN 127 ELSE status
  /\ held' = held \ Saved
  /\ phase' = "done"
  /\ UNCHANGED <<words, stages, k, next_in, pids, ends, codes>>

Init ==
  /\ words \in UNION {[1 .. n -> Ops \cup {"cd", "a"}] : n \in 0 .. MaxWords}
  /\ stages = <<>> /\ k = 1 /\ phase = "parse" /\ held = {}
  /\ next_in = None /\ status = 0
  /\ pids = [i \in 1 .. STAGES_MAX |-> "none"]
  /\ ends = [i \in 1 .. STAGES_MAX |-> <<None, None>>]
  /\ codes = [i \in 1 .. STAGES_MAX |-> 0]

Next ==
  \/ RunSyntaxError \/ RunBuiltin \/ RunPipeline \/ RunNothing \/ AllStarted \/ Wait \/ AllWaited
  \/ \E in, out, link, born \in BOOLEAN : Stage(in, out, link, born)
  \/ \E i \in 1 .. STAGES_MAX, code \in Codes : StageEnds(i, code)

Spec == Init /\ [][Next]_vars

-----------------------------------------------------------------------------
(* What the words say, read off them without a pass: a "<" or ">" takes the  *)
(* word after it, "|" separates, and every stage has a word of its own.      *)
Taken(i) == i > 1 /\ words[i - 1] \in {"<", ">"}
BarsBefore(i) == Cardinality({j \in 1 .. i - 1 : words[j] = "|"})
Plain(s) == {i \in DOMAIN words : words[i] \notin Ops /\ ~Taken(i) /\ BarsBefore(i) = s - 1}
Bars == BarsBefore(Len(words) + 1)

ReadsRight ==
  IF /\ \A i \in DOMAIN words : words[i] \in {"<", ">"} =>
             i < Len(words) /\ words[IF i < Len(words) THEN i + 1 ELSE i] \notin Ops
     /\ \A s \in 1 .. Bars + 1 : Plain(s) # {}
     /\ Bars < STAGES_MAX
  THEN /\ Len(Parse) = Bars + 1
       /\ \A s \in DOMAIN Parse :
            /\ Len(Parse[s].argv) = Cardinality(Plain(s))
            /\ Parse[s].argv[1] = words[CHOOSE i \in Plain(s) : \A j \in Plain(s) : i <= j]
            /\ Parse[s].in = \E i \in DOMAIN words : words[i] = "<" /\ BarsBefore(i) = s - 1
  ELSE Parse = <<>>

(* A command line does what its words say and leaves the shell as it was:    *)
(* the stages are the ones the words describe; while the shell waits, some   *)
(* stage it waits for can end, for the shell keeps no end of any pipe        *)
(* (sh.c: "The shell's copies go, or readers would never see end of file");  *)
(* and afterwards every process was waited for, no descriptor is left over,  *)
(* and the status is the last stage's, 127 if it never ran.                  *)
ShellTrue ==
  /\ phase = "parse" => ReadsRight
  /\ phase = "wait" =>
       \/ \A i \in DOMAIN pids : pids[i] # "run"
       \/ \E i \in DOMAIN pids : CanEnd(i)
  /\ phase = "done" =>
       /\ held = {}
       /\ \A i \in DOMAIN pids : pids[i] \in {"none", "waited"}
       /\ stages # <<>> /\ ~Builtin(stages[1]) =>
            status = IF pids[Len(stages)] = "waited" THEN codes[Len(stages)] ELSE 127
=============================================================================
