------------------------------ MODULE CommandLine ------------------------------
(***************************************************************************)
(* The shell of ask1 from fgets to the call that runs a command, without   *)
(* what the command then does: a line is cut at ";", each command into     *)
(* words, a pipeline into stages, its head at the first redirection.       *)
(*                                                                         *)
(* A word is an atom, and a line a sequence of words, ";", blanks, and     *)
(* perhaps a newline at the end: there is none in what fgets returns of a  *)
(* line that is longer than the buffer, or the last of the input.  Between *)
(* two words that stand side by side there is one blank more.              *)
(***************************************************************************)
EXTENDS Integers, Sequences, FiniteSets, SequencesExt

CONSTANTS
    Words,      \* what may be typed, besides ";", blanks and the newline
    MaxWords,   \* the longest line typed, in words, ";" and blanks
    Near, Deep  \* the directories whose paths fit in PATH_MAX, and those whose do not

Symbols == {">", "<", ">>"}
Semicolon == ";"
Blank   == " "
Bar     == "|"
Newline == "\n"
NULL    == <<"NULL">>     \* an entry of commands[]
Wild    == "wild"         \* a word nobody wrote: what malloc left in an argument vector

\* What the stack may hold where input[] is, before the first fgets.
Garbage == {<<>>} \cup {<<w>> : w \in Words}

\* What the user may type at a prompt.
Texts(least) == UNION {[1 .. n -> Words \cup {Semicolon, Blank}] : n \in least .. MaxWords}
Lines == Texts(1) \cup {Append(l, Newline) : l \in Texts(0)}

ASSUME WordsAssumption == /\ MaxWords \in Nat \ {0}
                          /\ {Semicolon, Blank, Newline, Wild, "NULL"} \cap Words = {}
                          /\ Near \cap Deep = {} /\ "junk" \notin Near \cup Deep

VARIABLES
    pc,        \* where the shell is
    eof,       \* the user has ended the input
    line,      \* history: what fgets returned; at the prompt the first word of its first command
    input,     \* the buffer, as a C string
    commands,  \* commands[], entry j at j + 1
    j,         \* the command of the line the loop is at
    cmd,       \* what it was parsed into
    ran,       \* history: the commands of this line that were run, with their places
    killer,    \* what ended the shell
    cwd,       \* the directory it is in
    current_dir \* the one the prompt shows

vars == <<pc, eof, line, input, commands, j, cmd, ran, killer, cwd, current_dir>>
dirs == <<cwd, current_dir>>

\* A command record: the argument vectors of its stages (one unless it is a pipeline),
\* the redirection of the first, and the file it names.
NoCommand == [stages |-> <<>>, symbol |-> "None", file |-> "none"]

\* getcwd and basename, into a new buffer: a path that does not fit leaves it as
\* malloc found it.
Shown(d) == IF d \in Near THEN d ELSE "junk"

Init == /\ pc = "prompt" /\ eof = FALSE /\ line = <<>> /\ input \in Garbage
        /\ commands = <<>> /\ j = 0 /\ cmd = NoCommand /\ ran = <<>> /\ killer = "none"
        /\ cwd \in Near \cup Deep /\ current_dir = Shown(cwd)
--------------------------------------------------------------------------------
(***************************************************************************)
(* Cutting.                                                                *)
(***************************************************************************)
\* A sequence of tokens, cut at every t; pieces may be empty.
CutAt(s, t) ==
    FoldLeft(LAMBDA pieces, w : IF w = t THEN Append(pieces, <<>>)
                                ELSE [pieces EXCEPT ![Len(pieces)] = Append(@, w)],
             << <<>> >>, s)

\* A sequence without what is in S, which strtok passes over.
Without(s, S) ==
    FoldLeft(LAMBDA kept, w : IF w \in S THEN kept ELSE Append(kept, w), <<>>, s)

\* strtok(input, ";") passes over empty pieces, but not over those that are blank.
split_command(s) == Without(CutAt(s, Semicolon), {<<>>})

\* strtok(commands[j], " \n").
WordsOf(piece) == Without(piece, {Blank, Newline})

MutRemains(s) ==
    LET pieces == split_command(s)
    IN  IF pieces = <<>> THEN s
        ELSE IF WordsOf(Last(pieces)) = <<>> THEN Last(pieces)
        ELSE <<Head(WordsOf(Last(pieces)))>>

\* What strtok leaves of the buffer: it ends the string behind the first command,
\* and then behind the first word of that, if it has one.
Remains(s) ==
    LET pieces == split_command(s)
    IN  IF pieces = <<>> THEN s
        ELSE IF WordsOf(pieces[1]) = <<>> THEN pieces[1]
        ELSE <<Head(WordsOf(pieces[1]))>>

MutKill(c, k) == [i \in 1 .. Len(c) |-> IF i = k THEN NULL ELSE c[i]]

\* The loop writes its NULL to commands[k], not to cmd->args[k].
Kill(c, k) == [i \in 1 .. Len(c) |-> IF i = k + 1 THEN NULL ELSE c[i]]

is_pipeline(args) == \E i \in 1 .. Len(args) : args[i] = Bar

\* What becomes of the words of the first stage: they are written from an index on that
\* holds what the stack held.  Below the vector some of them are lost; above its start
\* they stand behind what malloc left, and are lost if that is a NULL.
Strays(words) == {SubSeq(words, n, Len(words)) : n \in 1 .. Len(words) + 1}
                 \cup {<<Wild>>, <<Wild>> \o words}
Firsts(args)  == IF is_pipeline(args) THEN Strays(CutAt(args, Bar)[1]) ELSE {args}

MutPipeline(args, first, behind) ==
    LET stages == [CutAt(args, Bar) EXCEPT ![1] = first]
    IN  [i \in 1 .. Len(stages) |-> IF i = 1 THEN stages[1] ELSE <<>>]

\* Every later stage starts at 0, and each is ended at its own length, but the last at
\* that of the line: there execvp runs on into what malloc left behind the words.
create_pipeline(args, first, behind) ==
    LET stages == [CutAt(args, Bar) EXCEPT ![1] = first]
    IN  [stages EXCEPT ![Len(stages)] = @ \o behind]

\* The first redirection of a vector, 0 if there is none.
FirstSymbol(args) == SelectInSeq(args, LAMBDA w : w \in Symbols)
Dangling(args) == FirstSymbol(args) # 0 /\ FirstSymbol(args) = Len(args)

\* contains_redirects and update_args look at the first stage only.
contains_redirects(stages) ==
    LET args == stages[1]
        i == FirstSymbol(args)
    IN  IF i = 0 THEN [NoCommand EXCEPT !.stages = stages]
        ELSE [stages |-> [stages EXCEPT ![1] = SubSeq(args, 1, i - 1)],
              symbol |-> args[i], file |-> args[i + 1]]
--------------------------------------------------------------------------------
(***************************************************************************)
(* main and execute_commands.                                              *)
(***************************************************************************)
Die(k) == pc' = "dead" /\ killer' = k /\ UNCHANGED <<eof, line, input, commands, j, cmd, ran, dirs>>

ReadLine ==
    /\ pc = "prompt" /\ ~eof
    /\ \E l \in Lines : pc' = "split" /\ line' = l /\ input' = l
    /\ UNCHANGED <<eof, commands, j, cmd, ran, killer, dirs>>

\* fgets returns NULL, and nobody looks: input is what the last line left.
ReadNothing == /\ pc = "prompt"
               /\ pc' = "split" /\ eof' = TRUE
               /\ UNCHANGED <<line, input, commands, j, cmd, ran, killer, dirs>>

Split == /\ pc = "split"
         /\ pc' = "command"
         /\ commands' = split_command(input)
         /\ input' = Remains(input)
         /\ UNCHANGED <<eof, line, j, cmd, ran, killer, dirs>>

Place == commands[j + 1]
Args  == IF Place = NULL THEN <<>> ELSE WordsOf(Place)

\* A command with no words, or one whose entry is NULL: k is 0.
SkipCommand == /\ pc = "command" /\ j < Len(commands)
               /\ Args = <<>>
               /\ commands' = Kill(commands, 0)
               /\ j' = j + 1
               /\ UNCHANGED <<pc, eof, line, input, cmd, ran, killer, dirs>>

\* The words, the NULL, the stages, the redirection.
ParseCommand ==
    /\ pc = "command" /\ j < Len(commands) /\ Args # <<>>
    /\ pc' = "run"
    /\ commands' = Kill(commands, Len(Args))
    /\ \E behind \in {<<>>, <<Wild>>}, first \in Firsts(Args) :
          /\ is_pipeline(Args) \/ behind = <<>>
          /\ ~Dangling(first)
          /\ cmd' = contains_redirects(IF is_pipeline(Args) THEN create_pipeline(Args, first, behind)
                                       ELSE <<first>>)
    /\ UNCHANGED <<eof, line, input, j, ran, killer, dirs>>

MutWrongFormat == /\ pc = "command" /\ j < Len(commands)
                  /\ Args # <<>> /\ Dangling(Args)
                  /\ Die("format")

\* update_args: "Wrong format for redirection".
WrongFormat ==
    /\ pc = "command" /\ j < Len(commands)
    /\ Args # <<>> /\ \E first \in Firsts(Args) : Dangling(first)
    /\ Die("format")

\* args[k] is what malloc left there, and the index create_pipeline starts with what
\* the stack holds: the shell may run into memory that is not its own.
Astray == pc = "command" /\ j < Len(commands) /\ Die("wild")

\* What the user expects the shell to do, read off the line itself: command p lies
\* behind as many ";" that end one.  One that is blank counts.
Ends(n) == line[n] = Semicolon /\ n > 1 /\ line[n - 1] # Semicolon
PlaceOf(n) == Cardinality({i \in 1 .. n : Ends(i)})
Typed(p) == LET mine == Without([n \in 1 .. Len(line) |-> n],
                                {n \in 1 .. Len(line) : PlaceOf(n) # p \/ line[n] \notin Words})
            IN  [i \in 1 .. Len(mine) |-> line[mine[i]]]

EndLine == /\ pc = "command" /\ j = Len(commands)
           /\ pc' = "prompt"
           /\ line' = IF Typed(0) = <<>> THEN <<>> ELSE <<Head(Typed(0))>>
           /\ commands' = <<>> /\ j' = 0 /\ cmd' = NoCommand /\ ran' = <<>>
           /\ UNCHANGED <<eof, input, killer, dirs>>

Done == /\ pc' = "command" /\ j' = j + 1
        /\ ran' = Append(ran, [place |-> j, cmd |-> cmd])
        /\ UNCHANGED <<eof, line, input, commands, cmd, killer>>

\* is_piped, and what is_built_in_cmd finds at args[0].
IsPiped   == pc = "run" /\ Len(cmd.stages) > 1
IsNothing == pc = "run" /\ cmd.stages = << <<>> >>
Is(names) == /\ pc = "run" /\ Len(cmd.stages) = 1
             /\ cmd.stages[1] # <<>> /\ Head(cmd.stages[1]) \in names
Programs == Words \ {"cd", "quit"}

\* The stages, built-ins among them, run in children.  Only here the shell looks at
\* what fork returns, and exits.
RunPipeline == IsPiped /\ ((Done /\ UNCHANGED dirs) \/ Die("fork"))

\* Nothing stands before the redirection: is_built_in_cmd(NULL).
RunNothing == IsNothing /\ Die("null")

RunQuit == Is({"quit"}) /\ Die("quit")

MutRunChdir == /\ Is({"cd"}) /\ Done
               /\ Len(cmd.stages[1]) > 1 => cwd' \in Near \cup Deep
               /\ Len(cmd.stages[1]) <= 1 => cwd' = cwd
               /\ UNCHANGED current_dir

\* A missing argument, or a chdir that fails, changes nothing.
RunChdir == /\ Is({"cd"}) /\ Done
            /\ \/ UNCHANGED dirs
               \/ /\ Len(cmd.stages[1]) > 1
                  /\ cwd' \in Near \cup Deep
                  /\ current_dir' = Shown(cwd')

\* One child, and whatever becomes of it, or of the fork, the loop goes on.
RunSimple == Is(Programs) /\ cmd.symbol = "None" /\ Done /\ UNCHANGED dirs

\* A child that opens the file before it execs.
RunRedirected == Is(Programs) /\ cmd.symbol # "None" /\ Done /\ UNCHANGED dirs

Execute == \/ Split \/ SkipCommand \/ ParseCommand \/ WrongFormat \/ Astray \/ EndLine
           \/ RunPipeline \/ RunNothing \/ RunQuit \/ RunChdir \/ RunSimple \/ RunRedirected

Dead == pc = "dead" /\ UNCHANGED vars

Next == ReadLine \/ ReadNothing \/ Execute \/ Dead
Spec == Init /\ [][Next]_vars
--------------------------------------------------------------------------------
Ran(p)   == \E e \in Range(ran) : e.place = p
FirstStage(w) == SubSeq(w, 1, SelectInSeq(Append(w, Bar), LAMBDA t : t = Bar) - 1)

\* commands[k] = NULL loses commands, and nothing else does: one is passed over
\* exactly if an earlier one that was run has as many words as its own number.
\* So the first command of a line is always run.
DroppedByCount ==
    line # <<>> => \A p \in 0 .. j - 1 : Typed(p) # <<>> =>
        (Ran(p) <=> \A q \in 0 .. p - 1 : Ran(q) => Len(Typed(q)) # p)

\* What is run is what was typed: its stages, joined by "|", are its text, up to the
\* rest of the first stage behind a redirection.  What memory held may be handed to the
\* last stage of a pipeline behind its words, and put the words of its first stage
\* elsewhere; no stage in between, and no command that is not piped, is touched.
AsTyped ==
    line # <<>> => \A e \in Range(ran) :
        LET typed  == Typed(e.place)
            stages == [i \in 1 .. Len(e.cmd.stages) |->
                          IF i = 1 \/ i < Len(e.cmd.stages) THEN e.cmd.stages[i]
                          ELSE Without(e.cmd.stages[i], {Wild})]
            others == FlattenSeq([i \in 1 .. Len(stages) - 1 |-> <<Bar>> \o stages[i + 1]])
            first  == IF e.cmd.symbol = "None" THEN stages[1]
                      ELSE stages[1] \o <<e.cmd.symbol, e.cmd.file>>
        IN  /\ \E w \in IF Len(stages) > 1 THEN Strays(FirstStage(typed)) ELSE {typed} :
                   IsPrefix(first, w) /\ (e.cmd.symbol = "None" => first = w)
            /\ typed = FirstStage(typed) \o others
            /\ Range(stages[1]) \cap Symbols = {}
            /\ \A i \in 1 .. Len(stages) : Bar \notin Range(stages[i])

\* Whatever memory holds aside, four things end the shell: quit on its own, a first
\* stage that ends in its redirection, a redirection with no command before it, and a
\* fork that fails in a pipeline.  No child, and no quit within a pipeline, does.
KilledBy ==
    line # <<>> /\ pc = "dead" =>
        LET typed == Typed(j)
            piped == FirstStage(typed) # typed
        IN  \/ killer = "quit" /\ ~piped /\ typed[1] = "quit"
            \/ killer = "format" /\ ~piped /\ Dangling(typed)
            \/ killer = "format" /\ piped /\ \E w \in Strays(FirstStage(typed)) : Dangling(w)
            \/ killer = "null" /\ ~piped /\ typed[1] \in Symbols
            \/ killer = "fork" /\ piped
            \/ killer = "wild"

\* The end of the input is not the end of the shell: every round from then on runs
\* the first word of the last line, without its arguments, and nothing else.  Nothing is
\* said of a line whose first command is blank: line is then empty at the prompt.
RepeatsFirstWord ==
    eof /\ line # <<>> =>
        /\ Len(line) = 1
        /\ line # <<Bar>> => \A e \in Range(ran) : e.cmd = [NoCommand EXCEPT !.stages = <<line>>]
        /\ pc = "command" /\ j = Len(commands) => Len(ran) = 1

\* The prompt names the directory the next command runs in, or one whose path was too
\* long is shown as whatever malloc returned; a cd that fails, or in a pipeline, or that
\* was dropped, shows nowhere.
PromptTrue == pc = "prompt" => current_dir = cwd \/ cwd \in Deep
================================================================================
