------------------------------- MODULE Shell -------------------------------
(***************************************************************************)
(* The shell, src/shell/shell.c, run by the kernel thread over the process *)
(* table: it reads a line, splits it, and runs a command.  The timer and   *)
(* the scheduler interrupt it between any two steps.                       *)
(*                                                                         *)
(* A line is a sequence of chunks: blanks, quotes, and pieces of text that *)
(* hold neither ("/" is a piece of its own).  What commands print is left  *)
(* out; so is last_command, which is stored and never read.                *)
(***************************************************************************)
EXTENDS Process, Sequences, SequencesExt

CONSTANTS
    MaxArgs,      \* the size of argv in shell_execute_command (64)
    Words,        \* the words users type, as sequences of chunks
    MaxWords,     \* the most words typed on a line
    Gaps,         \* what users type between two words: blanks
    OddLines,     \* lines with a quote that is not at the edge of a word
    DirNames,     \* the paths that fs_root's finddir answers with a directory
    FileNames,    \* the paths that it answers with a file
    RawFiles      \* those that have kept the callbacks of fs_create_node

Quotes == {"DQ", "SQ"}
Blanks == {"SP", "TAB"}
NUL    == "NUL"
SLASH  == "/"

Chunks(s) == {s[i] : i \in 1 .. Len(s)}

(* Where the last slash of a path is; 0 if it has none.                    *)
LastSlash(dir) ==
    LET slashes == {i \in 1 .. Len(dir) : dir[i] = SLASH}
    IN IF slashes = {} THEN 0 ELSE CHOOSE i \in slashes : \A j \in slashes : j <= i

(* A finddir that takes paths finds the directories on the way; those that *)
(* are in the tree stay, for no code removes one.                          *)
ASSUME ShellAssumption ==
    /\ MaxArgs \in Nat \ {0} /\ MaxWords \in Nat
    /\ \A w \in Words : w \in Seq(Chunks(w) \ {NUL})
    /\ \A b \in Gaps : b \in Seq(Blanks) \ {<<>>}
    /\ <<>> \notin DirNames \cup FileNames
    /\ \A n \in DirNames :
          LastSlash(n) \notin {0, 1} => SubSeq(n, 1, LastSlash(n) - 1) \in DirNames
    /\ DirNames \cap FileNames = {} /\ RawFiles \subseteq FileNames

VARIABLES
    sh,           \* "boot", "prompt", "run", "ps", "hung", "exited"
    argv,         \* the arguments of the command that runs
    typed,        \* history: the words the user meant, if they are known
    current_dir,  \* shell_ctx.current_dir, as a sequence of chunks
    exit_code,    \* shell_ctx.exit_code
    root,         \* fs_root: "NULL", "own" callbacks, or "builtin" ones
    current,      \* the list walker of cmd_ps
    count         \* the rows cmd_ps has printed

shellVars == <<sh, argv, typed, current_dir, exit_code, root, current, count>>
allVars   == <<vars, shellVars>>

OK == 0
COMMAND_NOT_FOUND == 1
INVALID_ARGUMENTS == 2
EXIT == 5

Commands == {"help", "clear", "echo", "exit", "version", "ls", "cd", "cat",
             "ps", "uptime", "meminfo"}

-----------------------------------------------------------------------------
(***************************************************************************)
(* shell_parse_args: one pass over the line, which is cut in place by      *)
(* zeros.  args holds the positions the arguments start at.                *)
(***************************************************************************)
NewArg(s, i) ==
    IF s.in_arg THEN s
    ELSE [s EXCEPT !.args = Append(@, i), !.in_arg = TRUE]

(* A fault in ParseStep: a closing quote does not end the argument's text. *)
ParseKeepsQuote(s, i) ==
    LET c == s.buf[i] IN
    IF Len(s.args) >= MaxArgs THEN s
    ELSE CASE c \in Quotes /\ s.quote = NUL -> NewArg([s EXCEPT !.quote = c], i + 1)
           [] c = s.quote -> [s EXCEPT !.quote = NUL]
           [] c \in Blanks /\ s.quote = NUL ->
                 IF s.in_arg THEN [s EXCEPT !.buf[i] = NUL, !.in_arg = FALSE] ELSE s
           [] OTHER -> NewArg(s, i)

(* One turn of the loop, which ends early when argv is full; quote_char is *)
(* NUL outside quotes.                                                     *)
ParseStep(s, i) ==
    LET c == s.buf[i] IN
    IF Len(s.args) >= MaxArgs THEN s
    ELSE CASE c \in Quotes /\ s.quote = NUL -> NewArg([s EXCEPT !.quote = c], i + 1)
           [] c = s.quote -> [s EXCEPT !.quote = NUL, !.buf[i] = NUL]
           [] c \in Blanks /\ s.quote = NUL ->
                 IF s.in_arg THEN [s EXCEPT !.buf[i] = NUL, !.in_arg = FALSE] ELSE s
           [] OTHER -> NewArg(s, i)

(* The text from position i to the next zero.                              *)
Text(buf, i) ==
    LET zeros == {j \in i .. Len(buf) : buf[j] = NUL}
        end   == IF zeros = {} THEN Len(buf)
                 ELSE (CHOOSE j \in zeros : \A k \in zeros : j <= k) - 1
    IN SubSeq(buf, i, end)

shell_parse_args(line) ==
    LET start == [buf |-> line, args |-> <<>>, quote |-> NUL, in_arg |-> FALSE]
        after[i \in 0 .. Len(line)] ==
            IF i = 0 THEN start ELSE ParseStep(after[i - 1], i)
        done  == after[Len(line)]
    IN [k \in 1 .. Len(done.args) |-> Text(done.buf, done.args[k])]

-----------------------------------------------------------------------------
(***************************************************************************)
(* The commands.                                                           *)
(***************************************************************************)
argc == Len(argv)
IsCommand(w) == \E c \in Commands : w = <<c>>
Runs(c)      == argc > 0 /\ argv[1] = <<c>>

(* A fault in Up: the slash of the root is cut off too.                    *)
UpCutsRoot(dir) ==
    IF LastSlash(dir) = 0 THEN dir ELSE SubSeq(dir, 1, LastSlash(dir) - 1)

(* cd ..                                                                   *)
Up(dir) ==
    CASE LastSlash(dir) = 0 -> dir
      [] LastSlash(dir) = 1 -> <<SLASH>>
      [] OTHER              -> SubSeq(dir, 1, LastSlash(dir) - 1)

(* The path a command hands to fs_finddir(fs_root, path), if any.          *)
ListedPath == IF argc > 1 THEN argv[2] ELSE current_dir
LookedUp ==
    CASE Runs("ls") /\ ListedPath # <<SLASH>> -> {ListedPath}
      [] Runs("cd") /\ argc > 1 /\ argv[2] \notin {<<SLASH>>, <<"..">>} -> {argv[2]}
      [] Runs("cat") /\ argc > 1 -> {argv[2]}
      [] OTHER -> {}

(* The callbacks of fs_create_node call themselves and never return: those *)
(* of the root, or the fs_open of a file that cat has found.               *)
Hangs ==
    \/ root = "builtin" /\ LookedUp # {}
    \/ root = "own" /\ Runs("cat") /\ argc > 1 /\ argv[2] \in RawFiles

Found(path, names) == root = "own" /\ path \in names

(* What ls shows: the root, if there is one, or a directory it finds.      *)
CanList(dir) == IF dir = <<SLASH>> THEN root # "NULL" ELSE Found(dir, DirNames)

(* The handlers that only print.                                           *)
Printers == {"clear", "echo", "version"}
Reports  == {"uptime", "meminfo"}

cmd_help ==
    IF argc = 1 \/ IsCommand(argv[2]) THEN OK ELSE COMMAND_NOT_FOUND

cmd_exit == EXIT

cmd_ls == IF CanList(ListedPath) THEN OK ELSE INVALID_ARGUMENTS

(* Returns once the file's own open, read and close have (see Hangs).      *)
cmd_cat ==
    IF argc > 1 /\ Found(argv[2], FileNames) THEN OK ELSE INVALID_ARGUMENTS

CdStatus ==
    IF argc = 1 \/ argv[2] \in {<<SLASH>>, <<"..">>} \/ Found(argv[2], DirNames)
    THEN OK ELSE INVALID_ARGUMENTS

(* The status of the command whose name the first argument is.             *)
Status ==
    CASE argc = 0     -> OK
      [] Runs("help") -> cmd_help
      [] Runs("exit") -> cmd_exit
      [] Runs("ls")   -> cmd_ls
      [] Runs("cd")   -> CdStatus
      [] Runs("cat")  -> cmd_cat
      [] \E c \in Printers \cup Reports : Runs(c) -> OK
      [] OTHER        -> COMMAND_NOT_FOUND

(* A fault in cmd_cd: the path is stored before it is looked up.           *)
CdStoresFirst ==
    IF argc = 1 THEN <<SLASH>>
    ELSE IF argv[2] = <<"..">> THEN Up(current_dir) ELSE argv[2]

(* The directory cmd_cd leaves the shell in.                               *)
cmd_cd ==
    IF argc = 1 THEN <<SLASH>>
    ELSE IF argv[2] = <<"..">> THEN Up(current_dir)
    ELSE IF CdStatus = OK THEN argv[2] ELSE current_dir

-----------------------------------------------------------------------------
(***************************************************************************)
(* The loop.                                                               *)
(***************************************************************************)
ShellAt(label) == At("idle") /\ sh = label

ShellBoot ==
    /\ sh = "boot" /\ argv = <<>> /\ typed = <<>>
    /\ current_dir = <<>> /\ exit_code = OK
    /\ root \in {"NULL", "own", "builtin"}
    /\ current = NULL /\ count = 0

(* kernel_main starts the shell without this call.                         *)
shell_init ==
    /\ ShellAt("boot")
    /\ current_dir' = <<SLASH>> /\ exit_code' = OK
    /\ UNCHANGED <<vars, sh, argv, typed, root, current, count>>

shell_run ==
    /\ ShellAt("boot")
    /\ sh' = "prompt"
    /\ UNCHANGED <<vars, argv, typed, current_dir, exit_code, root, current, count>>

(* The ways to type a word: as it is, or between quotes it does not hold.  *)
Typings(w) ==
    (IF w = <<>> \/ Chunks(w) \cap (Blanks \cup Quotes) # {} THEN {} ELSE {w})
      \cup {<<q>> \o w \o <<q>> : q \in Quotes \ Chunks(w)}

(* The lines ls with the word w behind them, after a gap b.                *)
Longer(ls, b, w) ==
    {IF l = <<>> THEN t ELSE l \o b \o t : l \in ls, t \in Typings(w)}

(* The lines that mean the words ws.                                       *)
Lines(ws, b) ==
    LET lines[k \in 0 .. Len(ws)] ==
            IF k = 0 THEN {<<>>} ELSE Longer(lines[k - 1], b, ws[k])
    IN lines[Len(ws)]

(* terminal_read_line and, unless the line is empty, shell_parse_args.     *)
Read(line, ws) ==
    /\ sh' = IF line = <<>> THEN "prompt" ELSE "run"
    /\ argv' = shell_parse_args(line)
    /\ typed' = ws

ReadLine ==
    /\ ShellAt("prompt")
    /\ \/ \E ws \in SeqOf(Words, MaxWords), b \in Gaps :
             \E line \in Lines(ws, b) : Read(line, ws)
       \/ \E line \in OddLines : Read(line, shell_parse_args(line))
    /\ UNCHANGED <<vars, current_dir, exit_code, root, current, count>>

Finish(status) ==
    /\ sh' = IF status = EXIT THEN "exited" ELSE "prompt"
    /\ exit_code' = IF status = EXIT THEN exit_code ELSE status
    /\ argv' = <<>> /\ typed' = <<>>

(* shell_execute_command for every command but ps.                         *)
Execute ==
    /\ ShellAt("run")
    /\ ~ Runs("ps")
    /\ IF Hangs
       THEN sh' = "hung" /\ UNCHANGED <<argv, typed, current_dir, exit_code>>
       ELSE /\ Finish(Status)
            /\ current_dir' = IF Runs("cd") THEN cmd_cd ELSE current_dir
    /\ UNCHANGED <<vars, root, current, count>>

cmd_ps ==
    /\ ShellAt("run")
    /\ Runs("ps")
    /\ sh' = "ps"
    /\ current' = process_list /\ count' = 0
    /\ UNCHANGED <<vars, argv, typed, current_dir, exit_code, root>>

(* A fault in PsRow: the walk goes round as the scheduler's does.          *)
PsRowRound ==
    /\ ShellAt("ps")
    /\ IF current # NULL
       THEN /\ current' = Follow(current) /\ count' = (count + 1) % (MaxPid + 2)
            /\ UNCHANGED <<sh, argv, typed, exit_code>>
       ELSE Finish(OK) /\ count' = 0 /\ UNCHANGED current
    /\ UNCHANGED <<vars, current_dir, root>>

(* One turn of its loop, or its return.                                    *)
PsRow ==
    /\ ShellAt("ps")
    /\ IF current # NULL
       THEN /\ current' = next[current] /\ count' = count + 1
            /\ UNCHANGED <<sh, argv, typed, exit_code>>
       ELSE Finish(OK) /\ count' = 0 /\ UNCHANGED current
    /\ UNCHANGED <<vars, current_dir, root>>

Command == Execute \/ cmd_ps \/ PsRow

(* The thread uses the process table before it becomes the shell.          *)
Kernel ==
    /\ Tick \/ Scan \/ (sh = "boot" /\ Thread)
    /\ UNCHANGED shellVars

ShellInit == Init /\ ShellBoot

ShellNext == shell_init \/ shell_run \/ ReadLine \/ Command \/ Kernel

(* The timer keeps ticking and the handler keeps executing; between two    *)
(* ticks there is time for the thread, which carries on with a command it  *)
(* has begun.  Nobody has to type.                                         *)
ShellSpec ==
    /\ ShellInit /\ [][ShellNext]_allVars
    /\ WF_allVars(Tick /\ UNCHANGED shellVars)
    /\ WF_allVars(Scan /\ UNCHANGED shellVars)
    /\ SF_allVars(Command)

-----------------------------------------------------------------------------
(***************************************************************************)
(* A command gets the words the user meant, quoted or not, empty ones and  *)
(* blanks inside quotes included (shell.c:134-177), on every line of fewer *)
(* than MaxArgs words.  With MaxArgs words the last one runs on to the end *)
(* of the line and the terminating NULL is stored behind argv.             *)
(***************************************************************************)
SplitExact ==
    sh = "run" /\ Len(typed) < MaxArgs => argv = typed

(***************************************************************************)
(* Wherever cd goes ls can list (shell.c:340-459): although cd .. cuts the *)
(* text of the path at its last slash and looks nothing up, and although   *)
(* paths may begin with a slash or not, the path it leaves is one that ls  *)
(* without an argument finds.  Before fs_init there is no root: then cd    *)
(* and cd / go to "/", the only path they can go to, and ls fails there.   *)
(***************************************************************************)
DirResolves ==
    [][current_dir' # current_dir =>
         \/ CanList(current_dir')
         \/ root = "NULL" /\ current_dir' = <<SLASH>>]_allVars

(***************************************************************************)
(* Every command returns to the prompt or leaves the shell, unless it runs *)
(* into fs.c's callbacks, which call themselves: those of the root, or the *)
(* open of the file that cat is given (fs.c:58, 129-133).  ps, which walks *)
(* the list while the scheduler switches between the processes, gets to    *)
(* its end with one row for each process of the table (shell.c:510-529).   *)
(***************************************************************************)
OpensRaw == Runs("cat") /\ argc > 1 /\ argv[2] \in RawFiles

CommandsReturn ==
    /\ sh \in {"run", "ps"} ~>
          (\/ sh \in {"prompt", "exited"}
           \/ root = "builtin" /\ LookedUp # {}
           \/ root = "own" /\ OpensRaw)
    /\ sh = "ps" ~> (current = NULL /\ count = Cardinality(Listed))

=============================================================================
