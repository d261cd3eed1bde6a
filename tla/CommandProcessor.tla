-------------------------- MODULE CommandProcessor --------------------------
(***************************************************************************)
(* The command engine of one terminal session: the processors of           *)
(* command_processing/base_command_processor.py, called by                 *)
(* ShellSession.receive, by a keystroke handler and by SwitchTftpParser.   *)
(*                                                                         *)
(* A processor is named by its mode (default, enabled, config, ...).  The  *)
(* sub_processor links make a chain of them, the stack; process_command    *)
(* calls itself down the chain and works on the way back, deepest          *)
(* processor first.  One action is one call of process_command coming back *)
(* (call.at is the place in the stack of the processor whose turn it is);  *)
(* while a line or a file is processed nothing else can happen.            *)
(***************************************************************************)
EXTENDS Naturals, Sequences

CONSTANTS
    Modes,         \* the processors of the sessions
    Tops,          \* those that a ShellSession may hold
    EnabledOf,     \* EnabledOf[m]: the one that a password accepted by m leads to
    ConfigOf,      \* ConfigOf[m]: the one that m has files parsed into
    Parent,        \* Parent[m]: the processor that moves to m
    FollowsChild,  \* those that are done when their sub_processor is
    Commands,      \* what a line may say
    Accepted,      \* the lines that are accepted as the enable password
    Does,          \* Does[m][c]: what processor m does with command c
    Lines,         \* the lines that the client sends
    FileCommands,  \* the lines that a parsed file may hold
    MaxFile,       \* bound on the lines of a file
    MaxPages,      \* bound on the pauses of one paged output
    Disciplined    \* TRUE: the client gives each command in its mode

(***************************************************************************)
(* What get_command_func and the function it finds come to:                *)
(*   unknown   no such command: the caller tries the parent                *)
(*   print     only writes (or changes the switch configuration)           *)
(*   a mode    move_to that processor                                      *)
(*   exit      is_done = True                                              *)
(*   password  ask for the enable password (continue_to), input replaced   *)
(*   file      ask for a file name (continue_to)                           *)
(*   parse     parse a file                                                *)
(*   pause     write a page and wait for a key (on_keystroke)              *)
(*   drop      sub_processor = None                                        *)
(*   leave     raise TerminalExitSignal                                    *)
(*   raise     any other exception                                         *)
(***************************************************************************)
Kinds == {"unknown", "print", "exit", "password", "file", "parse", "pause",
          "drop", "leave", "raise"}

ASSUME ModeAssumption ==
    /\ Tops \subseteq Modes
    /\ Parent \in [Modes -> Modes]
    /\ EnabledOf \in [Modes -> Modes]
    /\ ConfigOf \in [Modes -> Modes]
    /\ FollowsChild \subseteq Modes
    /\ Modes \cap (Kinds \cup {"question", "more", "raised", "nobody"}) = {}

ASSUME CommandAssumption ==
    /\ "blank" \in Commands \cap Accepted
    /\ Does \in [Modes -> [Commands -> Kinds \cup Modes]]
    /\ \A m \in Modes : Does[m]["blank"] = "print"
    /\ \A m \in Modes, c \in Commands :
          /\ Does[m][c] \in Modes => Does[m][c] \notin Tops /\ Parent[Does[m][c]] = m
          /\ Does[m][c] = "password" => EnabledOf[m] \notin Tops /\ Parent[EnabledOf[m]] = m
          /\ Does[m][c] \in {"file", "parse"} => ConfigOf[m] \notin Tops /\ Parent[ConfigOf[m]] = m
    /\ Lines \subseteq [cmd : Commands, pipe : {"none", "drop", "bad"}]
    /\ FileCommands \subseteq Commands
    /\ MaxFile \in Nat
    /\ MaxPages \in Nat
    /\ Disciplined \in BOOLEAN

VARIABLES
    session,  \* the state of the processors and of what they share, a Session
    call,     \* the process_command calls that have not come back
    file,     \* the file being parsed, or NoFile
    over      \* receive() said the session is over, or the connection is lost

vars == <<session, call, file, over>>

\* cont is continuing_to; hide is replace_input; silent: its terminal is the
\* NoopTerminalController of a file that was parsed.
Processor == [cont : {"none", "password", "file"}, done : BOOLEAN, hide : BOOLEAN,
              awaiting : BOOLEAN, silent : BOOLEAN]

NoKey == [by |-> "nobody", left |-> 0]

\* pipe: a piping command is active whose pattern is not in any prompt.
\* handler: the any-key handler of the terminal, the processor that set it and
\* the pauses its output still has.  out: the prompts (by mode), questions and
\* pauses that the terminal showed since the last line or key; "raised" stands
\* for what the server logged, and the client does not see, of a line that raised.
Session == [stack   : Seq(Modes),
            proc    : [Modes -> Processor],
            pipe    : BOOLEAN,
            handler : {NoKey} \cup [by : Modes, left : 0..MaxPages],
            out     : Seq(Modes \cup {"question", "more", "raised"})]

NoCall == [at |-> 0, cmd |-> "blank", taken |-> FALSE]
NoFile == [stack |-> <<>>, at |-> 0, root |-> 0, read |-> 0]

Fresh(silent) == [cont |-> "none", done |-> FALSE, hide |-> FALSE,
                  awaiting |-> FALSE, silent |-> silent]

Deepest(w) == w.stack[Len(w.stack)]

Idle == call = NoCall /\ file = NoFile

Init ==
    /\ \E top \in Tops :
          session = [stack |-> <<top>>, proc |-> [m \in Modes |-> Fresh(FALSE)],
                     pipe |-> FALSE, handler |-> NoKey, out |-> <<top>>]
    /\ call = NoCall
    /\ file = NoFile
    /\ over = FALSE
-----------------------------------------------------------------------------
(***************************************************************************)
(* The methods of BaseCommandProcessor.  w is a Session, i a place in its  *)
(* stack.                                                                  *)
(***************************************************************************)
Write(w, m, what) ==
    IF w.proc[m].silent \/ w.pipe THEN w ELSE [w EXCEPT !.out = Append(@, what)]

ShowPrompt(w) == Write(w, Deepest(w), Deepest(w))

\* Mutant: the pipe stays open.
FinishPipingNever(w, m) == w

FinishPiping(w, m) == IF w.proc[m].silent THEN w ELSE [w EXCEPT !.pipe = FALSE]

\* Mutant: the processors under the one that moves stay in the chain.
MoveToDeepest(w, i, m) ==
    ShowPrompt([w EXCEPT !.stack = Append(@, m),
                         !.proc[m] = Fresh(w.proc[w.stack[i]].silent)])

\* move_to: init() of the new processor forgets whatever it was doing.
MoveTo(w, i, m) ==
    ShowPrompt([w EXCEPT !.stack = Append(SubSeq(@, 1, i), m),
                         !.proc[m] = Fresh(w.proc[w.stack[i]].silent)])

\* on_keystroke; a NoopTerminalController takes no handler.
OnKeystroke(w, m, left) ==
    LET asked == [Write(w, m, "more") EXCEPT !.proc[m].awaiting = TRUE]
    IN IF w.proc[m].silent THEN asked ELSE [asked EXCEPT !.handler = [by |-> m, left |-> left]]

Ask(w, m, what) == [Write(w, m, "question") EXCEPT !.proc[m].cont = what,
                                                    !.proc[m].hide = (what = "password")]

\* Mutant: the question stays open once it is answered.
AnsweredAgain(w, m) == [w EXCEPT !.proc[m].hide = FALSE]

\* continue_command clears continuing_to before it calls the continuation,
\* which ends the replacement of the input.
Answered(w, m) == [w EXCEPT !.proc[m].cont = "none", !.proc[m].hide = FALSE]

\* Mutant: the key handler stays.
KeyTakenTwice(w) == [w EXCEPT !.out = <<>>, !.proc[w.handler.by].awaiting = FALSE]

\* on_keystroke_handler, before the callback.
KeyTaken(w) == [w EXCEPT !.out = <<>>, !.handler = NoKey, !.proc[w.handler.by].awaiting = FALSE]

\* Mutant: the last page waits for a key too.
TurnPageAlways(w, m, left) == OnKeystroke(w, m, left - 1)

\* The callback of a pause: the next page, or the prompt of the processor that
\* set the handler, also when that processor has left the chain.
TurnPage(w, m, left) ==
    IF left > 0 THEN OnKeystroke(w, m, left - 1)
    ELSE IF \E i \in DOMAIN w.stack : w.stack[i] = m THEN ShowPrompt(w)
    ELSE Write(w, m, m)

\* Mutant: the parent does not see that its sub_processor is done.
ReturnedToBusy(w, i) == w

\* The end of delegate_to_sub_processor.
Returned(w, i) ==
    IF i = Len(w.stack) \/ ~w.proc[w.stack[i + 1]].done THEN w
    ELSE IF w.stack[i] \in FollowsChild
         THEN [w EXCEPT !.proc[w.stack[i]].done = TRUE]
         ELSE ShowPrompt([w EXCEPT !.stack = SubSeq(@, 1, i)])

\* Mutant: a processor that has a sub_processor prompts too.
SettledTwice(w, i) ==
    LET p == w.proc[w.stack[i]]
    IN IF p.cont = "none" /\ ~p.awaiting /\ ~p.done
       THEN ShowPrompt(FinishPiping(w, w.stack[i]))
       ELSE w

\* The end of process_command, after a command was processed.
Settled(w, i) ==
    LET p == w.proc[w.stack[i]]
    IN IF i = Len(w.stack) /\ p.cont = "none" /\ ~p.awaiting /\ ~p.done
       THEN ShowPrompt(FinishPiping(w, w.stack[i]))
       ELSE w
-----------------------------------------------------------------------------
(***************************************************************************)
(* process_command coming back at place call.at.  Here is the session      *)
(* there, after the sub_processor's turn.                                  *)
(***************************************************************************)
Here == Returned(session, call.at)

Me == session.stack[call.at]

Answering == Here.proc[Me].cont

Effect == IF call.taken \/ Answering # "none" THEN "unknown" ELSE Does[Me][call.cmd]

Comes(w) ==
    /\ session' = w
    /\ call' = [call EXCEPT !.at = @ - 1, !.taken = TRUE]
    /\ UNCHANGED <<file, over>>

InCall == call.at > file.root

\* The sub_processor took the line.
Pass ==
    /\ InCall
    /\ call.taken
    /\ Comes(Here)

\* Nobody took the line so far, and this processor does not know it.
FallThrough ==
    /\ InCall
    /\ ~call.taken /\ Answering = "none"
    /\ Effect = "unknown"
    /\ session' = Here
    /\ call' = [call EXCEPT !.at = @ - 1]
    /\ UNCHANGED <<file, over>>

Say ==
    /\ InCall
    /\ Effect = "print"
    /\ Comes(Settled(Here, call.at))

Enter ==
    /\ InCall
    /\ Effect \in Modes
    /\ Comes(Settled(MoveTo(Here, call.at, Effect), call.at))

Exit ==
    /\ InCall
    /\ Effect = "exit"
    /\ Comes(Settled([Here EXCEPT !.proc[Me].done = TRUE], call.at))

AskPassword ==
    /\ InCall
    /\ Effect = "password"
    /\ Comes(Settled(Ask(Here, Me, "password"), call.at))

AskFile ==
    /\ InCall
    /\ Effect = "file"
    /\ Comes(Settled(Ask(Here, Me, "file"), call.at))

Pause ==
    /\ InCall
    /\ Effect = "pause"
    /\ \E left \in 0..MaxPages : Comes(Settled(OnKeystroke(Here, Me, left), call.at))

Drop ==
    /\ InCall
    /\ Effect = "drop"
    /\ Comes(Settled([Here EXCEPT !.stack = SubSeq(@, 1, call.at)], call.at))

\* continue_command with continue_enabling.
CheckPassword ==
    /\ InCall
    /\ ~call.taken /\ Answering = "password"
    /\ LET w == Answered(Here, Me)
       IN Comes(Settled(IF call.cmd \in Accepted THEN MoveTo(w, call.at, EnabledOf[Me]) ELSE w,
                        call.at))
-----------------------------------------------------------------------------
(***************************************************************************)
(* SwitchTftpParser.parse initialises the session's own config processor   *)
(* with a silent terminal and gives it the lines of the file.  It may      *)
(* be in the chain of the session: then what the file does stays in it.    *)
(***************************************************************************)
Parses == ~call.taken /\ (Answering = "file" \/ Effect = "parse")

\* The lookup or the transfer fails before the processor is initialised.
FileUnreadable ==
    /\ InCall /\ file = NoFile
    /\ Parses
    /\ Comes(Settled(Answered(Here, Me), call.at))

OpenFile ==
    /\ InCall /\ file = NoFile
    /\ Parses
    /\ LET i == call.at
           config == ConfigOf[Me]
           inside == i < Len(Here.stack) /\ Here.stack[i + 1] = config
           kept == IF inside THEN SubSeq(Here.stack, 1, i + 1) ELSE Here.stack
           chain == IF inside THEN kept ELSE <<config>>
       IN /\ session' = [Answered(Here, Me) EXCEPT !.proc[config] = Fresh(TRUE),
                                                    !.stack = chain]
          /\ file' = [stack |-> kept, at |-> i, root |-> Len(chain) - 1, read |-> 0]
          /\ call' = [call EXCEPT !.at = Len(chain) - 1]
    /\ UNCHANGED over

Parsing == file # NoFile /\ call.at = file.root

FileLine(c) ==
    /\ Parsing
    /\ file.read < MaxFile
    /\ call' = [at |-> Len(session.stack), cmd |-> c, taken |-> FALSE]
    /\ file' = [file EXCEPT !.read = @ + 1]
    /\ UNCHANGED <<session, over>>

\* Back in the processor that parsed the file: the session's chain again.
CloseFile(w) ==
    LET back == IF file.root = file.at THEN w.stack ELSE file.stack
    IN /\ session' = Settled([w EXCEPT !.stack = back], file.at)
       /\ call' = [call EXCEPT !.at = file.at - 1, !.taken = TRUE]
       /\ file' = NoFile
       /\ UNCHANGED over

FileEnd == Parsing /\ CloseFile(session)

\* An exception in a line of the file: the rest of it is not read.
FileAborted ==
    /\ file # NoFile /\ InCall
    /\ Effect \in {"leave", "raise"}
    /\ CloseFile(Here)

\* An exception in a line of the session.  ShellSession takes TerminalExitSignal
\* for the end of the session.  Any other one leaves receive(): a Telnet
\* connection is lost, while under SSH the exception is only logged, and the
\* session goes on with its processors as they were, its client without a prompt.
LineAborted ==
    /\ file = NoFile /\ InCall
    /\ \/ /\ Effect = "leave"
          /\ session' = Here
          /\ over' = TRUE
       \/ /\ Effect = "raise"
          /\ session' = [Here EXCEPT !.out = Append(@, "raised")]
          /\ over' \in {over, TRUE}
    /\ call' = NoCall
    /\ UNCHANGED file
-----------------------------------------------------------------------------
(***************************************************************************)
(* What reaches the engine: a line, or a key when a handler waits for one. *)
(***************************************************************************)

\* The places of the stack that know command c, and where it would be taken.
Knowing(c) == {i \in DOMAIN session.stack : Does[session.stack[i]][c] # "unknown"}

TakenBy(c) == CHOOSE i \in Knowing(c) : \A j \in Knowing(c) : j <= i

\* A client that answers questions, presses the keys it is asked for, and
\* otherwise gives a command in the mode it belongs to, or one that moves from
\* there, or one that is no command at all, and pipes only what prints.
InItsMode(line) ==
    /\ session.handler = NoKey
    /\ IF session.proc[Deepest(session)].cont # "none" THEN line.pipe = "none"
       ELSE
          /\ Knowing(line.cmd) # {} =>
               LET i == TakenBy(line.cmd)
               IN i = Len(session.stack) \/ Does[session.stack[i]][line.cmd] \in Modes \cup {"drop"}
          /\ line.pipe = "drop" => Does[Deepest(session)][line.cmd] = "print"

Expected(line) == Disciplined => InItsMode(line)

\* ShellSession.receive calls process_command, which starts the pipe.
Received(line) ==
    /\ session' = [session EXCEPT !.out = <<>>, !.pipe = @ \/ line.pipe = "drop"]
    /\ call' = [at |-> Len(session.stack), cmd |-> line.cmd, taken |-> FALSE]
    /\ UNCHANGED <<file, over>>

Receive(line) ==
    /\ Idle /\ ~over
    /\ Expected(line)
    /\ line.pipe # "bad"
    /\ Received(line)

\* A pipe to no known piping command: the line is not processed.
ReceiveBadPipe(line) ==
    /\ Idle /\ ~over
    /\ Expected(line)
    /\ line.pipe = "bad"
    /\ session' = ShowPrompt([session EXCEPT !.out = <<>>])
    /\ UNCHANGED <<call, file, over>>

\* The end of ShellSession.receive.
Answer ==
    /\ call # NoCall /\ call.at = 0 /\ file = NoFile
    /\ session' = IF call.taken THEN session ELSE ShowPrompt(session)
    /\ over' = (over \/ session.proc[session.stack[1]].done)
    /\ call' = NoCall
    /\ UNCHANGED file

\* The handler of on_keystroke, then the callback.
KeyPressed ==
    /\ Idle /\ ~over
    /\ session.handler # NoKey
    /\ session' = TurnPage(KeyTaken(session), session.handler.by, session.handler.left)
    /\ UNCHANGED <<call, file, over>>

\* The connection is closed: this session does nothing more.
Closed ==
    /\ over
    /\ UNCHANGED vars

\* The calls come back one after the other, down to ShellSession.receive.
Process ==
    \/ Pass \/ FallThrough \/ Say \/ Enter \/ Exit \/ AskPassword \/ AskFile
    \/ Pause \/ Drop \/ CheckPassword
    \/ FileUnreadable \/ OpenFile \/ FileEnd \/ FileAborted \/ LineAborted
    \/ \E c \in FileCommands : FileLine(c)

Next ==
    \/ Process
    \/ \E line \in Lines : Receive(line) \/ ReceiveBadPipe(line)
    \/ Answer
    \/ KeyPressed
    \/ Closed

Spec == Init /\ [][Next]_vars
-----------------------------------------------------------------------------
(***************************************************************************)
(* Properties.                                                             *)
(***************************************************************************)

TypeOK ==
    /\ session \in Session
    /\ session.stack # <<>>
    /\ call \in [at : Nat, cmd : Commands, taken : BOOLEAN]
    /\ file \in [stack : Seq(Modes), at : Nat, root : Nat, read : 0..MaxFile]
    /\ over \in BOOLEAN

IsPath(s) == \A i \in 1..(Len(s) - 1) : s[i + 1] \notin Tops /\ Parent[s[i + 1]] = s[i]

\* The sub_processor links always form a path of the mode tree that starts at
\* the processor of the ShellSession: a mode is never its own ancestor and no
\* prompt ever comes from a processor the session cannot leave, however lines
\* fall through to parents that move elsewhere, passwords are asked again
\* under a live processor, keys come late, and files are parsed into the
\* config processor while the session is in it.
ChainIsPath ==
    /\ IsPath(session.stack)
    /\ Idle => session.stack[1] \in Tops

\* Between lines, no processor of an open session is done: each one that
\* finished was removed by its parent, or the session ended.
NoneDone ==
    Idle /\ ~over => \A i \in DOMAIN session.stack : ~session.proc[session.stack[i]].done

\* A processor that asked a question is the deepest of the chain, so that its
\* answer is not taken for a command by another.
AnswerReachesAsker ==
    Idle /\ ~over =>
       \A i \in DOMAIN session.stack :
          session.proc[session.stack[i]].cont # "none" => i = Len(session.stack)

\* A key handler is in place exactly while the processor that set it awaits a
\* key, and that processor is one of the chain.
KeyIsAwaited ==
    Idle /\ ~over =>
       /\ session.handler # NoKey =>
             \E i \in DOMAIN session.stack : session.stack[i] = session.handler.by
       /\ \A m \in Modes : session.proc[m].awaiting <=> m = session.handler.by

\* The terminal shows exactly one of: the prompt of the mode the session is in, a
\* question that this mode waits for, a pause that a key ends.  No line is answered
\* twice, no answer is lost in a pipe that was left open, and the only line left
\* without an answer is one that raises, under SSH: the client then sees nothing,
\* but the session is at rest in its mode, and its next line is answered again.
OneAnswer ==
    Idle /\ ~over =>
       LET d == Deepest(session)
       IN /\ ~session.pipe
          /\ \/ /\ session.out \in {<<d>>, <<"raised">>}
                /\ session.proc[d].cont = "none" /\ session.handler = NoKey
             \/ session.out = <<"question">> /\ session.proc[d].cont # "none"
             \/ session.out = <<"more">> /\ session.handler # NoKey

\* No line or key is answered twice, also when commands are given in modes they
\* do not belong to, questions are left unanswered and pipes are left open: of all
\* the processors of the chain, each of which ends process_command with a prompt, at
\* most one shows something.  (Of clients whose files are parsed into a processor in
\* use this is not so: a file that ends the config processor the session is in
\* leaves it done in the chain, and its parent prompts for it at a later line.)
AtMostOneAnswer == Idle => Len(session.out) <= 1
=============================================================================
