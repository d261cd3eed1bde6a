------------------------------ MODULE Terminal ------------------------------
(***************************************************************************)
(* A terminal and the session it holds: SwitchTelnetShell and              *)
(* SwitchSSHShell, from the keys that arrive to the lines they become.     *)
(*                                                                         *)
(* Data arrives in chunks.  A Telnet shell treats a chunk of one character *)
(* as a key and anything longer as text; an SSH shell gets each character  *)
(* as a keystroke.  What is typed is abstracted to units: a word (a        *)
(* command, several characters), a letter, and enter.                      *)
(***************************************************************************)
EXTENDS CommandProcessor

CONSTANTS
    Shells,  \* the shells that there may be
    Chunks   \* the chunks of units that the client sends

ASSUME TerminalAssumption ==
    /\ Shells \subseteq {"telnet", "ssh"}
    /\ Chunks \subseteq Seq(Commands \cup {"letter", "enter"}) \ {<<>>}
    /\ {"blank", "typo"} \subseteq Commands
    /\ Commands \cap {"letter", "enter"} = {}

VARIABLES
    shell,   \* the shell of the connection
    phase,   \* what an entered line is taken for: "username", "password", "session"
    keys,    \* the units of the chunk that are still to be handled
    line,    \* _buffer: the command that the line being typed makes so far
    masked,  \* Telnet: _replace_input is not None
    echo     \* how the last typed unit was echoed

terminal == <<shell, phase, keys, line, masked, echo>>

TVars == <<vars, terminal>>

Ssh == shell = "ssh"

TInit ==
    /\ Init
    /\ shell \in Shells
    /\ phase = IF Ssh THEN "session" ELSE "username"
    /\ keys = <<>>
    /\ line = "blank"
    /\ masked = FALSE
    /\ echo = "none"

OneCharacter(unit) == unit \in {"letter", "enter"}

Intercepting == session.handler # NoKey

\* What a line says when a unit is typed after it: only a word alone is a command.
Spelled(text, unit) == IF text = "blank" /\ ~OneCharacter(unit) THEN unit ELSE "typo"

\* A Telnet shell offers only a chunk of one character to the any-key handler.
TakenAsKey(chunk) == ~Ssh /\ Intercepting /\ Len(chunk) = 1 /\ OneCharacter(chunk[1])

Arrive(chunk) ==
    /\ Idle /\ ~over /\ keys = <<>>
    /\ ~TakenAsKey(chunk)
    /\ keys' = chunk
    /\ UNCHANGED <<vars, shell, phase, line, masked, echo>>

TelnetKey(chunk) ==
    /\ keys = <<>>
    /\ TakenAsKey(chunk)
    /\ KeyPressed
    /\ UNCHANGED terminal

\* The first character of a word is the key; the others are typed.
SshKey ==
    /\ Ssh /\ keys # <<>>
    /\ KeyPressed
    /\ keys' = (IF OneCharacter(keys[1]) THEN <<>> ELSE <<"letter">>) \o Tail(keys)
    /\ UNCHANGED <<shell, phase, line, masked, echo>>

\* Whether a typed character is replaced.  An SSH shell asks the deepest
\* processor, a Telnet shell remembers what the top one said after the last line.
Hidden == IF Ssh THEN session.proc[Deepest(session)].hide ELSE masked

\* A key that a handler waits for is not typed.
Handles == Idle /\ keys # <<>> /\ ~(Ssh /\ Intercepting)

Type ==
    /\ Handles
    /\ keys[1] # "enter"
    /\ line' = Spelled(line, keys[1])
    /\ echo' = IF Hidden THEN "hidden" ELSE "plain"
    /\ keys' = Tail(keys)
    /\ UNCHANGED <<vars, shell, phase, masked>>

\* validate_username
EnterUsername ==
    /\ Handles
    /\ keys[1] = "enter" /\ phase = "username"
    /\ phase' = "password"
    /\ masked' = TRUE
    /\ line' = "blank"
    /\ keys' = Tail(keys)
    /\ UNCHANGED <<vars, shell, echo>>

\* validate_password accepts anything; it launches the session.
EnterPassword ==
    /\ Handles
    /\ keys[1] = "enter" /\ phase = "password"
    /\ phase' = "session"
    /\ masked' = FALSE
    /\ line' = "blank"
    /\ keys' = Tail(keys)
    /\ UNCHANGED <<vars, shell, echo>>

\* The rest of a chunk is handled even when a line of it ended the session.
EnterLine ==
    /\ Handles
    /\ keys[1] = "enter" /\ phase = "session"
    /\ Received([cmd |-> line, pipe |-> "none"])
    /\ line' = "blank"
    /\ keys' = Tail(keys)
    /\ UNCHANGED <<shell, phase, masked, echo>>

\* Mutant: the replacement of the input is never ended.
MaskAfterSticky == masked \/ session'.proc[session'.stack[1]].hide

\* The end of command().
MaskAfter == ~Ssh /\ session'.proc[session'.stack[1]].hide

\* An exception leaves the loop over the chunk, whose rest is never handled.  That
\* ends a Telnet session, whose connection is lost; conch only logs it for an SSH one.
Raises == InCall /\ file = NoFile /\ Effect = "raise"

Work ==
    /\ Process
    /\ Raises => over' = (over \/ ~Ssh)
    /\ keys' = IF Raises THEN <<>> ELSE keys
    /\ UNCHANGED <<shell, phase, line, masked, echo>>

LineDone ==
    /\ Answer
    /\ masked' = MaskAfter
    /\ UNCHANGED <<shell, phase, keys, line, echo>>

TNext ==
    \/ \E chunk \in Chunks : Arrive(chunk) \/ TelnetKey(chunk)
    \/ SshKey
    \/ Type
    \/ EnterUsername
    \/ EnterPassword
    \/ EnterLine
    \/ Work
    \/ LineDone
    \/ Closed /\ UNCHANGED terminal

TSpec == TInit /\ [][TNext]_TVars
-----------------------------------------------------------------------------
(***************************************************************************)
(* Properties.                                                             *)
(***************************************************************************)

\* A unit was recorded in the line.
Typed == line' # line /\ line' # "blank"

\* The line being typed will be taken for a password: that of the login, or
\* the one the deepest processor asked for.
ForPassword ==
    phase = "password" \/ (phase = "session" /\ session.proc[Deepest(session)].cont = "password")

\* A question that its asker will not get the next line for: one that a
\* processor asked while it had a sub_processor.
Stranded ==
    \E i \in 1..(Len(session.stack) - 1) : session.proc[session.stack[i]].cont # "none"

\* A password is never echoed and everything else is, wherever the chunks are
\* cut, although a Telnet shell masks by a copy it makes of the top processor's
\* replace_input after each line and an SSH shell asks the deepest processor.
EchoesAllButPasswords ==
    [][Typed /\ ~over /\ ~Stranded => echo' = IF ForPassword THEN "hidden" ELSE "plain"]_TVars
=============================================================================
