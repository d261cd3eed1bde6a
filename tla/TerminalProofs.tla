--------------------------- MODULE TerminalProofs ---------------------------
(***************************************************************************)
(* Proofs about Terminal and the clients that only a terminal knows, those *)
(* that type anything anywhere: no line is answered twice as long as no    *)
(* file is parsed, and a terminal echoes all but passwords.                *)
(***************************************************************************)
EXTENDS Terminal, CommandProcessorProofs
-----------------------------------------------------------------------------
(***************************************************************************)
(* At most one answer, when no file is parsed.                             *)
(***************************************************************************)

\* No processor reads files: then one that is done is always removed in time.
NoFiles == \A m \in Modes, c \in Commands : Does[m][c] \notin {"file", "parse"}

\* Where place j has a sub_processor that is done, it is done with it.
DoneFollows(w, j) ==
    j + 1 \in DOMAIN w.stack /\ w.proc[w.stack[j + 1]].done =>
       w.stack[j] \in FollowsChild /\ w.proc[w.stack[j]].done

NoQuestions(w) == \A m \in Modes : w.proc[m].cont # "file"

\* While a line is processed, the sub_processor whose turn is over may be done
\* without its parent having seen it: then it took the line and showed nothing,
\* so that the prompt of the parent is the first answer.
AnswerInv ==
    /\ file = NoFile
    /\ NoQuestions(session)
    /\ Len(session.out) <= 1
    /\ \A j \in DOMAIN session.stack :
          j # call.at \/ ~call.taken \/ session.out # <<>> => DoneFollows(session, j)
    /\ call # NoCall /\ ~call.taken => session.out = <<>>

\* Whatever shows an answer shows one, on a terminal that showed none.
LEMMA OneShown ==
    ASSUME NEW old \in Seq(Shown), old = <<>>, NEW what \in Shown, NEW out,
           out = old \/ out = Append(old, what)
    PROVE  Len(out) <= 1
<1>1. CASE out = old
  BY <1>1
<1>2. CASE out = Append(old, what)
  BY <1>2
<1>. QED
  BY <1>1, <1>2, Zenon

LEMMA OneWritten ==
    ASSUME NEW w \in Session, w.out = <<>>, NEW m \in Modes, NEW what \in Shown
    PROVE  Len(Written(w, m, what)) <= 1
<1>1. w.out \in Seq(Shown)
  BY SessionShape
<1>2. Written(w, m, what) = w.out \/ Written(w, m, what) = Append(w.out, what)
  BY DEF Written
<1>. QED
  BY <1>1, <1>2, OneShown

\* The end of process_command, for a command that left x behind.
LEMMA SettledAnswers ==
    ASSUME IInv, AnswerInv, InCall, NEW x, Good(x), call.at \in DOMAIN x.stack, NoQuestions(x),
           \A j \in DOMAIN x.stack : j # call.at - 1 => DoneFollows(x, j),
           \/ call.at - 1 \in DOMAIN x.stack => DoneFollows(x, call.at - 1)
           \/ x.out = <<>> /\ x.proc[x.stack[call.at]].done,
           Len(x.out) <= 1, x.out = <<>> \/ ~Prompts(x, call.at),
           Comes(Settled(x, call.at))
    PROVE  AnswerInv'
<1>. DEFINE i == call.at
            w == Settled(x, i)
<1>1. x \in Session /\ x.stack \in Seq(Modes) /\ x.stack[i] \in Modes
  BY SessionShape DEF Good
<1>2. /\ w.stack = x.stack /\ w.proc = x.proc
      /\ ~Prompts(x, i) => w = x
      /\ Prompts(x, i) => w.out = x.out \/ w.out = Append(x.out, x.stack[i])
  BY <1>1, SettledIs DEF SettledTo
<1>3. session' = w /\ file' = file /\ call'.at = i - 1 /\ call'.taken = TRUE
  <2>1. call \in [at : Nat, cmd : Commands, taken : BOOLEAN]
    BY DEF IInv
  <2>. QED
    BY <2>1 DEF Comes
<1>. HIDE DEF w
<1>4. Len(w.out) <= 1
  <2>1. CASE Prompts(x, i)
    <3>1. /\ x.out \in Seq(Shown) /\ x.out = <<>> /\ x.stack[i] \in Shown
          /\ w.out = x.out \/ w.out = Append(x.out, x.stack[i])
      BY <1>1, <1>2, <2>1, SessionShape DEF Shown
    <3>. QED
      BY <3>1, OneShown
  <2>2. CASE ~Prompts(x, i)
    BY <1>2, <2>2
  <2>. QED
    BY <2>1, <2>2
<1>5. ASSUME NEW j \in DOMAIN w.stack, j # i - 1 \/ w.out # <<>>
      PROVE  DoneFollows(w, j)
  <2>1. DoneFollows(x, j)
    <3>1. CASE j # i - 1
      BY <1>2, <3>1
    <3>2. CASE j = i - 1 /\ Prompts(x, i)
      BY <1>2, <3>2 DEF Prompts
    <3>3. CASE j = i - 1 /\ ~Prompts(x, i)
      BY <1>2, <1>5, <3>3
    <3>. QED
      BY <3>1, <3>2, <3>3
  <2>. QED
    BY <1>2, <2>1 DEF DoneFollows
<1>6. NoQuestions(w)
  BY <1>2 DEF NoQuestions
<1>. QED
  BY <1>3, <1>4, <1>5, <1>6 DEF AnswerInv, NoQuestions, DoneFollows

\* Before a line is taken, no sub_processor has anything to tell its parent.
LEMMA HereUntaken ==
    ASSUME IInv, AnswerInv, InCall, ~call.taken
    PROVE  /\ Here = session
           /\ session.out = <<>>
           /\ \A j \in DOMAIN session.stack : DoneFollows(session, j)
<1>1. /\ call.at \in DOMAIN session.stack /\ call.at \in Nat \ {0} /\ Good(session)
      /\ session \in Session /\ session.stack \in Seq(Modes)
  BY HereIsGood, SessionShape DEF IInv, Good
<1>2. \A j \in DOMAIN session.stack : DoneFollows(session, j)
  BY DEF AnswerInv
<1>3. session.out = <<>>
  BY <1>1 DEF AnswerInv, NoCall
<1>4. CASE ~Leaves(session, call.at)
  BY <1>1, <1>2, <1>3, <1>4, ReturnedIs DEF Here, ReturnedTo
<1>5. CASE Leaves(session, call.at)
  <2>1. session.stack[call.at] \in FollowsChild /\ session.proc[session.stack[call.at]].done
    BY <1>1, <1>2, <1>5 DEF Leaves, DoneFollows
  <2>2. session.stack[call.at] \in Modes
    BY <1>1
  <2>3. Here = [session EXCEPT !.proc[session.stack[call.at]].done = TRUE]
    BY <1>5, <2>1 DEF Here, Returned, Leaves
  <2>. DEFINE m == session.stack[call.at]
              p == [session.proc[m] EXCEPT !.done = TRUE]
  <2>4. session.proc[m] \in Processor /\ session.proc[m].done = TRUE
    BY <1>1, <2>1, <2>2 DEF Session, Processor
  <2>5. p = session.proc[m]
    BY <2>4 DEF Processor
  <2>6. Here = [session EXCEPT !.proc[m] = p]
    BY <2>3
  <2>. HIDE DEF p, m
  <2>7. [session EXCEPT !.proc[m] = session.proc[m]] = session
    BY <1>1, <2>2 DEF Session, m
  <2>. QED
    BY <1>2, <1>3, <2>5, <2>6, <2>7
<1>. QED
  BY <1>4, <1>5

\* move_to() to a child: it is fresh, and the processors above it are as they were.
LEMMA MoveToAnswers ==
    ASSUME IInv, AnswerInv, InCall, ~call.taken, NEW w, Good(w), w.stack = session.stack,
           NoQuestions(w), w.out = <<>>,
           \A m \in Modes : w.proc[m].done = session.proc[m].done,
           NEW to \in Modes, to \notin Tops, Parent[to] = Me,
           Comes(Settled(MoveTo(w, call.at, to), call.at))
    PROVE  AnswerInv'
<1>. DEFINE i == call.at
            x == MoveTo(w, i, to)
<1>1. /\ i \in DOMAIN w.stack /\ i \in Nat \ {0} /\ w.stack[i] = Me
      /\ w \in Session /\ w.stack \in Seq(Modes) /\ w.stack[1] \in Tops
  BY HereIsGood, SessionShape DEF IInv, Good, FileInv, Me, AnswerInv
<1>2. Good(x) /\ Above(w, x, i) /\ MovedTo(w, x, i, to)
  BY <1>1, MoveToKeeps, MoveToIs
<1>. HIDE DEF i, x
<1>3. /\ Len(x.stack) = i + 1 /\ x.stack[i + 1] = to
      /\ \A j \in 1..i : x.stack[j] = w.stack[j]
      /\ x.proc = [w.proc EXCEPT ![to] = Fresh(w.proc[w.stack[i]].silent)]
      /\ x.out = Written(w, w.stack[i], to)
  BY <1>2 DEF MovedTo
<1>3a. Len(x.stack) = i + 1 /\ x.stack[i + 1] = to /\ \A j \in 1..i : x.stack[j] = w.stack[j]
  BY <1>3
<1>4. x.stack \in Seq(Modes) /\ x.stack # <<>> /\ IsPath(x.stack)
  BY <1>2, SessionShape DEF Good
<1>4a. /\ DOMAIN x.stack = 1..(i + 1) /\ i \in Nat \ {0} /\ i \in 1..Len(w.stack)
       /\ x.stack[1] \in Tops /\ DOMAIN session.stack = 1..Len(w.stack)
  BY <1>1, <1>3a, <1>4
<1>5. \A j \in 1..i : x.stack[j] # to
  <2>. SUFFICES ASSUME NEW j \in 1..i PROVE x.stack[j] # to
    OBVIOUS
  <2>1. j \in DOMAIN x.stack /\ i + 1 \in DOMAIN x.stack /\ j # i + 1
    BY <1>4a
  <2>. QED
    BY <1>3a, <1>4, <1>4a, <2>1, PathDistinct
<1>6. \A j \in 1..i : /\ x.stack[j] \in Modes
                      /\ x.proc[x.stack[j]].done = session.proc[session.stack[j]].done
  <2>. SUFFICES ASSUME NEW j \in 1..i
                PROVE  /\ x.stack[j] \in Modes
                       /\ x.proc[x.stack[j]].done = session.proc[session.stack[j]].done
    OBVIOUS
  <2>1. x.stack[j] \in Modes /\ x.stack[j] = session.stack[j]
    BY <1>3a, <1>4, <1>4a
  <2>2. x.proc[x.stack[j]] = w.proc[x.stack[j]]
    BY <1>1, <1>3, <1>5, <2>1 DEF Session
  <2>. QED
    BY <2>1, <2>2
<1>7. x.proc[to] = Fresh(w.proc[w.stack[i]].silent)
  BY <1>1, <1>3 DEF Session
<1>8. ASSUME NEW j \in DOMAIN x.stack
      PROVE  DoneFollows(x, j)
  <2>1. CASE j = i
    BY <1>3a, <1>7, <2>1 DEF DoneFollows, Fresh
  <2>2. CASE j = i + 1
    BY <1>4a, <2>2 DEF DoneFollows
  <2>3. CASE j # i /\ j # i + 1
    <3>1. j \in 1..i /\ j + 1 \in 1..i /\ j \in DOMAIN session.stack /\ j + 1 \in DOMAIN session.stack
      BY <1>4a, <2>3
    <3>2. DoneFollows(session, j)
      BY <3>1 DEF AnswerInv
    <3>. QED
      BY <1>3a, <1>6, <3>1, <3>2 DEF DoneFollows
  <2>. QED
    BY <2>1, <2>2, <2>3
<1>9. NoQuestions(x)
  <2>. SUFFICES ASSUME NEW m \in Modes PROVE x.proc[m].cont # "file"
    BY DEF NoQuestions
  <2>1. m # to => x.proc[m] = w.proc[m]
    BY <1>1, <1>3 DEF Session
  <2>2. x.proc[to].cont = "none"
    BY <1>7 DEF Fresh
  <2>. QED
    BY <2>1, <2>2 DEF NoQuestions
<1>10. Len(x.out) <= 1
  BY <1>1, <1>3, OneWritten DEF Shown
<1>11. ~Prompts(x, i)
  BY <1>3a, <1>4a DEF Prompts
<1>12. i \in DOMAIN x.stack
  BY <1>4a
<1>13. Comes(Settled(x, i))
  BY DEF x, i
<1>. QED
  BY <1>2, <1>8, <1>9, <1>10, <1>11, <1>12, <1>13, SettledAnswers DEF i

\* Every command that leaves the chain above its processor as it is, but for the
\* processor itself.
LEMMA InPlaceAnswers ==
    ASSUME IInv, AnswerInv, InCall, ~call.taken, NEW x, Good(x), x.stack = session.stack,
           NoQuestions(x), \A m \in Modes \ {Me} : x.proc[m].done = session.proc[m].done,
           \/ x.proc[Me].done = session.proc[Me].done
           \/ x.out = <<>> /\ x.proc[Me].done,
           Len(x.out) <= 1, x.out = <<>> \/ ~Prompts(x, call.at),
           Comes(Settled(x, call.at))
    PROVE  AnswerInv'
<1>. DEFINE i == call.at
<1>1. /\ i \in DOMAIN x.stack /\ i \in Nat \ {0} /\ x.stack[i] = Me
      /\ session.stack \in Seq(Modes)
  BY HereIsGood, SessionShape DEF IInv, Good, Me
<1>2. \A j \in DOMAIN x.stack : DoneFollows(session, j)
  BY HereUntaken
<1>3. \A j \in DOMAIN x.stack : j # i => x.stack[j] # Me
  BY <1>1, ChainDistinct DEF AnswerInv
<1>4. \A j \in DOMAIN x.stack : x.stack[j] \in Modes
  BY <1>1
<1>5. ASSUME NEW j \in DOMAIN x.stack, j # i - 1
      PROVE  DoneFollows(x, j)
  <2>. SUFFICES ASSUME j + 1 \in DOMAIN x.stack, x.proc[x.stack[j + 1]].done
                PROVE  x.stack[j] \in FollowsChild /\ x.proc[x.stack[j]].done
    BY DEF DoneFollows
  <2>1. j \in Nat /\ j + 1 # i
    BY <1>1, <1>5
  <2>2. x.stack[j + 1] \in Modes \ {Me}
    BY <1>3, <1>4, <2>1
  <2>3. x.stack[j] \in FollowsChild /\ session.proc[x.stack[j]].done
    BY <1>2, <2>2 DEF DoneFollows
  <2>. QED
    BY <1>4, <2>3
<1>6. ASSUME i - 1 \in DOMAIN x.stack, x.proc[Me].done = session.proc[Me].done
      PROVE  DoneFollows(x, i - 1)
  <2>1. (i - 1) + 1 = i /\ i - 1 # i
    BY <1>1
  <2>2. x.stack[i - 1] \in Modes \ {Me}
    BY <1>3, <1>4, <1>6, <2>1
  <2>3. DoneFollows(session, i - 1)
    BY <1>2, <1>6
  <2>. QED
    BY <1>1, <1>6, <2>1, <2>2, <2>3 DEF DoneFollows
<1>7. \/ i - 1 \in DOMAIN x.stack => DoneFollows(x, i - 1)
      \/ x.out = <<>> /\ x.proc[x.stack[i]].done
  BY <1>1, <1>6
<1>. QED
  BY <1>1, <1>5, <1>7, SettledAnswers

\* What a processor does with a line, and with the answer to its question.
LEMMA CommandsAnswer ==
    ASSUME IInv, AnswerInv, NoFiles, InCall, ~call.taken,
           \/ Say \/ Enter \/ Exit \/ AskPassword \/ AskFile \/ Pause \/ Drop \/ CheckPassword
    PROVE  AnswerInv'
<1>. DEFINE i == call.at
<1>1. /\ i \in DOMAIN session.stack /\ i \in Nat \ {0} /\ Me \in Modes
      /\ Good(session) /\ session \in Session /\ session.stack \in Seq(Modes)
      /\ session.stack[i] = Me
      /\ session.proc \in [Modes -> Processor] /\ call.cmd \in Commands
  BY HereIsGood, SessionShape DEF IInv, Good, Me
<1>2. Here = session /\ session.out = <<>> /\ Len(session.out) <= 1 /\ NoQuestions(session)
  BY HereUntaken DEF AnswerInv
<1>3. Effect # "unknown" => Effect = Does[Me][call.cmd]
  BY DEF Effect
<1>4. CASE Say
  BY <1>1, <1>2, <1>4, InPlaceAnswers DEF Say
<1>5. CASE Enter
  <2>1. Effect \in Modes /\ Effect \notin Tops /\ Parent[Effect] = Me
    BY <1>1, <1>3, <1>5, ModeAssumption, CommandAssumption DEF Enter, Kinds
  <2>. QED
    BY <1>1, <1>2, <1>5, <2>1, MoveToAnswers DEF Enter
<1>6. CASE Exit
  <2>. DEFINE x == [session EXCEPT !.proc[Me].done = TRUE]
  <2>1. Good(x) /\ x.stack = session.stack
    BY <1>1, DoneKeeps
  <2>2. x.out = session.out /\ x.proc = [session.proc EXCEPT ![Me].done = TRUE]
    BY <1>1 DEF Session
  <2>3. Comes(Settled(x, i))
    BY <1>2, <1>6 DEF Exit
  <2>. HIDE DEF x
  <2>4. \A m \in Modes \ {Me} : x.proc[m] = session.proc[m]
    BY <1>1, <2>2
  <2>5. x.proc[Me].done /\ x.proc[Me].cont = session.proc[Me].cont
    BY <1>1, <2>2 DEF Processor
  <2>6. NoQuestions(x)
    BY <1>2, <2>4, <2>5 DEF NoQuestions
  <2>. QED
    BY <1>2, <2>1, <2>2, <2>3, <2>4, <2>5, <2>6, InPlaceAnswers
<1>7. CASE AskPassword
  <2>. DEFINE x == Ask(session, Me, "password")
  <2>1. AsksPassword(Me)
    BY <1>1, <1>3, <1>7 DEF AskPassword, AsksPassword
  <2>2. Good(x) /\ x.stack = session.stack /\ Asked(session, x, Me, "password")
    BY <1>1, <2>1, AskKeeps, AskIs
  <2>3. Comes(Settled(x, i))
    BY <1>2, <1>7 DEF AskPassword
  <2>. HIDE DEF x
  <2>4. /\ x.proc = [session.proc EXCEPT ![Me].cont = "password", ![Me].hide = ("password" = "password")]
        /\ x.out = Written(session, Me, "question")
    BY <2>2 DEF Asked
  <2>5. \A m \in Modes : x.proc[m].done = session.proc[m].done
    BY <1>1, <2>4 DEF Processor
  <2>6. x.proc[Me].cont = "password" /\ \A m \in Modes \ {Me} : x.proc[m] = session.proc[m]
    BY <1>1, <2>4 DEF Processor
  <2>7. Len(x.out) <= 1
    BY <1>1, <1>2, <2>4, OneWritten DEF Shown
  <2>8. NoQuestions(x) /\ ~Prompts(x, i)
    BY <1>1, <1>2, <2>2, <2>6 DEF NoQuestions, Prompts
  <2>. QED
    BY <1>1, <2>2, <2>3, <2>5, <2>7, <2>8, InPlaceAnswers
<1>8. CASE AskFile
  BY <1>1, <1>3, <1>8 DEF AskFile, NoFiles
<1>9. CASE Pause
  <2>1. PICK left \in 0..MaxPages : Comes(Settled(OnKeystroke(session, Me, left), i))
    BY <1>2, <1>9 DEF Pause
  <2>. DEFINE x == OnKeystroke(session, Me, left)
  <2>2. Good(x) /\ x.stack = session.stack /\ Paused(session, x, Me, left)
    BY <1>1, OnKeystrokeKeeps, OnKeystrokeIs
  <2>3. Comes(Settled(x, i))
    BY <2>1
  <2>. HIDE DEF x
  <2>4. /\ x.proc = [session.proc EXCEPT ![Me].awaiting = TRUE]
        /\ x.out = Written(session, Me, "more")
    BY <2>2 DEF Paused
  <2>5. \A m \in Modes : /\ x.proc[m].done = session.proc[m].done
                         /\ x.proc[m].cont = session.proc[m].cont
    BY <1>1, <2>4 DEF Processor
  <2>6. x.proc[Me].awaiting
    BY <1>1, <2>4 DEF Processor
  <2>7. Len(x.out) <= 1
    BY <1>1, <1>2, <2>4, OneWritten DEF Shown
  <2>8. NoQuestions(x) /\ ~Prompts(x, i)
    BY <1>1, <1>2, <2>2, <2>5, <2>6 DEF NoQuestions, Prompts
  <2>. QED
    BY <1>1, <2>2, <2>3, <2>5, <2>7, <2>8, InPlaceAnswers
<1>10. CASE Drop
  <2>. DEFINE x == [session EXCEPT !.stack = SubSeq(@, 1, i)]
  <2>1. Good(x) /\ Above(session, x, i)
    BY <1>1, CutKeeps
  <2>2. /\ Len(SubSeq(session.stack, 1, i)) = i
        /\ \A j \in 1..i : SubSeq(session.stack, 1, i)[j] = session.stack[j]
    BY <1>1, CutIsPath DEF Good
  <2>3. x.proc = session.proc /\ x.out = session.out /\ x.stack = SubSeq(session.stack, 1, i)
    BY <1>1 DEF Session
  <2>4. Comes(Settled(x, i))
    BY <1>2, <1>10 DEF Drop
  <2>5. x.stack \in Seq(Modes)
    BY <2>1, SessionShape DEF Good
  <2>. HIDE DEF x
  <2>6. /\ DOMAIN x.stack = 1..i /\ \A j \in 1..i : x.stack[j] = session.stack[j]
        /\ \A j \in 1..i : j \in DOMAIN session.stack
    BY <1>1, <2>2, <2>3, <2>5
  <2>7. \A j \in DOMAIN x.stack : DoneFollows(x, j)
    <3>1. \A j \in DOMAIN x.stack : DoneFollows(session, j)
      BY <2>6, HereUntaken
    <3>. QED
      BY <2>3, <2>6, <3>1 DEF DoneFollows
  <2>8. NoQuestions(x) /\ i \in DOMAIN x.stack
    BY <1>1, <1>2, <2>3, <2>6 DEF NoQuestions
  <2>. QED
    BY <1>2, <2>1, <2>3, <2>4, <2>7, <2>8, SettledAnswers
<1>11. CASE CheckPassword
  <2>. DEFINE w == Answered(session, Me)
  <2>1. Good(w) /\ w.stack = session.stack /\ AnsweredTo(session, w, Me)
    BY <1>1, AnsweredKeeps, AnsweredIs
  <2>2. EnabledOf[Me] \in Modes /\ EnabledOf[Me] \notin Tops /\ Parent[EnabledOf[Me]] = Me
    BY <1>1, <1>2, <1>11, EnabledIsChild DEF CheckPassword, Answering, Good, Asks, MayBe
  <2>3. Comes(Settled(IF call.cmd \in Accepted THEN MoveTo(w, i, EnabledOf[Me]) ELSE w, i))
    BY <1>2, <1>11 DEF CheckPassword
  <2>. HIDE DEF w
  <2>4. /\ w.out = session.out
        /\ w.proc = [session.proc EXCEPT ![Me].cont = "none", ![Me].hide = FALSE]
    BY <2>1 DEF AnsweredTo
  <2>5. \A m \in Modes : w.proc[m].done = session.proc[m].done
    BY <1>1, <2>4 DEF Processor
  <2>6. w.proc[Me].cont = "none" /\ \A m \in Modes \ {Me} : w.proc[m] = session.proc[m]
    BY <1>1, <2>4 DEF Processor
  <2>7. NoQuestions(w)
    BY <1>2, <2>6 DEF NoQuestions
  <2>8. CASE call.cmd \in Accepted
    BY <1>2, <2>1, <2>2, <2>3, <2>4, <2>5, <2>7, <2>8, MoveToAnswers
  <2>9. CASE call.cmd \notin Accepted
    BY <1>1, <1>2, <2>1, <2>3, <2>4, <2>5, <2>7, <2>9, InPlaceAnswers
  <2>. QED
    BY <2>8, <2>9
<1>. QED
  BY <1>4, <1>5, <1>6, <1>7, <1>8, <1>9, <1>10, <1>11

\* A call comes back through a processor whose sub_processor took the line.
LEMMA PassAnswers ==
    ASSUME IInv, AnswerInv, Pass
    PROVE  AnswerInv'
<1>. DEFINE i == call.at
            w == Here
<1>1. InCall /\ call.taken /\ Comes(Here)
  BY DEF Pass
<1>2. /\ i \in DOMAIN session.stack /\ i \in Nat \ {0} /\ Me \in Modes
      /\ Good(session) /\ session \in Session /\ session.stack \in Seq(Modes)
      /\ session.stack[i] = Me
      /\ session.proc \in [Modes -> Processor]
      /\ Good(w)
  BY <1>1, HereIsGood, SessionShape DEF IInv, Good, Me
<1>3. session' = w /\ file' = file /\ call'.at = i - 1 /\ call'.taken = TRUE
  <2>1. call \in [at : Nat, cmd : Commands, taken : BOOLEAN]
    BY DEF IInv
  <2>. QED
    BY <1>1, <2>1 DEF Comes
<1>4. ReturnedTo(session, w, i)
  BY <1>2, ReturnedIs DEF Here
<1>5. w.stack \in Seq(Modes)
  BY <1>2, SessionShape DEF Good
<1>. HIDE DEF w
<1>6. \A j \in DOMAIN session.stack : j # i \/ session.out # <<>> => DoneFollows(session, j)
  BY DEF AnswerInv
<1>7. \A j \in DOMAIN session.stack : /\ session.stack[j] \in Modes
                                      /\ j # i => session.stack[j] # Me
  BY <1>2, ChainDistinct DEF AnswerInv
<1>8. CASE ~Leaves(session, i)
  <2>1. w = session
    BY <1>4, <1>8 DEF ReturnedTo
  <2>2. DoneFollows(session, i)
    BY <1>2, <1>8 DEF Leaves, DoneFollows
  <2>3. \A j \in DOMAIN session.stack : j # i - 1 \/ session.out # <<>> => DoneFollows(session, j)
    BY <1>6, <2>2
  <2>. QED
    BY <1>3, <2>1, <2>3 DEF AnswerInv, NoQuestions, DoneFollows
<1>9. CASE Leaves(session, i) /\ Me \in FollowsChild
  <2>1. /\ w.stack = session.stack /\ w.out = session.out
        /\ w.proc = [session.proc EXCEPT ![Me].done = TRUE]
    BY <1>2, <1>4, <1>9 DEF ReturnedTo
  <2>2. w.proc[Me].done /\ \A m \in Modes \ {Me} : w.proc[m] = session.proc[m]
    BY <1>2, <2>1 DEF Processor
  <2>3. \A m \in Modes : w.proc[m].cont = session.proc[m].cont
    BY <1>2, <2>1 DEF Processor
  <2>4. Leaves(session, i) => i + 1 \in DOMAIN session.stack /\ session.proc[session.stack[i + 1]].done
    BY <1>2 DEF Leaves
  <2>5. ASSUME session.out # <<>>
        PROVE  session.proc[Me].done
    BY <1>2, <1>6, <1>9, <2>4, <2>5 DEF DoneFollows
  <2>6. ASSUME NEW j \in DOMAIN w.stack, j # i - 1 \/ w.out # <<>>
        PROVE  DoneFollows(w, j)
    <3>. SUFFICES ASSUME j + 1 \in DOMAIN w.stack, w.proc[w.stack[j + 1]].done
                  PROVE  w.stack[j] \in FollowsChild /\ w.proc[w.stack[j]].done
      BY DEF DoneFollows
    <3>1. CASE j = i
      BY <1>2, <1>9, <2>1, <2>2, <3>1
    <3>2. CASE j # i
      <4>1. DoneFollows(session, j)
        BY <1>6, <2>1, <3>2
      <4>2. session.proc[session.stack[j + 1]].done
        <5>1. CASE j + 1 = i
          BY <1>2, <1>6, <2>1, <2>5, <2>6, <5>1
        <5>2. CASE j + 1 # i
          BY <1>7, <2>1, <2>2, <5>2
        <5>. QED
          BY <5>1, <5>2
      <4>3. session.stack[j] \in Modes \ {Me}
        BY <1>7, <2>1, <3>2
      <4>. QED
        BY <2>1, <2>2, <4>1, <4>2, <4>3 DEF DoneFollows
    <3>. QED
      BY <3>1, <3>2
  <2>7. NoQuestions(w) /\ Len(w.out) <= 1
    BY <2>1, <2>3 DEF AnswerInv, NoQuestions
  <2>. QED
    BY <1>3, <2>6, <2>7 DEF AnswerInv, NoQuestions, DoneFollows
<1>10. CASE Leaves(session, i) /\ Me \notin FollowsChild
  <2>1. /\ Len(w.stack) = i /\ \A j \in 1..i : w.stack[j] = session.stack[j]
        /\ w.proc = session.proc /\ w.out = Written(session, Me, Me)
    BY <1>2, <1>4, <1>10 DEF ReturnedTo
  <2>2. session.out = <<>>
    <3>1. i + 1 \in DOMAIN session.stack /\ session.proc[session.stack[i + 1]].done
      BY <1>2, <1>10 DEF Leaves
    <3>. QED
      BY <1>2, <1>6, <1>10, <3>1 DEF DoneFollows
  <2>3. Len(w.out) <= 1
    BY <1>2, <2>1, <2>2, OneWritten DEF Shown
  <2>4. DOMAIN w.stack = 1..i /\ \A j \in 1..i : j \in DOMAIN session.stack
    BY <1>2, <1>5, <2>1
  <2>5. ASSUME NEW j \in DOMAIN w.stack
        PROVE  DoneFollows(w, j)
    <3>1. CASE j = i
      BY <2>4, <3>1 DEF DoneFollows
    <3>2. CASE j # i
      BY <1>6, <2>1, <2>4, <3>2 DEF DoneFollows
    <3>. QED
      BY <3>1, <3>2
  <2>6. NoQuestions(w)
    BY <2>1 DEF AnswerInv, NoQuestions
  <2>. QED
    BY <1>3, <2>3, <2>5, <2>6 DEF AnswerInv, NoQuestions, DoneFollows
<1>. QED
  BY <1>8, <1>9, <1>10

\* A line that this processor does not know.
LEMMA FallThroughAnswers ==
    ASSUME IInv, AnswerInv, FallThrough
    PROVE  AnswerInv'
<1>1. /\ Here = session /\ session.out = <<>>
      /\ \A j \in DOMAIN session.stack : DoneFollows(session, j)
  BY HereUntaken DEF FallThrough
<1>2. session' = Here /\ file' = file /\ call'.taken = call.taken
  <2>1. call \in [at : Nat, cmd : Commands, taken : BOOLEAN]
    BY DEF IInv
  <2>. QED
    BY <2>1 DEF FallThrough
<1>. QED
  BY <1>1, <1>2 DEF AnswerInv, NoQuestions, DoneFollows

\* Between two lines no sub_processor has anything to tell its parent.
LEMMA RestAnswers ==
    ASSUME IInv, AnswerInv, file = NoFile, call.at = 0,
           NEW w, w.stack = session.stack, NoQuestions(w), Len(w.out) <= 1,
           \A m \in Modes : w.proc[m].done = session.proc[m].done,
           session' = w, file' = file,
           call' # NoCall /\ ~call'.taken => w.out = <<>>
    PROVE  AnswerInv'
<1>1. session.stack \in Seq(Modes)
  BY SessionShape DEF IInv, Good
<1>2. \A j \in DOMAIN session.stack : DoneFollows(session, j)
  BY <1>1 DEF AnswerInv
<1>3. \A j \in DOMAIN w.stack : DoneFollows(w, j)
  BY <1>1, <1>2 DEF DoneFollows
<1>. QED
  BY <1>3 DEF AnswerInv, NoQuestions, DoneFollows

\* ShellSession.receive clears what was shown before.
LEMMA ReceivedAnswers ==
    ASSUME IInv, AnswerInv, Idle, NEW l, Received(l)
    PROVE  AnswerInv'
<1>. DEFINE w == [session EXCEPT !.out = <<>>, !.pipe = @ \/ l.pipe = "drop"]
<1>1. w.stack = session.stack /\ w.proc = session.proc /\ w.out = <<>>
  BY DEF IInv, Good, Session
<1>2. session' = w /\ file' = file /\ file = NoFile /\ call.at = 0
  BY DEF Received, Idle, NoCall
<1>. HIDE DEF w
<1>3. NoQuestions(w) /\ Len(w.out) <= 1
  BY <1>1 DEF AnswerInv, NoQuestions
<1>. QED
  BY <1>1, <1>2, <1>3, RestAnswers

\* What else happens while no processor has the turn.
LEMMA TransportAnswers ==
    ASSUME IInv, AnswerInv,
           \/ \E l \in Lines : ReceiveBadPipe(l)
           \/ Answer \/ KeyPressed
    PROVE  AnswerInv'
<1>1. /\ Good(session) /\ session \in Session /\ session.proc \in [Modes -> Processor]
      /\ session.out \in Seq(Shown)
  BY SessionShape DEF IInv, Good
<1>2. ASSUME NEW l \in Lines, ReceiveBadPipe(l)
      PROVE  AnswerInv'
  <2>. DEFINE x == [session EXCEPT !.out = <<>>]
              w == ShowPrompt(x)
  <2>1. x \in Session /\ x.stack = session.stack /\ x.proc = session.proc /\ x.out = <<>>
    <3>1. <<>> \in Seq(Modes \cup {"question", "more", "raised"})
      OBVIOUS
    <3>. QED
      BY <1>1, <3>1 DEF Session
  <2>2. /\ session' = w /\ file' = file /\ file = NoFile /\ call' = NoCall /\ call.at = 0
    BY <1>2 DEF ReceiveBadPipe, Idle, NoCall
  <2>. HIDE DEF x
  <2>3. Deepest(x) \in Modes
    BY <1>1, <2>1, DeepestIsMode DEF Deepest
  <2>4. SameBut(x, w) /\ w.out = Written(x, Deepest(x), Deepest(x))
    BY <2>1, ShowPromptIs
  <2>5. Len(w.out) <= 1
    BY <2>1, <2>3, <2>4, OneWritten DEF Shown
  <2>. HIDE DEF w
  <2>6. NoQuestions(w)
    BY <2>1, <2>4 DEF AnswerInv, NoQuestions, SameBut
  <2>. QED
    BY <2>1, <2>2, <2>4, <2>5, <2>6, RestAnswers DEF SameBut
<1>3. CASE Answer
  <2>. DEFINE w == IF call.taken THEN session ELSE ShowPrompt(session)
  <2>1. /\ session' = w /\ file' = file /\ file = NoFile /\ call' = NoCall /\ call.at = 0
        /\ call # NoCall
    BY <1>3 DEF Answer
  <2>2. Deepest(session) \in Modes
    BY <1>1, DeepestIsMode
  <2>3. /\ SameBut(session, ShowPrompt(session))
        /\ ShowPrompt(session).out = Written(session, Deepest(session), Deepest(session))
    BY <1>1, ShowPromptIs
  <2>4. w.stack = session.stack /\ w.proc = session.proc
    BY <2>3 DEF SameBut
  <2>5. Len(w.out) <= 1
    <3>1. CASE call.taken
      BY <3>1 DEF AnswerInv
    <3>2. CASE ~call.taken
      <4>1. session.out = <<>>
        BY <2>1, <3>2 DEF AnswerInv
      <4>. QED
        BY <1>1, <2>2, <2>3, <3>2, <4>1, OneWritten DEF Shown
    <3>. QED
      BY <3>1, <3>2
  <2>. HIDE DEF w
  <2>6. NoQuestions(w)
    BY <2>4 DEF AnswerInv, NoQuestions
  <2>. QED
    BY <2>1, <2>4, <2>5, <2>6, RestAnswers
<1>4. CASE KeyPressed
  <2>. DEFINE m == session.handler.by
              left == session.handler.left
              k == KeyTaken(session)
              w == TurnPage(k, m, left)
  <2>1. /\ Good(k) /\ k \in Session /\ k.stack = session.stack /\ m \in Modes
        /\ Pressed(session, k)
    BY <1>1, <1>4, KeyTakenKeeps, KeyTakenIs DEF KeyPressed, Good
  <2>2. session' = w /\ file' = file /\ file = NoFile /\ call' = NoCall /\ call.at = 0
    BY <1>4 DEF KeyPressed, Idle, NoCall
  <2>. HIDE DEF k
  <2>3. \/ Paused(k, w, m, left - 1)
        \/ SameBut(k, w) /\ w.out = Written(k, Deepest(k), Deepest(k))
        \/ SameBut(k, w) /\ w.out = Written(k, m, m)
    BY <2>1, OnKeystrokeIs, ShowPromptIs, WriteIs DEF TurnPage
  <2>. HIDE DEF w, m, left
  <2>4. k.out = <<>> /\ k.proc = [session.proc EXCEPT ![m].awaiting = FALSE]
    BY <2>1 DEF Pressed, m
  <2>7. k.proc \in [Modes -> Processor]
    BY <2>1, SessionShape
  <2>5. \A n \in Modes : /\ k.proc[n].done = session.proc[n].done
                         /\ k.proc[n].cont = session.proc[n].cont
    BY <1>1, <2>1, <2>4 DEF Processor
  <2>6. w.stack = k.stack /\ w.proc \in {k.proc, [k.proc EXCEPT ![m].awaiting = TRUE]}
    BY <2>3 DEF Paused, SameBut
  <2>8. \A n \in Modes : /\ w.proc[n].done = k.proc[n].done
                         /\ w.proc[n].cont = k.proc[n].cont
    BY <2>1, <2>6, <2>7 DEF Processor
  <2>9. Deepest(k) \in Modes
    BY <2>1, DeepestIsMode
  <2>10. Len(w.out) <= 1
    BY <2>1, <2>3, <2>4, <2>9, OneWritten DEF Shown, Paused
  <2>11. NoQuestions(w)
    BY <2>5, <2>8 DEF AnswerInv, NoQuestions
  <2>. QED
    BY <2>1, <2>2, <2>5, <2>6, <2>8, <2>10, <2>11, RestAnswers
<1>. QED
  BY <1>2, <1>3, <1>4

\* Everything that happens while a line is processed.
LEMMA ProcessAnswers ==
    ASSUME IInv, AnswerInv, NoFiles, Process
    PROVE  AnswerInv'
<1>1. file = NoFile /\ NoQuestions(session)
  BY DEF AnswerInv
<1>2. ASSUME InCall PROVE /\ ~call.taken => Here = session
                          /\ Me \in Modes /\ call.cmd \in Commands /\ Good(session)
  BY <1>2, HereIsGood, HereUntaken DEF IInv
<1>3. ~Parses \/ ~InCall
  <2>. SUFFICES ASSUME Parses, InCall PROVE FALSE
    OBVIOUS
  <2>1. Answering # "file"
    BY <1>1, <1>2 DEF Parses, Answering, NoQuestions
  <2>2. Effect # "parse"
    BY <1>2 DEF Effect, NoFiles
  <2>. QED
    BY <2>1, <2>2 DEF Parses
<1>4. CASE Pass
  BY <1>4, PassAnswers
<1>5. CASE FallThrough
  BY <1>5, FallThroughAnswers
<1>6. CASE Say \/ Enter \/ Exit \/ AskPassword \/ AskFile \/ Pause \/ Drop \/ CheckPassword
  <2>1. InCall /\ ~call.taken
    BY <1>6, ModeAssumption DEF Say, Enter, Exit, AskPassword, AskFile, Pause, Drop, CheckPassword,
                Effect, Kinds
  <2>. QED
    BY <1>6, <2>1, CommandsAnswer
<1>7. CASE LineAborted
  <2>1. InCall /\ ~call.taken
    BY <1>7 DEF LineAborted, Effect
  <2>2. /\ Here = session /\ session.out = <<>>
        /\ \A j \in DOMAIN session.stack : DoneFollows(session, j)
    BY <2>1, HereUntaken
  <2>. DEFINE x == [session EXCEPT !.out = <<"raised">>]
  <2>3. /\ session' = session \/ session' = [session EXCEPT !.out = Append(@, "raised")]
        /\ call' = NoCall /\ file' = file
    BY <1>7, <2>2 DEF LineAborted
  <2>4. session' = session \/ session' = x
    BY <2>2, <2>3
  <2>5. x.stack = session.stack /\ x.proc = session.proc /\ x.out = <<"raised">>
    BY <1>2 DEF Session
  <2>. HIDE DEF x
  <2>6. /\ session'.stack = session.stack /\ session'.proc = session.proc
        /\ session'.out \in {<<>>, <<"raised">>}
    BY <2>2, <2>4, <2>5
  <2>7. Len(session'.out) <= 1
    <3>1. Len(<<>>) = 0 /\ Len(<<"raised">>) = 1
      OBVIOUS
    <3>2. session'.out = <<>> \/ session'.out = <<"raised">>
      BY <2>6
    <3>. DEFINE shown == session'.out
    <3>3. shown = <<>> => Len(shown) <= 1
      BY <3>1
    <3>4. shown = <<"raised">> => Len(shown) <= 1
      BY <3>1
    <3>. QED
      BY <3>2, <3>3, <3>4
  <2>. QED
    BY <2>2, <2>3, <2>6, <2>7 DEF AnswerInv, NoQuestions, DoneFollows
<1>8. CASE FileUnreadable \/ OpenFile
  BY <1>3, <1>8 DEF FileUnreadable, OpenFile
<1>9. CASE FileEnd \/ FileAborted \/ \E c \in FileCommands : FileLine(c)
  BY <1>1, <1>9 DEF FileEnd, FileAborted, FileLine, Parsing
<1>. QED
  BY <1>4, <1>5, <1>6, <1>7, <1>8, <1>9 DEF Process

LEMMA InitAnswerInv == Init => AnswerInv
<1>. SUFFICES ASSUME Init PROVE AnswerInv
  OBVIOUS
<1>0. PICK top \in Tops :
        session = [stack |-> <<top>>, proc |-> [m \in Modes |-> Fresh(FALSE)],
                   pipe |-> FALSE, handler |-> NoKey, out |-> <<top>>]
  BY DEF Init
<1>1. /\ session.stack = <<top>> /\ session.out = <<top>>
      /\ session.proc = [m \in Modes |-> Fresh(FALSE)]
  BY <1>0
<1>2. DOMAIN session.stack = {1} /\ Len(session.out) = 1
  BY <1>1
<1>3. file = NoFile /\ call = NoCall
  BY DEF Init
<1>4. NoQuestions(session)
  <2>1. \A m \in Modes : session.proc[m] = Fresh(FALSE)
    BY <1>1, Zenon
  <2>2. Fresh(FALSE).cont # "file"
    BY DEF Fresh
  <2>. QED
    BY <2>1, <2>2 DEF NoQuestions
<1>. QED
  BY <1>2, <1>3, <1>4 DEF AnswerInv, DoneFollows

\* Any client, also one that types commands where they do not belong, leaves
\* questions unanswered, pipes open and pages waiting: no line and no key is
\* answered twice as long as no processor reads a file.  A processor that is done
\* and not seen by its parent took the line and showed nothing.
THEOREM AnsweredOnce == NoFiles => (Spec => []AtMostOneAnswer)
<1>. SUFFICES ASSUME NoFiles PROVE Spec => []AtMostOneAnswer
  OBVIOUS
<1>1. IInv /\ AnswerInv /\ [Next]_vars => AnswerInv'
  <2>. SUFFICES ASSUME IInv, AnswerInv, [Next]_vars PROVE AnswerInv'
    OBVIOUS
  <2>1. CASE Process
    BY <2>1, ProcessAnswers
  <2>2. ASSUME NEW l \in Lines, Receive(l) \/ ReceiveBadPipe(l)
        PROVE  AnswerInv'
    BY <2>2, ReceivedAnswers, TransportAnswers DEF Receive
  <2>3. CASE Answer \/ KeyPressed
    BY <2>3, TransportAnswers
  <2>4. CASE Closed \/ UNCHANGED vars
    BY <2>4 DEF Closed, vars, AnswerInv, NoQuestions, DoneFollows
  <2>. QED
    BY <2>1, <2>2, <2>3, <2>4 DEF Next
<1>2. AnswerInv => AtMostOneAnswer
  BY DEF AnswerInv, AtMostOneAnswer
<1>. QED
  BY InitIInv, NextIInv, InitAnswerInv, <1>1, <1>2, PTL DEF Spec
-----------------------------------------------------------------------------
(***************************************************************************)
(* The terminals.  They give the engine lines when it is at rest, also     *)
(* those of a chunk behind a line that ended the session.                  *)
(***************************************************************************)
LEMMA TNextIInv ==
    ASSUME IInv, line \in Commands, [TNext]_TVars
    PROVE  IInv'
<1>1. CASE \/ Work \/ LineDone \/ SshKey
           \/ \E chunk \in Chunks : TelnetKey(chunk)
  <2>1. Process \/ Answer \/ KeyPressed
    BY <1>1 DEF Work, LineDone, SshKey, TelnetKey
  <2>2. Next
    BY <2>1 DEF Next
  <2>. QED
    BY <2>2, NextIInv
<1>2. CASE EnterLine
  <2>. DEFINE l == [cmd |-> line, pipe |-> "none"]
  <2>1. Idle /\ Received(l)
    BY <1>2 DEF EnterLine, Handles
  <2>2. l.cmd \in Commands
    OBVIOUS
  <2>. HIDE DEF l
  <2>. QED
    BY <2>1, <2>2, ReceivedKeeps
<1>3. CASE \/ Type \/ EnterUsername \/ EnterPassword \/ (Closed /\ UNCHANGED terminal)
           \/ \E chunk \in Chunks : Arrive(chunk)
           \/ UNCHANGED TVars
  <2>1. UNCHANGED vars
    BY <1>3 DEF Type, EnterUsername, EnterPassword, Closed, Arrive, TVars
  <2>. QED
    BY <2>1, NextIInv
<1>. QED
  BY <1>1, <1>2, <1>3 DEF TNext

\* What is typed makes a command, perhaps a mistyped one.
LineInv == line \in Commands /\ keys \in Seq(Commands \cup {"letter", "enter"})

LEMMA NextLineInv ==
    ASSUME LineInv, [TNext]_TVars
    PROVE  LineInv'
<1>. DEFINE Units == Commands \cup {"letter", "enter"}
<1>1. \A chunk \in Chunks : chunk \in Seq(Units)
  BY TerminalAssumption
<1>2. {"blank", "typo"} \subseteq Commands
  BY TerminalAssumption
<1>. HIDE DEF Units
<1>3. CASE Type
  <2>1. keys # <<>> /\ keys \in Seq(Units)
    BY <1>3 DEF Type, Handles, LineInv, Units
  <2>2. keys[1] \in Units /\ Tail(keys) \in Seq(Units)
    BY <2>1
  <2>. QED
    BY <1>2, <1>3, <2>2 DEF Type, Spelled, OneCharacter, LineInv, Units
<1>4. CASE SshKey
  <2>1. keys # <<>> /\ keys \in Seq(Units)
    BY <1>4 DEF SshKey, LineInv, Units
  <2>2. "letter" \in Units
    BY DEF Units
  <2>3. (IF OneCharacter(keys[1]) THEN <<>> ELSE <<"letter">>) \in Seq(Units)
    BY <2>2
  <2>4. Tail(keys) \in Seq(Units)
    BY <2>1
  <2>5. ((IF OneCharacter(keys[1]) THEN <<>> ELSE <<"letter">>) \o Tail(keys)) \in Seq(Units)
    BY <2>3, <2>4
  <2>. QED
    BY <1>4, <2>5 DEF SshKey, LineInv, Units
<1>5. CASE EnterUsername \/ EnterPassword \/ EnterLine
  <2>1. keys # <<>> /\ keys \in Seq(Units)
    BY <1>5 DEF EnterUsername, EnterPassword, EnterLine, Handles, LineInv, Units
  <2>2. Tail(keys) \in Seq(Units)
    BY <2>1
  <2>3. keys' = Tail(keys) /\ line' = "blank"
    BY <1>5 DEF EnterUsername, EnterPassword, EnterLine
  <2>. QED
    BY <1>2, <2>2, <2>3 DEF LineInv, Units
<1>6. CASE Work
  <2>1. <<>> \in Seq(Units)
    OBVIOUS
  <2>. QED
    BY <1>6, <2>1 DEF Work, LineInv, Units
<1>7. CASE LineDone
  BY <1>7 DEF LineDone, LineInv
<1>8. ASSUME NEW chunk \in Chunks, Arrive(chunk) \/ TelnetKey(chunk)
      PROVE  LineInv'
  BY <1>1, <1>8 DEF Arrive, TelnetKey, terminal, LineInv, Units
<1>9. CASE (Closed /\ UNCHANGED terminal) \/ UNCHANGED TVars
  BY <1>9 DEF Closed, TVars, terminal, LineInv
<1>. QED
  BY <1>3, <1>4, <1>5, <1>6, <1>7, <1>8, <1>9 DEF TNext

LEMMA InitLineInv == TInit => LineInv
<1>1. <<>> \in Seq(Commands \cup {"letter", "enter"})
  OBVIOUS
<1>. QED
  BY <1>1, TerminalAssumption DEF TInit, LineInv

LEMMA TNextAnswers ==
    ASSUME NoFiles, IInv, AnswerInv, [TNext]_TVars
    PROVE  AnswerInv'
<1>1. CASE Work
  BY <1>1, ProcessAnswers DEF Work
<1>2. CASE LineDone \/ SshKey \/ \E chunk \in Chunks : TelnetKey(chunk)
  <2>1. Answer \/ KeyPressed
    BY <1>2 DEF LineDone, SshKey, TelnetKey
  <2>. QED
    BY <2>1, TransportAnswers
<1>3. CASE EnterLine
  <2>. DEFINE l == [cmd |-> line, pipe |-> "none"]
  <2>1. Idle /\ Received(l)
    BY <1>3 DEF EnterLine, Handles
  <2>. HIDE DEF l
  <2>. QED
    BY <2>1, ReceivedAnswers
<1>4. CASE \/ Type \/ EnterUsername \/ EnterPassword \/ (Closed /\ UNCHANGED terminal)
           \/ \E chunk \in Chunks : Arrive(chunk)
           \/ UNCHANGED TVars
  <2>1. UNCHANGED vars
    BY <1>4 DEF Type, EnterUsername, EnterPassword, Closed, Arrive, TVars
  <2>. QED
    BY <2>1 DEF vars, AnswerInv, NoQuestions, DoneFollows
<1>. QED
  BY <1>1, <1>2, <1>3, <1>4 DEF TNext

\* However the lines are typed, in whatever chunks, and also when a chunk goes on
\* behind a line that ended the session: no line and no key is answered twice as
\* long as no processor reads a file.
THEOREM TypedLinesAnsweredOnce == NoFiles => (TSpec => []AtMostOneAnswer)
<1>. SUFFICES ASSUME NoFiles PROVE TSpec => []AtMostOneAnswer
  OBVIOUS
<1>1. IInv /\ LineInv /\ AnswerInv /\ [TNext]_TVars => (IInv /\ LineInv /\ AnswerInv)'
  BY TNextIInv, NextLineInv, TNextAnswers DEF LineInv
<1>2. AnswerInv => AtMostOneAnswer
  BY DEF AnswerInv, AtMostOneAnswer
<1>3. TInit => Init
  BY DEF TInit
<1>. QED
  BY InitIInv, InitLineInv, InitAnswerInv, <1>1, <1>2, <1>3, PTL DEF TSpec
-----------------------------------------------------------------------------
(***************************************************************************)
(* What is echoed.                                                         *)
(***************************************************************************)

\* Only a processor that none moves to asks for a password.
PasswordsAtRoot == \A m \in Modes : AsksPassword(m) => m \in Tops \/ Parent[m] = m

TopHides == session.proc[session.stack[1]].hide

\* A Telnet shell's copy of the top processor's replace_input is right whenever
\* it is at rest, and during the login.
MaskInv ==
    /\ phase \in {"username", "password", "session"}
    /\ Ssh => phase = "session"
    /\ phase # "session" => /\ Idle /\ session.handler = NoKey /\ ~TopHides
                            /\ masked <=> phase = "password"
    /\ phase = "session" /\ ~Ssh /\ Idle /\ ~over => (masked <=> TopHides)

\* The engine comes to rest only at the end of ShellSession.receive, or when a line
\* is aborted, which ends the session unless it is one that raises under SSH.
LEMMA ProcessBusy ==
    ASSUME IInv, Process
    PROVE  Idle' => over' \/ Raises
<1>1. call \in [at : Nat, cmd : Commands, taken : BOOLEAN]
  BY DEF IInv
<1>2. ASSUME call'.taken PROVE ~Idle'
  BY <1>2 DEF Idle, NoCall
<1>3. ASSUME NEW w, Comes(w) PROVE ~Idle'
  <2>1. call'.taken
    BY <1>1, <1>3 DEF Comes
  <2>. QED
    BY <1>2, <2>1
<1>4. ASSUME NEW w, CloseFile(w) PROVE ~Idle'
  <2>1. call'.taken
    BY <1>1, <1>4 DEF CloseFile
  <2>. QED
    BY <1>2, <2>1
<1>5. CASE FallThrough
  <2>1. /\ InCall /\ ~call.taken /\ Answering = "none" /\ Effect = "unknown"
        /\ call' = [call EXCEPT !.at = @ - 1]
    BY <1>5 DEF FallThrough
  <2>2. Does[Me][call.cmd] = "unknown" /\ Me \in Modes
    BY <2>1, HereIsGood DEF Effect
  <2>3. call'.cmd # "blank"
    BY <1>1, <2>1, <2>2, CommandAssumption
  <2>. QED
    BY <2>3 DEF Idle, NoCall
<1>6. CASE OpenFile
  <2>1. InCall /\ file'.at = call.at
    BY <1>6 DEF OpenFile
  <2>2. call.at # 0
    BY <2>1, HereIsGood
  <2>. QED
    BY <2>1, <2>2 DEF Idle, NoFile
<1>7. ASSUME NEW c \in FileCommands, FileLine(c) PROVE ~Idle'
  <2>1. file # NoFile /\ file' = [file EXCEPT !.read = @ + 1]
    BY <1>7 DEF FileLine, Parsing
  <2>2. file'.read = file.read + 1 /\ file.read \in Nat
    BY <2>1, CommandAssumption DEF IInv
  <2>3. file'.read # 0
    BY <2>2
  <2>. QED
    BY <2>3 DEF Idle, NoFile
<1>8. CASE LineAborted
  BY <1>8 DEF LineAborted, Raises
<1>9. CASE Pass \/ Say \/ Enter \/ Exit \/ AskPassword \/ AskFile \/ Pause \/ Drop
           \/ CheckPassword \/ FileUnreadable
  BY <1>3, <1>9 DEF Pass, Say, Enter, Exit, AskPassword, AskFile, Pause, Drop,
                    CheckPassword, FileUnreadable
<1>10. CASE FileEnd \/ FileAborted
  BY <1>4, <1>10 DEF FileEnd, FileAborted
<1>. QED
  BY <1>5, <1>6, <1>7, <1>8, <1>9, <1>10 DEF Process

\* Nor is anything processed while it is at rest.
LEMMA RestingIdle ==
    ASSUME Idle
    PROVE  ~Process /\ ~Answer
BY DEF Idle, NoCall, NoFile, InCall, Process, Pass, FallThrough, Say, Enter, Exit, AskPassword,
       AskFile, Pause, Drop, CheckPassword, FileUnreadable, OpenFile, LineAborted, FileEnd,
       FileAborted, FileLine, Parsing, Answer

\* A key answers no question.
LEMMA KeyHides ==
    ASSUME IInv, KeyPressed
    PROVE  TopHides' <=> TopHides
<1>1. /\ Good(session) /\ session \in Session /\ session.proc \in [Modes -> Processor]
      /\ session.stack \in Seq(Modes) /\ session.stack # <<>>
  BY SessionShape DEF IInv, Good
<1>. DEFINE m == session.handler.by
            left == session.handler.left
            k == KeyTaken(session)
            w == TurnPage(k, m, left)
<1>2. /\ Good(k) /\ k \in Session /\ k.stack = session.stack /\ m \in Modes
      /\ Pressed(session, k) /\ session' = w
  BY <1>1, KeyTakenKeeps, KeyTakenIs DEF KeyPressed, Good
<1>. HIDE DEF k
<1>3. \/ Paused(k, w, m, left - 1)
      \/ SameBut(k, w)
  BY <1>2, OnKeystrokeIs, ShowPromptIs, WriteIs DEF TurnPage
<1>. HIDE DEF w, m, left
<1>4. k.proc = [session.proc EXCEPT ![m].awaiting = FALSE] /\ k.proc \in [Modes -> Processor]
  BY <1>2, SessionShape DEF Pressed, m
<1>5. w.stack = k.stack /\ w.proc \in {k.proc, [k.proc EXCEPT ![m].awaiting = TRUE]}
  BY <1>3 DEF Paused, SameBut
<1>6. \A n \in Modes : k.proc[n].hide = session.proc[n].hide
  BY <1>1, <1>2, <1>4 DEF Processor
<1>7. \A n \in Modes : w.proc[n].hide = k.proc[n].hide
  BY <1>2, <1>4, <1>5 DEF Processor
<1>8. session.stack[1] \in Modes
  BY <1>1
<1>9. /\ session'.stack[1] = session.stack[1]
      /\ session'.proc[session.stack[1]].hide = session.proc[session.stack[1]].hide
  BY <1>2, <1>5, <1>6, <1>7, <1>8
<1>. QED
  BY <1>9 DEF TopHides

LEMMA InitMaskInv == TInit => MaskInv
<1>. SUFFICES ASSUME TInit PROVE MaskInv
  OBVIOUS
<1>0. PICK top \in Tops :
        session = [stack |-> <<top>>, proc |-> [m \in Modes |-> Fresh(FALSE)],
                   pipe |-> FALSE, handler |-> NoKey, out |-> <<top>>]
  BY DEF TInit, Init
<1>1. /\ session.stack = <<top>> /\ session.handler = NoKey
      /\ session.proc = [m \in Modes |-> Fresh(FALSE)]
  BY <1>0
<1>2. session.stack[1] = top /\ top \in Modes
  BY <1>1, ModeAssumption
<1>3. \A m \in Modes : session.proc[m] = Fresh(FALSE)
  BY <1>1, Zenon
<1>4. Fresh(FALSE).hide = FALSE
  BY DEF Fresh
<1>5. ~TopHides
  BY <1>2, <1>3, <1>4 DEF TopHides
<1>6. Idle
  BY DEF TInit, Init, Idle
<1>7. masked = FALSE /\ phase = IF Ssh THEN "session" ELSE "username"
  BY DEF TInit
<1>. QED
  BY <1>1, <1>5, <1>6, <1>7 DEF MaskInv

LEMMA NextMaskInv ==
    ASSUME IInv, MaskInv, [TNext]_TVars
    PROVE  MaskInv'
<1>1. CASE Work
  <2>1. Process /\ UNCHANGED <<shell, phase, masked>>
    BY <1>1 DEF Work
  <2>2. ~Idle
    BY <2>1, RestingIdle
  <2>3. Idle' => over' \/ Ssh
    BY <1>1, <2>1, ProcessBusy, Zenon DEF Work
  <2>4. phase = "session"
    BY <2>2 DEF MaskInv
  <2>. QED
    BY <2>1, <2>3, <2>4 DEF MaskInv, Ssh
<1>2. CASE LineDone
  <2>1. Answer /\ masked' = MaskAfter /\ UNCHANGED <<shell, phase>>
    BY <1>2 DEF LineDone
  <2>2. ~Idle
    BY <2>1, RestingIdle
  <2>3. phase = "session"
    BY <2>2 DEF MaskInv
  <2>4. ~Ssh => (masked' <=> TopHides')
    BY <2>1, Zenon DEF MaskAfter, TopHides
  <2>. QED
    BY <2>1, <2>3, <2>4 DEF MaskInv, Ssh
<1>3. CASE SshKey \/ \E chunk \in Chunks : TelnetKey(chunk)
  <2>1. KeyPressed /\ UNCHANGED <<shell, phase, masked>>
    BY <1>3 DEF SshKey, TelnetKey, terminal
  <2>2. session.handler # NoKey /\ UNCHANGED <<call, file, over>>
    BY <2>1 DEF KeyPressed
  <2>3. phase = "session"
    BY <2>2 DEF MaskInv
  <2>4. TopHides' <=> TopHides
    BY <2>1, KeyHides
  <2>. QED
    BY <2>1, <2>2, <2>3, <2>4 DEF MaskInv, Ssh, Idle
<1>4. CASE EnterLine
  <2>1. /\ phase = "session" /\ UNCHANGED <<shell, phase>>
        /\ call' = [at |-> Len(session.stack), cmd |-> line, taken |-> FALSE]
    BY <1>4 DEF EnterLine, Received
  <2>2. Len(session.stack) \in Nat \ {0}
    BY DeepestIsMode DEF IInv
  <2>3. ~Idle'
    BY <2>1, <2>2 DEF Idle, NoCall
  <2>. QED
    BY <2>1, <2>3 DEF MaskInv, Ssh
<1>5. ASSUME UNCHANGED <<vars, shell>>
      PROVE  /\ TopHides' <=> TopHides
             /\ Idle' <=> Idle
             /\ over' = over /\ session' = session /\ shell' = shell
  BY <1>5 DEF vars, TopHides, Idle
<1>6. CASE EnterUsername
  <2>1. /\ phase = "username" /\ phase' = "password" /\ masked' = TRUE
        /\ UNCHANGED <<vars, shell>>
    BY <1>6 DEF EnterUsername
  <2>2. Idle' /\ session'.handler = NoKey /\ ~TopHides'
    BY <1>5, <2>1 DEF MaskInv
  <2>3. ~Ssh'
    BY <1>5, <2>1 DEF MaskInv, Ssh
  <2>. QED
    BY <2>1, <2>2, <2>3 DEF MaskInv
<1>7. CASE EnterPassword
  <2>1. /\ phase = "password" /\ phase' = "session" /\ masked' = FALSE
        /\ UNCHANGED <<vars, shell>>
    BY <1>7 DEF EnterPassword
  <2>2. ~TopHides'
    BY <1>5, <2>1 DEF MaskInv
  <2>. QED
    BY <2>1, <2>2 DEF MaskInv
<1>8. CASE \/ Type \/ (Closed /\ UNCHANGED terminal)
           \/ \E chunk \in Chunks : Arrive(chunk)
           \/ UNCHANGED TVars
  <2>1. UNCHANGED <<vars, shell>> /\ phase' = phase /\ masked' = masked
    BY <1>8 DEF Type, Closed, Arrive, TVars, terminal
  <2>2. /\ TopHides' <=> TopHides
        /\ Idle' <=> Idle
        /\ over' = over /\ session' = session
        /\ Ssh' <=> Ssh
    BY <1>5, <2>1 DEF Ssh
  <2>3. masked' <=> masked
    BY <2>1
  <2>. QED
    BY <2>1, <2>2, <2>3 DEF MaskInv
<1>. QED
  BY <1>1, <1>2, <1>3, <1>4, <1>6, <1>7, <1>8 DEF TNext

\* Of two processors of a chain at rest, the deeper one asks for no password.
LEMMA DeeperAsksNone ==
    ASSUME PasswordsAtRoot, IInv, Idle, Len(session.stack) # 1
    PROVE  session.proc[Deepest(session)].cont # "password"
<1>. DEFINE n == Len(session.stack)
            d == session.stack[n]
<1>1. /\ session.stack \in Seq(Modes) /\ session.stack # <<>> /\ IsPath(session.stack)
      /\ Asks(session) /\ d \in Modes /\ d = Deepest(session)
  BY SessionShape, DeepestIsMode DEF IInv, Good, Deepest
<1>2. n - 1 \in 1..(n - 1) /\ n - 1 \in DOMAIN session.stack /\ n \in DOMAIN session.stack
      /\ n - 1 # n /\ (n - 1) + 1 = n
  <2>1. n \in Nat \ {0, 1} /\ DOMAIN session.stack = 1..n
    BY <1>1
  <2>. HIDE DEF n
  <2>. QED
    BY <2>1
<1>3. session.stack[(n - 1) + 1] \notin Tops
      /\ Parent[session.stack[(n - 1) + 1]] = session.stack[n - 1]
  BY <1>1, <1>2 DEF IsPath
<1>4. session.stack[n - 1] # d
  BY <1>2, ChainDistinct DEF Idle
<1>5. d \notin Tops /\ Parent[d] # d
  BY <1>2, <1>3, <1>4
<1>6. ~AsksPassword(d)
  BY <1>1, <1>5 DEF PasswordsAtRoot
<1>. QED
  BY <1>1, <1>6 DEF Asks, MayBe

\* What a terminal echoes is right at rest.
LEMMA HiddenRight ==
    ASSUME PasswordsAtRoot, IInv, MaskInv, Idle, ~over, ~Stranded
    PROVE  Hidden <=> ForPassword
<1>. DEFINE n == Len(session.stack)
<1>1. /\ session.stack \in Seq(Modes) /\ n \in Nat \ {0} /\ Asks(session)
      /\ Deepest(session) \in Modes /\ session.stack[1] \in Modes
      /\ Deepest(session) = session.stack[n]
  BY SessionShape, DeepestIsMode DEF IInv, Good, Deepest
<1>2. \A m \in Modes : session.proc[m].hide <=> session.proc[m].cont = "password"
  BY <1>1 DEF Asks, MayBe
<1>3. CASE phase # "session"
  BY <1>3 DEF MaskInv, Hidden, ForPassword
<1>4. CASE phase = "session" /\ Ssh
  BY <1>1, <1>2, <1>4 DEF Hidden, ForPassword
<1>5. CASE phase = "session" /\ ~Ssh
  <2>1. Hidden <=> session.proc[session.stack[1]].cont = "password"
    BY <1>1, <1>2, <1>5 DEF MaskInv, Hidden, TopHides
  <2>2. ForPassword <=> session.proc[Deepest(session)].cont = "password"
    BY <1>5 DEF ForPassword
  <2>3. CASE n = 1
    BY <1>1, <2>1, <2>2, <2>3
  <2>4. CASE n # 1
    <3>1. 1 \in 1..(n - 1)
      <4>. HIDE DEF n
      <4>. QED
        BY <1>1, <2>4
    <3>2. session.proc[session.stack[1]].cont = "none"
      BY <3>1 DEF Stranded
    <3>3. session.proc[Deepest(session)].cont # "password"
      BY <2>4, DeeperAsksNone
    <3>. QED
      BY <2>1, <2>2, <3>2, <3>3
  <2>. QED
    BY <2>3, <2>4
<1>. QED
  BY <1>3, <1>4, <1>5

\* Where only processors that none moves to ask for a password, as those of every
\* vendor do: wherever the chunks are cut, whatever lines are typed and keys pressed,
\* a password is never echoed and everything else is, on Telnet and on SSH, but for
\* what is typed after a session is over or while a question is open that the next
\* line does not reach.
THEOREM EchoesRight == PasswordsAtRoot => (TSpec => EchoesAllButPasswords)
<1>. SUFFICES ASSUME PasswordsAtRoot PROVE TSpec => EchoesAllButPasswords
  OBVIOUS
<1>1. IInv /\ LineInv /\ MaskInv /\ [TNext]_TVars => (IInv /\ LineInv /\ MaskInv)'
  BY TNextIInv, NextLineInv, NextMaskInv DEF LineInv
<1>2. IInv /\ MaskInv /\ [TNext]_TVars
        => [Typed /\ ~over /\ ~Stranded => echo' = IF ForPassword THEN "hidden" ELSE "plain"]_TVars
  <2>. SUFFICES ASSUME IInv, MaskInv, TNext, Typed, ~over, ~Stranded
                PROVE  echo' = IF ForPassword THEN "hidden" ELSE "plain"
    BY DEF Typed, TVars
  <2>1. Type
    BY DEF Typed, TNext, Arrive, TelnetKey, SshKey, EnterUsername, EnterPassword, EnterLine, Work,
           LineDone, Closed, terminal
  <2>2. Idle /\ echo' = IF Hidden THEN "hidden" ELSE "plain"
    BY <2>1 DEF Type, Handles
  <2>3. Hidden <=> ForPassword
    BY <2>2, HiddenRight
  <2>. QED
    BY <2>2, <2>3
<1>3. TInit => Init
  BY DEF TInit
<1>. QED
  BY InitIInv, InitLineInv, InitMaskInv, <1>1, <1>2, <1>3, PTL DEF TSpec, EchoesAllButPasswords
=============================================================================
