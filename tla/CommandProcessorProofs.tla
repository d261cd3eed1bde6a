----------------------- MODULE CommandProcessorProofs -----------------------
(***************************************************************************)
(* Proofs about CommandProcessor, for every mode tree, every command table *)
(* and every client: the state has its type, and the sub_processor links   *)
(* form a path of the mode tree that starts at the top processor.  For     *)
(* every client that gives its commands in their modes, with files parsed  *)
(* whenever it asks for that: a session at rest shows exactly one thing,   *)
(* no processor is done, and questions and keys reach who waits for them.  *)
(***************************************************************************)
EXTENDS CommandProcessor, Integers, TLAPS, WellFoundedInduction

(***************************************************************************)
(* What the methods of a processor preserve.                               *)
(***************************************************************************)

\* Processor m has a command that asks for a password.
AsksPassword(m) == \E c \in Commands : Does[m][c] = "password"

\* p is what processor m may be: it waits for a password only if it asks for one,
\* and only then is the input replaced.
MayBe(m, p) ==
    /\ p.cont = "password" => AsksPassword(m)
    /\ p.hide <=> p.cont = "password"

Asks(w) == \A m \in Modes : MayBe(m, w.proc[m])

Good(w) ==
    /\ w \in Session
    /\ w.stack # <<>>
    /\ IsPath(w.stack)
    /\ Asks(w)

Shown == Modes \cup {"question", "more", "raised"}

\* A session is a record of these five fields.
LEMMA SessionShape ==
    ASSUME NEW w \in Session
    PROVE  /\ w.stack \in Seq(Modes)
           /\ w.proc \in [Modes -> Processor]
           /\ w.pipe \in BOOLEAN
           /\ w.handler \in {NoKey} \cup [by : Modes, left : 0..MaxPages]
           /\ w.out \in Seq(Shown)
BY DEF Session, Shown

\* A password leads to a child.
LEMMA EnabledIsChild ==
    ASSUME NEW m \in Modes, AsksPassword(m)
    PROVE  EnabledOf[m] \in Modes /\ EnabledOf[m] \notin Tops /\ Parent[EnabledOf[m]] = m
BY ModeAssumption, CommandAssumption DEF AsksPassword

\* write() touches nothing but what the terminal shows.
LEMMA WriteKeeps ==
    ASSUME NEW w, Good(w), NEW m \in Modes, NEW what \in Shown
    PROVE  /\ Good(Write(w, m, what))
           /\ Write(w, m, what).stack = w.stack
           /\ Write(w, m, what).proc = w.proc
<1>1. w \in Session
  BY DEF Good
<1>2. w.out \in Seq(Shown)
  BY <1>1, SessionShape
<1>3. Append(w.out, what) \in Seq(Shown)
  BY <1>2
<1>. QED
  BY <1>1, <1>3 DEF Good, Session, Write, Asks, Shown

\* The deepest processor is one of the modes.
LEMMA DeepestIsMode ==
    ASSUME NEW w, Good(w)
    PROVE  /\ Deepest(w) \in Modes
           /\ Len(w.stack) \in Nat \ {0}
<1>1. w.stack \in Seq(Modes) /\ w.stack # <<>>
  BY SessionShape DEF Good
<1>. QED
  BY <1>1 DEF Deepest

\* show_prompt() touches nothing but what the terminal shows.
LEMMA ShowPromptKeeps ==
    ASSUME NEW w, Good(w)
    PROVE  /\ Good(ShowPrompt(w))
           /\ ShowPrompt(w).stack = w.stack
           /\ ShowPrompt(w).proc = w.proc
BY WriteKeeps, DeepestIsMode DEF ShowPrompt, Shown

\* The end of process_command leaves the chain alone.
LEMMA SettledKeeps ==
    ASSUME NEW w, Good(w), NEW i \in DOMAIN w.stack
    PROVE  /\ Good(Settled(w, i))
           /\ Settled(w, i).stack = w.stack
<1>. DEFINE v == FinishPiping(w, w.stack[i])
<1>1. Good(v) /\ v.stack = w.stack
  BY DEF Good, Session, FinishPiping, Asks
<1>2. Good(ShowPrompt(v)) /\ ShowPrompt(v).stack = v.stack
  BY <1>1, ShowPromptKeeps
<1>. QED
  BY <1>1, <1>2 DEF Settled

\* The chain down to a processor is a path when the chain is.
LEMMA CutIsPath ==
    ASSUME NEW s \in Seq(Modes), IsPath(s), NEW i \in DOMAIN s
    PROVE  /\ SubSeq(s, 1, i) \in Seq(Modes) \ {<<>>}
           /\ Len(SubSeq(s, 1, i)) = i
           /\ \A j \in 1..i : SubSeq(s, 1, i)[j] = s[j]
           /\ IsPath(SubSeq(s, 1, i))
<1>1. i \in 1..Len(s)
  OBVIOUS
<1>2. /\ SubSeq(s, 1, i) \in Seq(Modes)
      /\ Len(SubSeq(s, 1, i)) = i
      /\ \A j \in 1..i : SubSeq(s, 1, i)[j] = s[j]
  BY <1>1
<1>3. SubSeq(s, 1, i) # <<>>
  BY <1>1, <1>2
<1>4. ASSUME NEW j \in 1..(Len(SubSeq(s, 1, i)) - 1)
      PROVE  SubSeq(s, 1, i)[j + 1] \notin Tops /\ Parent[SubSeq(s, 1, i)[j + 1]] = SubSeq(s, 1, i)[j]
  <2>1. j \in 1..i /\ j + 1 \in 1..i /\ j \in 1..(Len(s) - 1)
    BY <1>1, <1>2
  <2>2. s[j + 1] \notin Tops /\ Parent[s[j + 1]] = s[j]
    BY <2>1 DEF IsPath
  <2>. QED
    BY <1>2, <2>1, <2>2
<1>5. IsPath(SubSeq(s, 1, i))
  BY <1>4 DEF IsPath
<1>. QED
  BY <1>2, <1>3, <1>5

\* So is the chain with a child of that processor under it.
LEMMA ChildIsPath ==
    ASSUME NEW s \in Seq(Modes), IsPath(s), NEW i \in DOMAIN s,
           NEW m \in Modes, m \notin Tops, Parent[m] = s[i]
    PROVE  LET t == Append(SubSeq(s, 1, i), m)
           IN /\ t \in Seq(Modes) \ {<<>>}
              /\ Len(t) = i + 1
              /\ \A j \in 1..i : t[j] = s[j]
              /\ IsPath(t)
<1>. DEFINE u == SubSeq(s, 1, i)
            t == Append(u, m)
<1>1. /\ u \in Seq(Modes)
      /\ Len(u) = i
      /\ \A j \in 1..i : u[j] = s[j]
      /\ IsPath(u)
  BY CutIsPath
<1>2. i \in 1..Len(s)
  OBVIOUS
<1>. HIDE DEF u
<1>3. t \in Seq(Modes) /\ Len(t) = i + 1 /\ t # <<>>
  BY <1>1, <1>2
<1>4. \A j \in 1..i : t[j] = u[j]
  BY <1>1, <1>2
<1>5. t[i + 1] = m
  BY <1>1, <1>2
<1>6. ASSUME NEW j \in 1..(Len(t) - 1)
      PROVE  t[j + 1] \notin Tops /\ Parent[t[j + 1]] = t[j]
  <2>1. CASE j = i
    BY <2>1, <1>1, <1>2, <1>4, <1>5
  <2>2. CASE j # i
    <3>1. j \in 1..(Len(u) - 1) /\ j \in 1..i /\ j + 1 \in 1..i
      BY <2>2, <1>1, <1>2, <1>3
    <3>2. u[j + 1] \notin Tops /\ Parent[u[j + 1]] = u[j]
      BY <3>1, <1>1 DEF IsPath
    <3>. QED
      BY <3>1, <3>2, <1>4
  <2>. QED
    BY <2>1, <2>2
<1>7. IsPath(t)
  BY <1>6 DEF IsPath
<1>. QED
  BY <1>1, <1>3, <1>4, <1>7 DEF u

\* What a call at place i may do to the chain: nothing above i, nor i, changes.
Above(w, v, i) ==
    /\ i \in DOMAIN v.stack
    /\ \A j \in 1..i : v.stack[j] = w.stack[j]

\* A session whose chain is cut at a processor.
LEMMA CutKeeps ==
    ASSUME NEW w, Good(w), NEW i \in DOMAIN w.stack
    PROVE  LET v == [w EXCEPT !.stack = SubSeq(@, 1, i)]
           IN Good(v) /\ Above(w, v, i)
<1>1. w.stack \in Seq(Modes) /\ IsPath(w.stack)
  BY SessionShape DEF Good
<1>2. /\ SubSeq(w.stack, 1, i) \in Seq(Modes) \ {<<>>}
      /\ Len(SubSeq(w.stack, 1, i)) = i
      /\ \A j \in 1..i : SubSeq(w.stack, 1, i)[j] = w.stack[j]
      /\ IsPath(SubSeq(w.stack, 1, i))
  BY <1>1, CutIsPath
<1>. DEFINE u == SubSeq(w.stack, 1, i)
            v == [w EXCEPT !.stack = u]
<1>. HIDE DEF u
<1>3. v.stack = u /\ v.proc = w.proc /\ v \in Session
  BY <1>2 DEF u, Good, Session
<1>4. Good(v)
  BY <1>2, <1>3 DEF u, Good, Asks
<1>5. i \in 1..Len(w.stack)
  BY <1>1
<1>6. i \in DOMAIN u
  BY <1>2, <1>5 DEF u
<1>7. Above(w, v, i)
  BY <1>2, <1>3, <1>6 DEF u, Above
<1>. QED
  BY <1>4, <1>7 DEF u

\* A session of which one processor changes.
LEMMA ProcKeeps ==
    ASSUME NEW w, Good(w), NEW m \in Modes, NEW p \in Processor,
           MayBe(m, p)
    PROVE  LET v == [w EXCEPT !.proc[m] = p]
           IN Good(v) /\ v.stack = w.stack
BY DEF Good, Session, Asks

\* is_done = True.
LEMMA DoneKeeps ==
    ASSUME NEW w, Good(w), NEW m \in Modes
    PROVE  LET v == [w EXCEPT !.proc[m].done = TRUE]
           IN Good(v) /\ v.stack = w.stack
<1>. DEFINE p == [w.proc[m] EXCEPT !.done = TRUE]
<1>1. w.proc[m] \in Processor
  BY SessionShape DEF Good
<1>2. p \in Processor /\ p.cont = w.proc[m].cont /\ p.hide = w.proc[m].hide
  BY <1>1 DEF Processor
<1>3. MayBe(m, p)
  BY <1>2 DEF Good, Asks, MayBe
<1>. HIDE DEF p
<1>4. Good([w EXCEPT !.proc[m] = p]) /\ [w EXCEPT !.proc[m] = p].stack = w.stack
  BY <1>2, <1>3, ProcKeeps
<1>5. [w EXCEPT !.proc[m].done = TRUE] = [w EXCEPT !.proc[m] = p]
  BY DEF p
<1>. QED
  BY <1>4, <1>5

\* continue_to() with a question, and the answer that ends it.
LEMMA AskKeeps ==
    ASSUME NEW w, Good(w), NEW m \in Modes, NEW what \in {"password", "file"},
           what = "password" => AsksPassword(m)
    PROVE  Good(Ask(w, m, what)) /\ Ask(w, m, what).stack = w.stack
<1>. DEFINE x == Write(w, m, "question")
            p == [x.proc[m] EXCEPT !.cont = what, !.hide = (what = "password")]
<1>1. Good(x) /\ x.stack = w.stack
  BY WriteKeeps DEF Shown
<1>. HIDE DEF x
<1>2. x.proc[m] \in Processor
  BY <1>1, SessionShape DEF Good
<1>3. p \in Processor /\ MayBe(m, p)
  BY <1>2 DEF Processor, MayBe
<1>. HIDE DEF p
<1>4. Good([x EXCEPT !.proc[m] = p]) /\ [x EXCEPT !.proc[m] = p].stack = x.stack
  BY <1>1, <1>3, ProcKeeps
<1>5. Ask(w, m, what) = [x EXCEPT !.proc[m] = p]
  <2>1. x \in Session
    BY <1>1 DEF Good
  <2>. QED
    BY <1>2, <2>1 DEF Ask, p, x, Session, Processor
<1>. QED
  BY <1>1, <1>4, <1>5

LEMMA AnsweredKeeps ==
    ASSUME NEW w, Good(w), NEW m \in Modes
    PROVE  Good(Answered(w, m)) /\ Answered(w, m).stack = w.stack
<1>. DEFINE p == [w.proc[m] EXCEPT !.cont = "none", !.hide = FALSE]
<1>1. w \in Session /\ w.proc[m] \in Processor
  BY SessionShape DEF Good
<1>2. p \in Processor /\ MayBe(m, p)
  BY <1>1 DEF Processor, MayBe
<1>. HIDE DEF p
<1>3. Good([w EXCEPT !.proc[m] = p]) /\ [w EXCEPT !.proc[m] = p].stack = w.stack
  BY <1>2, ProcKeeps
<1>4. Answered(w, m) = [w EXCEPT !.proc[m] = p]
  BY <1>1 DEF Answered, p, Session, Processor
<1>. QED
  BY <1>3, <1>4

\* on_keystroke() with any number of pauses left, and the key that is taken.
LEMMA OnKeystrokeKeeps ==
    ASSUME NEW w, Good(w), NEW m \in Modes, NEW left \in 0..MaxPages
    PROVE  Good(OnKeystroke(w, m, left)) /\ OnKeystroke(w, m, left).stack = w.stack
<1>. DEFINE x == Write(w, m, "more")
            p == [x.proc[m] EXCEPT !.awaiting = TRUE]
            y == [x EXCEPT !.proc[m] = p]
            z == [y EXCEPT !.handler = [by |-> m, left |-> left]]
<1>1. Good(x) /\ x.stack = w.stack
  BY WriteKeeps DEF Shown
<1>2. x \in Session /\ x.proc[m] \in Processor
  BY <1>1, SessionShape DEF Good
<1>3. p \in Processor /\ p.cont = x.proc[m].cont /\ p.hide = x.proc[m].hide
  BY <1>2 DEF Processor
<1>4. MayBe(m, p)
  BY <1>1, <1>3 DEF Good, Asks, MayBe
<1>. HIDE DEF p, x
<1>5. Good(y) /\ y.stack = x.stack
  BY <1>1, <1>3, <1>4, ProcKeeps
<1>. HIDE DEF y
<1>6. Good(z) /\ z.stack = y.stack
  BY <1>5 DEF Good, Session, Asks
<1>7. OnKeystroke(w, m, left) \in {y, z}
  BY DEF OnKeystroke, x, y, p
<1>. QED
  BY <1>1, <1>5, <1>6, <1>7

LEMMA KeyTakenKeeps ==
    ASSUME NEW w, Good(w), w.handler # NoKey
    PROVE  /\ Good(KeyTaken(w)) /\ KeyTaken(w).stack = w.stack
           /\ w.handler.by \in Modes /\ w.handler.left \in 0..MaxPages
<1>. DEFINE m == w.handler.by
            x == [w EXCEPT !.out = <<>>]
            y == [x EXCEPT !.handler = NoKey]
            p == [y.proc[m] EXCEPT !.awaiting = FALSE]
            z == [y EXCEPT !.proc[m] = p]
<1>1. w \in Session /\ m \in Modes /\ w.handler.left \in 0..MaxPages
  BY SessionShape DEF Good
<1>. HIDE DEF m
<1>2. <<>> \in Seq(Shown)
  OBVIOUS
<1>3. Good(x) /\ x.stack = w.stack
  BY <1>2 DEF Good, Session, Asks, Shown
<1>4. Good(y) /\ y.stack = w.stack
  BY <1>3 DEF Good, Session, Asks
<1>5. KeyTaken(w) = z
  BY <1>1 DEF KeyTaken, Session, Processor, m
<1>. HIDE DEF y
<1>6. y.proc[m] \in Processor
  BY <1>1, <1>4, SessionShape DEF Good
<1>7. p \in Processor /\ p.cont = y.proc[m].cont /\ p.hide = y.proc[m].hide
  BY <1>6 DEF Processor
<1>8. MayBe(m, p)
  BY <1>1, <1>4, <1>7 DEF Good, Asks, MayBe
<1>. HIDE DEF p
<1>9. Good(z) /\ z.stack = y.stack
  BY <1>1, <1>4, <1>7, <1>8, ProcKeeps
<1>. QED
  BY <1>1, <1>4, <1>5, <1>9 DEF m

\* Here: the session after the turn of the sub_processor.
LEMMA ReturnedKeeps ==
    ASSUME NEW w, Good(w), NEW i \in DOMAIN w.stack
    PROVE  /\ Good(Returned(w, i))
           /\ Above(w, Returned(w, i), i)
<1>1. w.stack \in Seq(Modes) /\ i \in 1..Len(w.stack)
  BY SessionShape DEF Good
<1>2. w.stack[i] \in Modes
  BY <1>1
<1>3. Above(w, w, i)
  BY <1>1 DEF Above
<1>. DEFINE followed == [w EXCEPT !.proc[w.stack[i]].done = TRUE]
            cut == [w EXCEPT !.stack = SubSeq(@, 1, i)]
<1>4. Good(followed) /\ Above(w, followed, i)
  BY <1>1, <1>2, DoneKeeps DEF Above
<1>5. Good(cut) /\ Above(w, cut, i)
  BY CutKeeps
<1>6. Good(ShowPrompt(cut)) /\ ShowPrompt(cut).stack = cut.stack
  BY <1>5, ShowPromptKeeps
<1>7. Above(w, ShowPrompt(cut), i)
  BY <1>5, <1>6 DEF Above
<1>. QED
  BY <1>3, <1>4, <1>6, <1>7 DEF Returned

\* move_to() keeps the chain a path when it goes to a child.
LEMMA MoveToKeeps ==
    ASSUME NEW w, Good(w), NEW i \in DOMAIN w.stack,
           NEW m \in Modes, m \notin Tops, Parent[m] = w.stack[i]
    PROVE  /\ Good(MoveTo(w, i, m))
           /\ Above(w, MoveTo(w, i, m), i)
<1>. DEFINE t == Append(SubSeq(w.stack, 1, i), m)
            p == Fresh(w.proc[w.stack[i]].silent)
            x == [w EXCEPT !.stack = t]
            v == [x EXCEPT !.proc[m] = p]
<1>1. w.stack \in Seq(Modes) /\ IsPath(w.stack) /\ i \in 1..Len(w.stack)
  BY SessionShape DEF Good
<1>2. /\ t \in Seq(Modes) \ {<<>>}
      /\ Len(t) = i + 1
      /\ \A j \in 1..i : t[j] = w.stack[j]
      /\ IsPath(t)
  BY <1>1, ChildIsPath
<1>3. p \in Processor /\ MayBe(m, p)
  <2>1. w.proc[w.stack[i]].silent \in BOOLEAN
    BY <1>1 DEF Good, Session, Processor
  <2>. QED
    BY <2>1 DEF Fresh, Processor, MayBe
<1>. HIDE DEF t, p
<1>4. x \in Session /\ x.stack = t /\ x.proc = w.proc
  BY <1>2 DEF Good, Session
<1>5. Good(x)
  BY <1>2, <1>4 DEF Good, Asks
<1>. HIDE DEF x
<1>6. Good(v) /\ v.stack = t
  BY <1>3, <1>4, <1>5, ProcKeeps
<1>7. Good(ShowPrompt(v)) /\ ShowPrompt(v).stack = t
  BY <1>6, ShowPromptKeeps
<1>8. MoveTo(w, i, m) = ShowPrompt(v)
  BY DEF MoveTo, t, p, x, v
<1>9. i \in DOMAIN t
  BY <1>1, <1>2
<1>. QED
  BY <1>2, <1>7, <1>8, <1>9 DEF Above
-----------------------------------------------------------------------------
(***************************************************************************)
(* The inductive invariant.  ChainIsPath alone is not inductive: a         *)
(* password moves to the enabled processor of the one that waits for it,   *)
(* so that one asked for it and has it as a child (Good); and the end of a *)
(* file puts back a chain that was set aside, so that chain is a path too  *)
(* (FileInv).                                                              *)
(***************************************************************************)
FileInv ==
    IF file = NoFile THEN session.stack[1] \in Tops
    ELSE /\ file.at \in 1..Len(file.stack)
         /\ IsPath(file.stack)
         /\ file.stack[1] \in Tops
         /\ file.root \in {0, file.at}
         /\ file.root < Len(session.stack)
         /\ file.root <= call.at
         /\ file.root = file.at => session.stack[1] \in Tops

IInv ==
    /\ Good(session)
    /\ call \in [at : Nat, cmd : Commands, taken : BOOLEAN]
    /\ file \in [stack : Seq(Modes), at : Nat, root : Nat, read : 0..MaxFile]
    /\ over \in BOOLEAN
    /\ call.at <= Len(session.stack)
    /\ FileInv

LEMMA InitIInv == Init => IInv
<1>. SUFFICES ASSUME Init PROVE IInv
  OBVIOUS
<1>0. PICK top \in Tops :
        session = [stack |-> <<top>>, proc |-> [m \in Modes |-> Fresh(FALSE)],
                   pipe |-> FALSE, handler |-> NoKey, out |-> <<top>>]
  BY DEF Init
<1>1. top \in Modes /\ "blank" \in Commands /\ MaxFile \in Nat
  BY ModeAssumption, CommandAssumption
<1>2. <<top>> \in Seq(Modes) /\ <<top>> \in Seq(Modes \cup {"question", "more", "raised"}) /\ <<top>> # <<>>
  BY <1>1
<1>3. Fresh(FALSE) \in Processor /\ Fresh(FALSE).cont = "none" /\ Fresh(FALSE).hide = FALSE
  BY DEF Fresh, Processor
<1>4. session \in Session /\ Asks(session) /\ session.stack = <<top>>
  BY <1>0, <1>2, <1>3 DEF Session, Asks, MayBe
<1>5. Len(<<top>>) = 1 /\ <<top>>[1] = top
  OBVIOUS
<1>6. IsPath(<<top>>)
  BY <1>5 DEF IsPath
<1>7. <<>> \in Seq(Modes)
  OBVIOUS
<1>8. file = NoFile /\ file \in [stack : Seq(Modes), at : Nat, root : Nat, read : 0..MaxFile]
  BY <1>1, <1>7 DEF Init, NoFile
<1>9. call.at = 0 /\ call \in [at : Nat, cmd : Commands, taken : BOOLEAN] /\ over \in BOOLEAN
  BY <1>1 DEF Init, NoCall
<1>. QED
  BY <1>2, <1>4, <1>5, <1>6, <1>8, <1>9 DEF IInv, Good, FileInv

\* The processor whose turn it is, and the session after its sub_processor's turn.
LEMMA HereIsGood ==
    ASSUME IInv, InCall
    PROVE  /\ call.at \in DOMAIN session.stack
           /\ call.at \in Nat \ {0}
           /\ Me \in Modes
           /\ Good(Here)
           /\ Above(session, Here, call.at)
           /\ Here.stack[call.at] = Me
<1>1. session.stack \in Seq(Modes)
  BY SessionShape DEF IInv, Good
<1>2. call.at \in 1..Len(session.stack)
  BY <1>1 DEF IInv, InCall
<1>3. call.at \in DOMAIN session.stack
  BY <1>1, <1>2
<1>4. Me \in Modes
  BY <1>1, <1>2 DEF Me
<1>5. Good(Here) /\ Above(session, Here, call.at)
  BY <1>3, ReturnedKeeps DEF IInv, Here
<1>. QED
  BY <1>2, <1>3, <1>4, <1>5 DEF Above, Me

\* A call comes back and leaves the chain above its place as it was.
LEMMA BackKeeps ==
    ASSUME IInv, InCall, NEW w, Good(w), Above(session, w, call.at),
           session' = w, call'.at = call.at - 1,
           call' \in [at : Int, cmd : Commands, taken : BOOLEAN],
           UNCHANGED <<file, over>>
    PROVE  IInv'
<1>1. call.at \in Nat \ {0}
  BY HereIsGood
<1>2. w.stack \in Seq(Modes)
  BY SessionShape DEF Good
<1>3. call.at \in 1..Len(w.stack) /\ w.stack[1] = session.stack[1]
  BY <1>1, <1>2 DEF Above
<1>4. Good(session)'
  BY DEF Good, Asks
<1>5. call' \in [at : Nat, cmd : Commands, taken : BOOLEAN]
  BY <1>1
<1>6. FileInv'
  <2>1. CASE file = NoFile
    BY <2>1, <1>3 DEF IInv, FileInv
  <2>2. CASE file # NoFile
    BY <2>2, <1>1, <1>3 DEF IInv, FileInv, InCall
  <2>. QED
    BY <2>1, <2>2
<1>. QED
  BY <1>1, <1>3, <1>4, <1>5, <1>6 DEF IInv

LEMMA ComesKeeps ==
    ASSUME IInv, InCall, NEW w, Good(w), Above(session, w, call.at), Comes(w)
    PROVE  IInv'
<1>1. call' = [call EXCEPT !.at = @ - 1, !.taken = TRUE] /\ session' = w /\ UNCHANGED <<file, over>>
  BY DEF Comes
<1>2. call'.at = call.at - 1 /\ call' \in [at : Int, cmd : Commands, taken : BOOLEAN]
  <2>1. call \in [at : Nat, cmd : Commands, taken : BOOLEAN]
    BY DEF IInv
  <2>2. call' = [at |-> call.at - 1, cmd |-> call.cmd, taken |-> TRUE]
    BY <1>1, <2>1
  <2>. QED
    BY <2>1, <2>2
<1>. QED
  BY <1>1, <1>2, BackKeeps

LEMMA SettledComes ==
    ASSUME IInv, InCall, NEW w, Good(w), Above(session, w, call.at),
           Comes(Settled(w, call.at))
    PROVE  IInv'
<1>1. Good(Settled(w, call.at)) /\ Settled(w, call.at).stack = w.stack
  BY SettledKeeps DEF Above
<1>2. Above(session, Settled(w, call.at), call.at)
  BY <1>1 DEF Above
<1>. QED
  BY <1>1, <1>2, ComesKeeps

\* A file is closed: the chain of the session is put back.
LEMMA CloseFileKeeps ==
    ASSUME IInv, file # NoFile, NEW w, Good(w), file.root < Len(w.stack),
           file.root = file.at => w.stack[1] \in Tops, CloseFile(w)
    PROVE  IInv'
<1>. DEFINE back == IF file.root = file.at THEN w.stack ELSE file.stack
            v == [w EXCEPT !.stack = back]
<1>1. w.stack \in Seq(Modes) /\ file.stack \in Seq(Modes) /\ w \in Session
  BY SessionShape DEF Good, IInv
<1>2. /\ back \in Seq(Modes) /\ back # <<>>
      /\ file.at \in 1..Len(back) /\ back[1] \in Tops /\ IsPath(back)
  BY <1>1 DEF IInv, FileInv, Good
<1>3. file.at \in DOMAIN back
  BY <1>2
<1>. HIDE DEF back
<1>4. v \in Session /\ v.stack = back /\ v.proc = w.proc
  BY <1>1, <1>2 DEF Session
<1>5. Good(v)
  BY <1>2, <1>4 DEF Good, Asks
<1>. DEFINE u == Settled(v, file.at)
<1>6. Good(u) /\ u.stack = back
  BY <1>3, <1>4, <1>5, SettledKeeps
<1>7. session' = u /\ call' = [call EXCEPT !.at = file.at - 1, !.taken = TRUE]
      /\ file' = NoFile /\ over' = over
  BY DEF CloseFile, back
<1>. HIDE DEF u
<1>8. Good(session)'
  BY <1>6, <1>7 DEF Good, Asks
<1>9. call' \in [at : Nat, cmd : Commands, taken : BOOLEAN] /\ call'.at <= Len(back)
  <2>1. call \in [at : Nat, cmd : Commands, taken : BOOLEAN]
    BY DEF IInv
  <2>2. call' = [at |-> file.at - 1, cmd |-> call.cmd, taken |-> TRUE]
    BY <1>7, <2>1
  <2>3. file.at \in Nat \ {0} /\ Len(back) \in Nat /\ file.at <= Len(back)
    BY <1>2
  <2>. QED
    BY <2>1, <2>2, <2>3
<1>10. NoFile \in [stack : Seq(Modes), at : Nat, root : Nat, read : 0..MaxFile]
  <2>1. <<>> \in Seq(Modes)
    OBVIOUS
  <2>. QED
    BY <2>1, CommandAssumption DEF NoFile
<1>11. FileInv'
  BY <1>2, <1>6, <1>7 DEF FileInv
<1>. QED
  BY <1>6, <1>7, <1>8, <1>9, <1>10, <1>11 DEF IInv

\* Every command of a processor, and the answer to its question.
LEMMA CommandsKeep ==
    ASSUME IInv,
           \/ Pass \/ FallThrough \/ Say \/ Enter \/ Exit \/ AskPassword \/ AskFile
           \/ Pause \/ Drop \/ CheckPassword \/ FileUnreadable
    PROVE  IInv'
<1>. DEFINE i == call.at
<1>1. InCall
  BY DEF Pass, FallThrough, Say, Enter, Exit, AskPassword, AskFile, Pause, Drop,
         CheckPassword, FileUnreadable
<1>2. /\ i \in DOMAIN session.stack
      /\ i \in Nat \ {0}
      /\ Me \in Modes
      /\ Good(Here)
      /\ Above(session, Here, i)
      /\ Here.stack[i] = Me
      /\ i \in DOMAIN Here.stack
  BY <1>1, HereIsGood DEF Above
<1>3. call.cmd \in Commands /\ call \in [at : Nat, cmd : Commands, taken : BOOLEAN]
  BY DEF IInv
<1>4. ASSUME NEW v, Good(v), v.stack = Here.stack
      PROVE  Above(session, v, i)
  BY <1>2, <1>4 DEF Above
<1>5. ASSUME Effect # "unknown"
      PROVE  Effect = Does[Me][call.cmd]
  BY <1>5 DEF Effect
<1>6. CASE Pass
  BY <1>1, <1>2, <1>6, ComesKeeps DEF Pass
<1>7. CASE FallThrough
  <2>1. call' = [at |-> i - 1, cmd |-> call.cmd, taken |-> call.taken]
    BY <1>3, <1>7 DEF FallThrough
  <2>2. call'.at = i - 1 /\ call' \in [at : Int, cmd : Commands, taken : BOOLEAN]
    BY <1>2, <1>3, <2>1
  <2>3. session' = Here /\ UNCHANGED <<file, over>>
    BY <1>7 DEF FallThrough
  <2>. QED
    BY <1>1, <1>2, <2>2, <2>3, BackKeeps
<1>8. CASE Say
  BY <1>1, <1>2, <1>8, SettledComes DEF Say
<1>9. CASE Enter
  <2>1. Effect \in Modes /\ Effect # "unknown"
    BY <1>9, ModeAssumption DEF Enter, Kinds
  <2>2. Effect \notin Tops /\ Parent[Effect] = Me
    BY <1>2, <1>3, <1>5, <2>1, CommandAssumption
  <2>3. Good(MoveTo(Here, i, Effect)) /\ Above(Here, MoveTo(Here, i, Effect), i)
    BY <1>2, <2>1, <2>2, MoveToKeeps
  <2>4. Above(session, MoveTo(Here, i, Effect), i)
    BY <1>2, <2>3 DEF Above
  <2>. QED
    BY <1>1, <1>9, <2>3, <2>4, SettledComes DEF Enter
<1>10. CASE Exit
  BY <1>1, <1>2, <1>4, <1>10, DoneKeeps, SettledComes DEF Exit
<1>11. CASE AskPassword
  <2>1. AsksPassword(Me)
    BY <1>2, <1>3, <1>5, <1>11 DEF AskPassword, AsksPassword
  <2>2. Good(Ask(Here, Me, "password")) /\ Ask(Here, Me, "password").stack = Here.stack
    BY <1>2, <2>1, AskKeeps
  <2>. QED
    BY <1>1, <1>4, <1>11, <2>2, SettledComes DEF AskPassword
<1>12. CASE AskFile
  <2>1. Good(Ask(Here, Me, "file")) /\ Ask(Here, Me, "file").stack = Here.stack
    BY <1>2, AskKeeps
  <2>. QED
    BY <1>1, <1>4, <1>12, <2>1, SettledComes DEF AskFile
<1>13. CASE Pause
  <2>1. PICK left \in 0..MaxPages : Comes(Settled(OnKeystroke(Here, Me, left), i))
    BY <1>13 DEF Pause
  <2>2. /\ Good(OnKeystroke(Here, Me, left))
        /\ OnKeystroke(Here, Me, left).stack = Here.stack
    BY <1>2, OnKeystrokeKeeps
  <2>. QED
    BY <1>1, <1>4, <2>1, <2>2, SettledComes
<1>14. CASE Drop
  <2>. DEFINE cut == [Here EXCEPT !.stack = SubSeq(@, 1, i)]
  <2>1. Good(cut) /\ Above(Here, cut, i)
    BY <1>2, CutKeeps
  <2>. HIDE DEF cut
  <2>2. Above(session, cut, i)
    BY <1>2, <2>1 DEF Above
  <2>3. Comes(Settled(cut, i))
    BY <1>14 DEF Drop, cut
  <2>. QED
    BY <1>1, <2>1, <2>2, <2>3, SettledComes
<1>15. CASE CheckPassword
  <2>. DEFINE w == Answered(Here, Me)
  <2>1. Good(w) /\ w.stack = Here.stack
    BY <1>2, AnsweredKeeps
  <2>2. EnabledOf[Me] \in Modes /\ EnabledOf[Me] \notin Tops /\ Parent[EnabledOf[Me]] = Me
    BY <1>2, <1>15, EnabledIsChild DEF CheckPassword, Answering, Good, Asks, MayBe
  <2>. HIDE DEF w
  <2>3. Good(MoveTo(w, i, EnabledOf[Me])) /\ Above(w, MoveTo(w, i, EnabledOf[Me]), i)
    BY <1>2, <2>1, <2>2, MoveToKeeps
  <2>4. Above(session, w, i) /\ Above(session, MoveTo(w, i, EnabledOf[Me]), i)
    BY <1>2, <2>1, <2>3 DEF Above
  <2>5. Comes(Settled(IF call.cmd \in Accepted THEN MoveTo(w, i, EnabledOf[Me]) ELSE w, i))
    BY <1>15 DEF CheckPassword, w
  <2>6. CASE call.cmd \in Accepted
    BY <1>1, <2>3, <2>4, <2>5, <2>6, SettledComes
  <2>7. CASE call.cmd \notin Accepted
    BY <1>1, <2>1, <2>4, <2>5, <2>7, SettledComes
  <2>. QED
    BY <2>6, <2>7
<1>16. CASE FileUnreadable
  BY <1>1, <1>2, <1>4, <1>16, AnsweredKeeps, SettledComes DEF FileUnreadable
<1>. QED
  BY <1>6, <1>7, <1>8, <1>9, <1>10, <1>11, <1>12, <1>13, <1>14, <1>15, <1>16

\* A file is opened: the config processor is initialised with a silent terminal, and either
\* becomes the chain of its own that the file is given to, or stays in the chain.
LEMMA OpenFileKeeps == IInv /\ OpenFile => IInv'
<1>. SUFFICES ASSUME IInv, OpenFile PROVE IInv'
  OBVIOUS
<1>. DEFINE i == call.at
            a == Answered(Here, Me)
            config == ConfigOf[Me]
            inside == i < Len(Here.stack) /\ Here.stack[i + 1] = config
            kept == IF inside THEN SubSeq(Here.stack, 1, i + 1) ELSE Here.stack
            chain == IF inside THEN kept ELSE <<config>>
            x == [a EXCEPT !.proc[config] = Fresh(TRUE)]
            y == [x EXCEPT !.stack = chain]
<1>1. InCall /\ file = NoFile
  BY DEF OpenFile
<1>2. /\ i \in Nat \ {0} /\ Me \in Modes /\ Good(Here)
      /\ Above(session, Here, i)
  BY <1>1, HereIsGood
<1>0. config \in Modes
  BY <1>2, ModeAssumption
<1>3. Here.stack \in Seq(Modes) /\ Here.stack # <<>> /\ IsPath(Here.stack)
  BY <1>2, SessionShape DEF Good
<1>4. i \in 1..Len(Here.stack) /\ Here.stack[1] \in Tops
  BY <1>1, <1>2, <1>3 DEF Above, IInv, FileInv
<1>5. /\ kept \in Seq(Modes) /\ IsPath(kept) /\ i \in 1..Len(kept) /\ kept[1] \in Tops
      /\ inside => Len(kept) = i + 1
  <2>1. CASE inside
    <3>1. i + 1 \in DOMAIN Here.stack
      BY <1>3, <1>4, <2>1
    <3>. DEFINE u == SubSeq(Here.stack, 1, i + 1)
    <3>2. /\ u \in Seq(Modes) /\ Len(u) = i + 1 /\ IsPath(u)
          /\ \A j \in 1..(i + 1) : u[j] = Here.stack[j]
      BY <1>3, <3>1, CutIsPath
    <3>3. kept = u
      BY <2>1
    <3>4. 1 \in 1..(i + 1) /\ i \in 1..(i + 1)
      BY <1>2
    <3>. HIDE DEF kept, inside, u
    <3>. QED
      BY <1>4, <3>2, <3>3, <3>4
  <2>2. CASE ~inside
    BY <1>3, <1>4, <2>2
  <2>. QED
    BY <2>1, <2>2
<1>6. /\ chain \in Seq(Modes) /\ chain # <<>> /\ IsPath(chain)
      /\ ~inside => Len(chain) = 1
  <2>1. CASE inside
    BY <1>2, <1>5, <2>1
  <2>2. CASE ~inside
    <3>1. <<config>> \in Seq(Modes) /\ Len(<<config>>) = 1 /\ <<config>> # <<>>
      BY <1>0
    <3>2. IsPath(<<config>>)
      BY <3>1 DEF IsPath
    <3>. QED
      BY <2>2, <3>1, <3>2
  <2>. QED
    BY <2>1, <2>2
<1>7. Good(a) /\ a.stack = Here.stack
  BY <1>2, AnsweredKeeps
<1>8. session' = [a EXCEPT !.proc[config] = Fresh(TRUE), !.stack = chain]
      /\ file' = [stack |-> kept, at |-> i, root |-> Len(chain) - 1, read |-> 0]
      /\ call' = [call EXCEPT !.at = Len(chain) - 1]
      /\ UNCHANGED over
  BY DEF OpenFile
<1>. DEFINE root == Len(chain) - 1
<1>9. /\ root \in Nat /\ root \in {0, i} /\ root < Len(chain)
      /\ root = (IF inside THEN i ELSE 0)
  BY <1>2, <1>5, <1>6
<1>10. inside => chain[1] \in Tops
  BY <1>5
<1>. HIDE DEF a, kept, chain, inside, config
<1>11. Fresh(TRUE) \in Processor /\ MayBe(config, Fresh(TRUE))
  BY DEF Fresh, Processor, MayBe
<1>12. Good(x) /\ x.stack = a.stack
  BY <1>0, <1>7, <1>11, ProcKeeps
<1>13. session' = y
  BY <1>7, <1>8 DEF Good, Session
<1>. HIDE DEF x
<1>14. Good(y) /\ y.stack = chain
  BY <1>6, <1>12 DEF Good, Session, Asks
<1>. HIDE DEF y
<1>15. Good(session)' /\ session'.stack = chain
  BY <1>13, <1>14 DEF Good, Asks
<1>16. call' \in [at : Nat, cmd : Commands, taken : BOOLEAN] /\ call'.at = root
  <2>1. call \in [at : Nat, cmd : Commands, taken : BOOLEAN]
    BY DEF IInv
  <2>2. call' = [at |-> root, cmd |-> call.cmd, taken |-> call.taken]
    BY <1>8, <2>1
  <2>. QED
    BY <1>9, <2>1, <2>2
<1>. HIDE DEF root
<1>17. file' = [stack |-> kept, at |-> i, root |-> root, read |-> 0]
  BY <1>8 DEF root
<1>18. file' \in [stack : Seq(Modes), at : Nat, root : Nat, read : 0..MaxFile]
  BY <1>2, <1>5, <1>9, <1>17, CommandAssumption
<1>19. FileInv'
  <2>1. file'.at = i /\ file'.stack = kept /\ file'.root = root
    BY <1>17
  <2>2. file' # NoFile
    BY <1>2, <2>1 DEF NoFile
  <2>3. root \in {0, i} /\ root < Len(session'.stack) /\ root <= call'.at
    BY <1>9, <1>15, <1>16
  <2>4. root = i => session'.stack[1] \in Tops
    BY <1>2, <1>9, <1>10, <1>15
  <2>. QED
    BY <1>5, <2>1, <2>2, <2>3, <2>4 DEF FileInv
<1>. QED
  BY <1>8, <1>9, <1>15, <1>16, <1>18, <1>19 DEF IInv

\* The lines of a file, and its end.
LEMMA FileKeeps ==
    ASSUME IInv, \/ \E c \in FileCommands : FileLine(c)
                 \/ FileEnd \/ FileAborted
    PROVE  IInv'
<1>1. Len(session.stack) \in Nat \ {0} /\ Good(session)
  BY DeepestIsMode DEF IInv
<1>2. ASSUME NEW c \in FileCommands, FileLine(c)
      PROVE  IInv'
  <2>1. c \in Commands
    BY CommandAssumption
  <2>2. /\ call' = [at |-> Len(session.stack), cmd |-> c, taken |-> FALSE]
        /\ file' = [file EXCEPT !.read = @ + 1]
        /\ UNCHANGED <<session, over>>
        /\ file.read < MaxFile /\ file # NoFile
    BY <1>2 DEF FileLine, Parsing
  <2>3. file \in [stack : Seq(Modes), at : Nat, root : Nat, read : 0..MaxFile]
    BY DEF IInv
  <2>4. file' = [stack |-> file.stack, at |-> file.at, root |-> file.root, read |-> file.read + 1]
    BY <2>2, <2>3
  <2>5. file' \in [stack : Seq(Modes), at : Nat, root : Nat, read : 0..MaxFile]
    BY <2>2, <2>3, <2>4, CommandAssumption
  <2>6. call' \in [at : Nat, cmd : Commands, taken : BOOLEAN]
    BY <1>1, <2>1, <2>2
  <2>7. Good(session)'
    BY <1>1, <2>2 DEF Good, Asks
  <2>8. FileInv'
    BY <1>1, <2>2, <2>3, <2>4 DEF IInv, FileInv, NoFile
  <2>. QED
    BY <1>1, <2>2, <2>5, <2>6, <2>7, <2>8 DEF IInv
<1>3. CASE FileEnd
  <2>1. file # NoFile /\ CloseFile(session)
    BY <1>3 DEF FileEnd, Parsing
  <2>. QED
    BY <1>1, <2>1, CloseFileKeeps DEF IInv, FileInv
<1>4. CASE FileAborted
  <2>1. file # NoFile /\ InCall /\ CloseFile(Here)
    BY <1>4 DEF FileAborted
  <2>2. Good(Here) /\ Above(session, Here, call.at) /\ call.at \in Nat \ {0}
    BY <2>1, HereIsGood
  <2>3. Here.stack \in Seq(Modes)
    BY <2>2, SessionShape DEF Good
  <2>4. file.root \in Nat /\ file.root < call.at /\ call.at <= Len(Here.stack)
    BY <2>1, <2>2, <2>3 DEF InCall, Above, IInv
  <2>5. file.root < Len(Here.stack)
    BY <2>2, <2>3, <2>4
  <2>6. file.root = file.at => Here.stack[1] \in Tops
    BY <2>1, <2>2 DEF Above, IInv, FileInv
  <2>. QED
    BY <2>1, <2>2, <2>5, <2>6, CloseFileKeeps
<1>. QED
  BY <1>2, <1>3, <1>4

\* What reaches the engine between two lines leaves the chain alone.
LEMMA QuietKeeps ==
    ASSUME IInv, file = NoFile, NEW w, Good(w), w.stack = session.stack, session' = w,
           call' \in [at : Nat, cmd : Commands, taken : BOOLEAN],
           call'.at <= Len(session.stack), file' = file, over' \in BOOLEAN
    PROVE  IInv'
<1>1. Good(session)'
  BY DEF Good, Asks
<1>2. FileInv'
  BY DEF IInv, FileInv
<1>. QED
  BY <1>1, <1>2 DEF IInv

LEMMA ReceivedKeeps ==
    ASSUME IInv, Idle, NEW line, line.cmd \in Commands, Received(line)
    PROVE  IInv'
<1>1. Len(session.stack) \in Nat \ {0} /\ Good(session)
  BY DeepestIsMode DEF IInv
<1>. DEFINE w == [session EXCEPT !.out = <<>>, !.pipe = @ \/ line.pipe = "drop"]
<1>2. w \in Session /\ w.stack = session.stack /\ w.proc = session.proc
  <2>1. <<>> \in Seq(Modes \cup {"question", "more", "raised"})
    OBVIOUS
  <2>2. (session.pipe \/ line.pipe = "drop") \in BOOLEAN
    BY Zenon
  <2>. QED
    BY <1>1, <2>1, <2>2 DEF Good, Session
<1>3. Good(w)
  BY <1>1, <1>2 DEF Good, Asks
<1>4. /\ session' = w
      /\ call' = [at |-> Len(session.stack), cmd |-> line.cmd, taken |-> FALSE]
      /\ file' = file /\ file = NoFile /\ over' = over
  BY DEF Received, Idle
<1>. HIDE DEF w
<1>5. call' \in [at : Nat, cmd : Commands, taken : BOOLEAN] /\ call'.at <= Len(session.stack)
  BY <1>1, <1>4
<1>6. over' \in BOOLEAN
  BY <1>4 DEF IInv
<1>. QED
  BY <1>2, <1>3, <1>4, <1>5, <1>6, QuietKeeps

LEMMA TransportKeeps ==
    ASSUME IInv, \/ LineAborted
                 \/ \E line \in Lines : Receive(line) \/ ReceiveBadPipe(line)
                 \/ Answer \/ KeyPressed
    PROVE  IInv'
<1>1. Len(session.stack) \in Nat \ {0} /\ Good(session) /\ call.at \in Nat
  BY DeepestIsMode DEF IInv
<1>2. /\ NoCall \in [at : Nat, cmd : Commands, taken : BOOLEAN]
      /\ NoCall.at = 0
  BY CommandAssumption DEF NoCall
<1>. DEFINE cleared == [session EXCEPT !.out = <<>>]
<1>3. Good(cleared) /\ cleared.stack = session.stack
  <2>1. <<>> \in Seq(Shown)
    OBVIOUS
  <2>. QED
    BY <1>1, <2>1 DEF Good, Session, Asks, Shown
<1>4. CASE LineAborted
  <2>. DEFINE said == Append(Here.out, "raised")
              noted == [Here EXCEPT !.out = said]
  <2>1. /\ InCall /\ file = NoFile /\ call' = NoCall /\ over' \in BOOLEAN /\ file' = file
        /\ session' = Here \/ session' = noted
    BY <1>4 DEF LineAborted, IInv
  <2>2. Good(Here) /\ Above(session, Here, call.at) /\ call.at \in Nat \ {0}
    BY <2>1, HereIsGood
  <2>3. Here.stack[1] = session.stack[1]
    BY <2>2 DEF Above
  <2>4. Good(noted) /\ noted.stack = Here.stack
    <3>1. Here \in Session /\ Here.out \in Seq(Shown)
      BY <2>2, SessionShape DEF Good
    <3>2. said \in Seq(Shown)
      BY <3>1 DEF Shown
    <3>. HIDE DEF said
    <3>. QED
      BY <2>2, <3>1, <3>2 DEF Good, Session, Asks, Shown
  <2>. HIDE DEF noted
  <2>5. Good(session)' /\ Len(Here.stack) \in Nat /\ session'.stack = Here.stack
    BY <2>1, <2>2, <2>4, DeepestIsMode DEF Good, Asks
  <2>6. FileInv'
    BY <2>1, <2>3, <2>5 DEF IInv, FileInv
  <2>. QED
    BY <1>2, <2>1, <2>5, <2>6 DEF IInv
<1>5. ASSUME NEW line \in Lines, Receive(line)
      PROVE  IInv'
  <2>1. line.cmd \in Commands
    BY CommandAssumption
  <2>. QED
    BY <1>5, <2>1, ReceivedKeeps DEF Receive
<1>6. ASSUME NEW line \in Lines, ReceiveBadPipe(line)
      PROVE  IInv'
  <2>1. /\ session' = ShowPrompt(cleared) /\ call' = NoCall
        /\ file' = file /\ file = NoFile /\ over' = over
    BY <1>6 DEF ReceiveBadPipe, Idle
  <2>2. Good(ShowPrompt(cleared)) /\ ShowPrompt(cleared).stack = session.stack
    BY <1>3, ShowPromptKeeps
  <2>3. over' \in BOOLEAN /\ call'.at <= Len(session.stack)
    BY <1>1, <1>2, <2>1 DEF IInv
  <2>. QED
    BY <1>2, <2>1, <2>2, <2>3, QuietKeeps
<1>7. CASE Answer
  <2>. DEFINE w == IF call.taken THEN session ELSE ShowPrompt(session)
  <2>1. Good(w) /\ w.stack = session.stack
    BY <1>1, ShowPromptKeeps
  <2>2. session' = w /\ call' = NoCall /\ file' = file /\ file = NoFile
    BY <1>7 DEF Answer
  <2>3. over' \in BOOLEAN
    <3>1. over' = (over \/ session.proc[session.stack[1]].done)
      BY <1>7 DEF Answer
    <3>. QED
      BY <3>1, Zenon
  <2>. HIDE DEF w
  <2>. QED
    BY <1>1, <1>2, <2>1, <2>2, <2>3, QuietKeeps
<1>8. CASE KeyPressed
  <2>. DEFINE m == session.handler.by
              left == session.handler.left
              k == KeyTaken(session)
  <2>1. /\ Good(k) /\ k.stack = session.stack /\ m \in Modes /\ left \in 0..MaxPages
    BY <1>1, <1>8, KeyTakenKeeps DEF KeyPressed
  <2>2. call' = call /\ file' = file /\ file = NoFile /\ over' = over
    BY <1>8 DEF KeyPressed, Idle
  <2>. HIDE DEF k
  <2>3. \/ left > 0 /\ session' = OnKeystroke(k, m, left - 1)
        \/ session' = ShowPrompt(k)
        \/ session' = Write(k, m, m)
    BY <1>8 DEF KeyPressed, TurnPage, k
  <2>. HIDE DEF m, left
  <2>4. ASSUME left > 0
        PROVE  /\ Good(OnKeystroke(k, m, left - 1))
               /\ OnKeystroke(k, m, left - 1).stack = session.stack
    <3>1. left - 1 \in 0..MaxPages
      BY <2>1, <2>4, CommandAssumption
    <3>. QED
      BY <2>1, <3>1, OnKeystrokeKeeps
  <2>5. /\ Good(ShowPrompt(k)) /\ ShowPrompt(k).stack = session.stack
        /\ Good(Write(k, m, m)) /\ Write(k, m, m).stack = session.stack
    BY <2>1, ShowPromptKeeps, WriteKeeps DEF Shown
  <2>6. /\ over' \in BOOLEAN /\ call' \in [at : Nat, cmd : Commands, taken : BOOLEAN]
        /\ call'.at <= Len(session.stack)
    BY <2>2 DEF IInv
  <2>. QED
    BY <2>2, <2>3, <2>4, <2>5, <2>6, QuietKeeps
<1>. QED
  BY <1>4, <1>5, <1>6, <1>7, <1>8

LEMMA NextIInv == IInv /\ [Next]_vars => IInv'
<1>. SUFFICES ASSUME IInv, [Next]_vars PROVE IInv'
  OBVIOUS
<1>1. CASE Pass \/ FallThrough \/ Say \/ Enter \/ Exit \/ AskPassword \/ AskFile
              \/ Pause \/ Drop \/ CheckPassword \/ FileUnreadable
  BY <1>1, CommandsKeep
<1>2. CASE OpenFile
  BY <1>2, OpenFileKeeps
<1>3. CASE FileEnd \/ FileAborted \/ \E c \in FileCommands : FileLine(c)
  BY <1>3, FileKeeps
<1>4. CASE \/ LineAborted \/ Answer \/ KeyPressed
           \/ \E line \in Lines : Receive(line) \/ ReceiveBadPipe(line)
  BY <1>4, TransportKeeps
<1>5. CASE Closed \/ UNCHANGED vars
  BY <1>5 DEF Closed, vars, IInv, FileInv, Good, Asks
<1>. QED
  BY <1>1, <1>2, <1>3, <1>4, <1>5 DEF Next, Process
-----------------------------------------------------------------------------
LEMMA IInvTyped == IInv => TypeOK
BY DEF IInv, Good, TypeOK

LEMMA IInvChain == IInv => ChainIsPath
BY DEF IInv, Good, FileInv, ChainIsPath, Idle

\* Whatever the vendor's tables and the client's lines are, the state of the
\* engine (processors, open calls, file being parsed) has its type, and a session
\* always has a processor.
THEOREM TypedSession == Spec => []TypeOK
BY InitIInv, NextIInv, IInvTyped, PTL DEF Spec

\* For every mode tree whose processors move to their children and ask for a
\* password to move to a child, the chain of sub_processors that
\* process_command walks is a path of the tree, from the processor of the
\* ShellSession, in every reachable state.
THEOREM ChainAlwaysPath == Spec => []ChainIsPath
BY InitIInv, NextIInv, IInvChain, PTL DEF Spec

-----------------------------------------------------------------------------
(***************************************************************************)
(* No mode is twice in a chain.                                            *)
(***************************************************************************)
LEMMA LeastExists ==
    ASSUME NEW T \in SUBSET Nat, T # {}
    PROVE  \E k \in T : \A j \in T : k <= j
<1>1. PICK k \in T : \A j \in T : ~(<<j, k>> \in OpToRel(<, Nat))
  BY NatLessThanWellFounded, WFMin, Zenon
<1>2. \A j \in T : ~(j < k)
  BY <1>1 DEF OpToRel
<1>. QED
  BY <1>2

\* A chain that starts at a top processor passes through no mode twice: the
\* first place whose mode comes again cannot be the first of the chain, and if
\* it is a later one then the place before it is such a place too.
LEMMA PathDistinct ==
    ASSUME NEW s \in Seq(Modes), s # <<>>, IsPath(s), s[1] \in Tops
    PROVE  \A i, j \in DOMAIN s : s[i] = s[j] => i = j
<1>. DEFINE Again == {i \in DOMAIN s : \E j \in DOMAIN s : i < j /\ s[i] = s[j]}
<1>0. DOMAIN s = 1..Len(s) /\ Len(s) \in Nat \ {0}
  OBVIOUS
<1>1. Again = {}
  <2>. SUFFICES ASSUME Again # {} PROVE FALSE
    OBVIOUS
  <2>1. Again \in SUBSET Nat
    BY <1>0
  <2>2. PICK i \in Again : \A k \in Again : i <= k
    BY <2>1, LeastExists
  <2>3. PICK j \in DOMAIN s : i < j /\ s[i] = s[j]
    OBVIOUS
  <2>4. i \in 1..Len(s) /\ j \in 1..Len(s) /\ j - 1 \in 1..(Len(s) - 1)
    BY <1>0, <2>3
  <2>5. s[(j - 1) + 1] \notin Tops /\ Parent[s[(j - 1) + 1]] = s[j - 1]
    BY <2>4 DEF IsPath
  <2>6. s[j] \notin Tops /\ Parent[s[j]] = s[j - 1]
    BY <2>4, <2>5
  <2>7. CASE i = 1
    BY <2>3, <2>6, <2>7
  <2>8. CASE i # 1
    <3>1. i - 1 \in 1..(Len(s) - 1)
      BY <2>4, <2>8
    <3>2. s[(i - 1) + 1] \notin Tops /\ Parent[s[(i - 1) + 1]] = s[i - 1]
      BY <3>1 DEF IsPath
    <3>3. Parent[s[i]] = s[i - 1]
      BY <2>4, <3>2
    <3>4. s[i - 1] = s[j - 1] /\ i - 1 < j - 1 /\ i - 1 \in DOMAIN s /\ j - 1 \in DOMAIN s
      BY <1>0, <2>3, <2>4, <2>6, <3>1, <3>3
    <3>5. i - 1 \in Again
      BY <3>4
    <3>6. i <= i - 1
      BY <2>2, <3>5
    <3>. QED
      BY <2>4, <3>6
  <2>. QED
    BY <2>7, <2>8
<1>. QED
  <2>. SUFFICES ASSUME NEW i \in DOMAIN s, NEW j \in DOMAIN s, s[i] = s[j] PROVE i = j
    OBVIOUS
  <2>1. ~(i < j) /\ ~(j < i)
    BY <1>1
  <2>. QED
    BY <1>0, <2>1

\* Nor in the chain of a session.
LEMMA ChainDistinct ==
    ASSUME IInv, file = NoFile
    PROVE  \A i, j \in DOMAIN session.stack : session.stack[i] = session.stack[j] => i = j
<1>1. /\ session.stack \in Seq(Modes) /\ session.stack # <<>>
      /\ IsPath(session.stack) /\ session.stack[1] \in Tops
  BY SessionShape DEF IInv, Good, FileInv
<1>. QED
  BY <1>1, PathDistinct

-----------------------------------------------------------------------------
(***************************************************************************)
(* What the methods of a processor do to each part of a session.           *)
(***************************************************************************)

\* What the terminal shows after m wrote something.
Written(w, m, what) == IF w.proc[m].silent \/ w.pipe THEN w.out ELSE Append(w.out, what)

\* w and v differ at most in what the terminal shows.
SameBut(w, v) ==
    v.stack = w.stack /\ v.proc = w.proc /\ v.pipe = w.pipe /\ v.handler = w.handler

LEMMA WriteIs ==
    ASSUME NEW w \in Session, NEW m, NEW what
    PROVE  SameBut(w, Write(w, m, what)) /\ Write(w, m, what).out = Written(w, m, what)
BY DEF Session, Write, Written, SameBut

LEMMA ShowPromptIs ==
    ASSUME NEW w \in Session
    PROVE  SameBut(w, ShowPrompt(w)) /\ ShowPrompt(w).out = Written(w, Deepest(w), Deepest(w))
BY WriteIs DEF ShowPrompt

\* A processor that has the turn at the end of process_command prompts.
Prompts(w, i) ==
    LET p == w.proc[w.stack[i]]
    IN i = Len(w.stack) /\ p.cont = "none" /\ ~p.awaiting /\ ~p.done

\* v is w with the prompt of the processor at place i, if it has the turn.
SettledTo(w, v, i) ==
    LET silent == w.proc[w.stack[i]].silent
    IN /\ v.stack = w.stack /\ v.proc = w.proc /\ v.handler = w.handler
       /\ ~Prompts(w, i) => v = w
       /\ Prompts(w, i) /\ silent => v.pipe = w.pipe /\ v.out = w.out
       /\ Prompts(w, i) /\ ~silent => v.pipe = FALSE /\ v.out = Append(w.out, w.stack[i])

LEMMA SettledIs ==
    ASSUME NEW w \in Session, NEW i
    PROVE  SettledTo(w, Settled(w, i), i)
<1>. DEFINE f == FinishPiping(w, w.stack[i])
            silent == w.proc[w.stack[i]].silent
<1>1. /\ f \in Session /\ f.stack = w.stack /\ f.proc = w.proc /\ f.handler = w.handler
      /\ f.out = w.out /\ f.pipe = IF silent THEN w.pipe ELSE FALSE
  BY DEF Session, FinishPiping
<1>. HIDE DEF f
<1>2. SameBut(f, ShowPrompt(f)) /\ ShowPrompt(f).out = Written(f, Deepest(f), Deepest(f))
  BY <1>1, ShowPromptIs
<1>3. Prompts(w, i) => Deepest(f) = w.stack[i]
  BY <1>1 DEF Prompts, Deepest
<1>4. Settled(w, i) = IF Prompts(w, i) THEN ShowPrompt(f) ELSE w
  BY DEF Settled, Prompts, f
<1>5. w.pipe \in BOOLEAN
  BY DEF Session
<1>6. CASE Prompts(w, i)
  BY <1>1, <1>2, <1>3, <1>4, <1>5, <1>6 DEF SameBut, Written, SettledTo
<1>7. CASE ~Prompts(w, i)
  BY <1>4, <1>7 DEF SettledTo
<1>. QED
  BY <1>6, <1>7

\* v is w with m under place i, in place of what was there.
MovedTo(w, v, i, m) ==
    /\ v.stack \in Seq(Modes) /\ Len(v.stack) = i + 1 /\ v.stack[i + 1] = m
    /\ \A j \in 1..i : v.stack[j] = w.stack[j]
    /\ v.proc = [w.proc EXCEPT ![m] = Fresh(w.proc[w.stack[i]].silent)]
    /\ v.pipe = w.pipe /\ v.handler = w.handler
    /\ v.out = Written(w, w.stack[i], m)

LEMMA MoveToIs ==
    ASSUME NEW w, Good(w), NEW i \in DOMAIN w.stack, NEW m \in Modes
    PROVE  MovedTo(w, MoveTo(w, i, m), i, m)
<1>. DEFINE t == Append(SubSeq(w.stack, 1, i), m)
            p == Fresh(w.proc[w.stack[i]].silent)
            x == [w EXCEPT !.stack = t, !.proc[m] = p]
<1>1. w \in Session /\ w.stack \in Seq(Modes) /\ i \in 1..Len(w.stack)
  BY SessionShape DEF Good
<1>2. /\ t \in Seq(Modes) /\ Len(t) = i + 1 /\ t[i + 1] = m
      /\ \A j \in 1..i : t[j] = w.stack[j]
  BY <1>1
<1>3. p \in Processor /\ p.silent = w.proc[w.stack[i]].silent
  <2>1. w.proc[w.stack[i]].silent \in BOOLEAN
    BY <1>1 DEF Session, Processor
  <2>. QED
    BY <2>1 DEF Fresh, Processor
<1>4. MoveTo(w, i, m) = ShowPrompt(x)
  BY DEF MoveTo
<1>. HIDE DEF t
<1>5. /\ x \in Session /\ x.stack = t /\ x.proc = [w.proc EXCEPT ![m] = p]
      /\ x.pipe = w.pipe /\ x.handler = w.handler /\ x.out = w.out
  <2>. HIDE DEF p
  <2>. QED
    BY <1>1, <1>2, <1>3 DEF Session
<1>. HIDE DEF x
<1>6. SameBut(x, ShowPrompt(x)) /\ ShowPrompt(x).out = Written(x, Deepest(x), Deepest(x))
  BY <1>5, ShowPromptIs
<1>7. Deepest(x) = m
  BY <1>2, <1>5 DEF Deepest
<1>8. x.proc[m] = p
  BY <1>1, <1>5 DEF Session
<1>. QED
  BY <1>2, <1>3, <1>4, <1>5, <1>6, <1>7, <1>8 DEF SameBut, Written, MovedTo

\* v is w with a question of m.
Asked(w, v, m, what) ==
    /\ v.stack = w.stack /\ v.pipe = w.pipe /\ v.handler = w.handler
    /\ v.proc = [w.proc EXCEPT ![m].cont = what, ![m].hide = (what = "password")]
    /\ v.out = Written(w, m, "question")

LEMMA AskIs ==
    ASSUME NEW w \in Session, NEW m \in Modes, NEW what
    PROVE  Asked(w, Ask(w, m, what), m, what)
<1>. DEFINE x == Write(w, m, "question")
<1>1. SameBut(w, x) /\ x.out = Written(w, m, "question")
  BY WriteIs
<1>2. x = [w EXCEPT !.out = Written(w, m, "question")]
  BY DEF Session, Write, Written
<1>. QED
  BY <1>1, <1>2 DEF Ask, Session, SameBut, Asked

\* v is w where m awaits a key.
Paused(w, v, m, left) ==
    /\ v.stack = w.stack /\ v.pipe = w.pipe
    /\ v.proc = [w.proc EXCEPT ![m].awaiting = TRUE]
    /\ v.handler = IF w.proc[m].silent THEN w.handler ELSE [by |-> m, left |-> left]
    /\ v.out = Written(w, m, "more")

LEMMA OnKeystrokeIs ==
    ASSUME NEW w \in Session, NEW m \in Modes, NEW left
    PROVE  Paused(w, OnKeystroke(w, m, left), m, left)
<1>2. Write(w, m, "more") = [w EXCEPT !.out = Written(w, m, "more")]
  BY DEF Session, Write, Written
<1>. QED
  BY <1>2 DEF OnKeystroke, Session, Paused

\* v is w where the question of m is answered.
AnsweredTo(w, v, m) ==
    /\ v.stack = w.stack /\ v.pipe = w.pipe /\ v.handler = w.handler /\ v.out = w.out
    /\ v.proc = [w.proc EXCEPT ![m].cont = "none", ![m].hide = FALSE]

LEMMA AnsweredIs ==
    ASSUME NEW w \in Session, NEW m \in Modes
    PROVE  AnsweredTo(w, Answered(w, m), m)
BY DEF Session, Answered, AnsweredTo

\* v is w where the awaited key came.
Pressed(w, v) ==
    /\ v.stack = w.stack /\ v.pipe = w.pipe /\ v.handler = NoKey /\ v.out = <<>>
    /\ v.proc = [w.proc EXCEPT ![w.handler.by].awaiting = FALSE]

LEMMA KeyTakenIs ==
    ASSUME NEW w \in Session
    PROVE  Pressed(w, KeyTaken(w))
BY DEF Session, KeyTaken, Pressed

\* A call comes back from a sub_processor that is done, or from one that is not.
Leaves(w, i) == i # Len(w.stack) /\ w.proc[w.stack[i + 1]].done

\* v is w after the turn of the sub_processor of place i.
ReturnedTo(w, v, i) ==
    /\ v.pipe = w.pipe /\ v.handler = w.handler
    /\ ~Leaves(w, i) => v = w
    /\ Leaves(w, i) /\ w.stack[i] \in FollowsChild =>
          /\ v.stack = w.stack /\ v.out = w.out
          /\ v.proc = [w.proc EXCEPT ![w.stack[i]].done = TRUE]
    /\ Leaves(w, i) /\ w.stack[i] \notin FollowsChild =>
          /\ Len(v.stack) = i /\ \A j \in 1..i : v.stack[j] = w.stack[j]
          /\ v.proc = w.proc
          /\ v.out = Written(w, w.stack[i], w.stack[i])

LEMMA ReturnedIs ==
    ASSUME NEW w, Good(w), NEW i \in DOMAIN w.stack
    PROVE  ReturnedTo(w, Returned(w, i), i)
<1>1. w \in Session /\ w.stack \in Seq(Modes) /\ IsPath(w.stack) /\ i \in 1..Len(w.stack)
  BY SessionShape DEF Good
<1>. DEFINE cut == [w EXCEPT !.stack = SubSeq(@, 1, i)]
<1>2. /\ SubSeq(w.stack, 1, i) \in Seq(Modes)
      /\ Len(SubSeq(w.stack, 1, i)) = i
      /\ \A j \in 1..i : SubSeq(w.stack, 1, i)[j] = w.stack[j]
  BY <1>1, CutIsPath
<1>3. /\ cut \in Session /\ cut.stack = SubSeq(w.stack, 1, i) /\ cut.proc = w.proc
      /\ cut.pipe = w.pipe /\ cut.handler = w.handler /\ cut.out = w.out
  BY <1>1, <1>2 DEF Session
<1>. HIDE DEF cut
<1>4. Deepest(cut) = w.stack[i]
  BY <1>1, <1>2, <1>3 DEF Deepest
<1>5. SameBut(cut, ShowPrompt(cut)) /\ ShowPrompt(cut).out = Written(cut, Deepest(cut), Deepest(cut))
  BY <1>3, ShowPromptIs
<1>6. Returned(w, i) = IF ~Leaves(w, i) THEN w
                       ELSE IF w.stack[i] \in FollowsChild
                            THEN [w EXCEPT !.proc[w.stack[i]].done = TRUE]
                            ELSE ShowPrompt(cut)
  BY DEF Returned, Leaves, cut
<1>7. CASE Leaves(w, i) /\ w.stack[i] \in FollowsChild
  BY <1>1, <1>6, <1>7 DEF Session, ReturnedTo
<1>8. CASE Leaves(w, i) /\ w.stack[i] \notin FollowsChild
  BY <1>2, <1>3, <1>4, <1>5, <1>6, <1>8 DEF SameBut, Written, ReturnedTo
<1>9. CASE ~Leaves(w, i)
  BY <1>6, <1>9 DEF ReturnedTo
<1>. QED
  BY <1>7, <1>8, <1>9

-----------------------------------------------------------------------------
(***************************************************************************)
(* A client that gives each command in its mode.                           *)
(***************************************************************************)

\* The lines of a file start no output that waits for a key: the terminal of a
\* file takes no handler, so that nothing could end the wait.
FilesNeverPause == \A m \in Modes, c \in FileCommands : Does[m][c] # "pause"

Question(w, i) == w.proc[w.stack[i]].cont

\* A chain in which only the deepest processor may have a question open.
Live(w) ==
    \A i \in DOMAIN w.stack :
       /\ ~w.proc[w.stack[i]].silent /\ ~w.proc[w.stack[i]].done
       /\ Question(w, i) # "none" => i = Len(w.stack)
       /\ Question(w, i) = "file" =>
             ConfigOf[w.stack[i]] \notin Tops /\ Parent[ConfigOf[w.stack[i]]] = w.stack[i]

NoneAwaits(w) == w.handler = NoKey /\ \A m \in Modes : ~w.proc[m].awaiting

\* What OneAnswer asks for.
ShowsPrompt(w) == w.out = <<Deepest(w)>> /\ Question(w, Len(w.stack)) = "none" /\ NoneAwaits(w)

ShowsQuestion(w) == w.out = <<"question">> /\ Question(w, Len(w.stack)) # "none" /\ NoneAwaits(w)

ShowsPage(w) ==
    /\ w.out = <<"more">> /\ Question(w, Len(w.stack)) = "none"
    /\ w.handler # NoKey /\ w.handler.by = Deepest(w)
    /\ \A m \in Modes : w.proc[m].awaiting <=> m = Deepest(w)

ShowsNothing(w) == w.out = <<"raised">> /\ Question(w, Len(w.stack)) = "none" /\ NoneAwaits(w)

Shows(w) ==
    /\ Live(w) /\ ~w.pipe
    /\ ShowsPrompt(w) \/ ShowsQuestion(w) \/ ShowsPage(w) \/ ShowsNothing(w)

\* The processors behind place at do not know command c, and the one that will
\* take it is the deepest, or moves, or drops what is under it.
Belongs(c, at) ==
    /\ \A j \in (at + 1)..Len(session.stack) : Does[session.stack[j]][c] = "unknown"
    /\ \A j \in 1..(Len(session.stack) - 1) :
          (\A k \in (j + 1)..Len(session.stack) : Does[session.stack[k]][c] = "unknown")
             => Does[session.stack[j]][c] \in Modes \cup {"drop", "unknown"}

\* Nobody took the line so far.
Untaken ==
    /\ Live(session) /\ NoneAwaits(session) /\ session.out = <<>>
    /\ Question(session, Len(session.stack)) # "none" =>
          call.at = Len(session.stack) /\ ~session.pipe
    /\ Question(session, Len(session.stack)) = "none" =>
          /\ Belongs(call.cmd, call.at)
          /\ session.pipe => Does[Deepest(session)][call.cmd] = "print"

\* The line ended the processor under place at, and its parent did not see it yet.
Leaving(w, at) ==
    /\ at < Len(w.stack) /\ w.proc[w.stack[at + 1]].done
    /\ \A i \in 1..at : /\ ~w.proc[w.stack[i]].silent /\ ~w.proc[w.stack[i]].done
                        /\ Question(w, i) = "none"
    /\ NoneAwaits(w) /\ w.out = <<>> /\ ~w.pipe

\* The chain that was put aside is that of a session that only has to prompt,
\* and the chain of the file, all silent, hangs under it.
Inner(w) ==
    /\ w.stack[1] \notin Tops /\ Parent[w.stack[1]] = file.stack[Len(file.stack)]
    /\ \A i \in DOMAIN w.stack : w.proc[w.stack[i]].silent
    /\ \A i \in DOMAIN file.stack :
          LET p == w.proc[file.stack[i]] IN ~p.silent /\ ~p.done /\ p.cont = "none"
    /\ NoneAwaits(w) /\ w.out = <<>> /\ ~w.pipe

InFile ==
    /\ file.root = 0 /\ file.at = Len(file.stack)
    /\ Inner(session)
    /\ call.at > 0 => call.cmd \in FileCommands

\* What is known of a disciplined session, in the four states of a line.
DInv ==
    IF file # NoFile THEN InFile
    ELSE IF call = NoCall THEN ~over => Shows(session)
    ELSE IF ~call.taken THEN Untaken
    ELSE Shows(session) \/ Leaving(session, call.at)

\* A chain that hangs under the last processor of another has no mode of it.
LEMMA ChainsApart ==
    ASSUME NEW t \in Seq(Modes), t # <<>>, IsPath(t), t[1] \in Tops,
           NEW s \in Seq(Modes), s # <<>>, IsPath(s), s[1] \notin Tops, Parent[s[1]] = t[Len(t)]
    PROVE  \A i \in DOMAIN t, j \in DOMAIN s : t[i] # s[j]
<1>. DEFINE u == t \o s
            n == Len(t)
<1>1. n \in Nat \ {0} /\ Len(s) \in Nat \ {0} /\ DOMAIN t = 1..n /\ DOMAIN s = 1..Len(s)
  OBVIOUS
<1>2. /\ u \in Seq(Modes) /\ Len(u) = n + Len(s)
      /\ \A i \in 1..n : u[i] = t[i]
      /\ \A j \in 1..Len(s) : u[n + j] = s[j]
  OBVIOUS
<1>. HIDE DEF u, n
<1>3. ASSUME NEW i \in 1..(Len(u) - 1)
      PROVE  u[i + 1] \notin Tops /\ Parent[u[i + 1]] = u[i]
  <2>1. CASE i < n
    <3>1. i \in 1..(n - 1) /\ i \in 1..n /\ i + 1 \in 1..n
      BY <1>1, <2>1
    <3>2. t[i + 1] \notin Tops /\ Parent[t[i + 1]] = t[i]
      BY <3>1 DEF IsPath, n
    <3>. QED
      BY <1>2, <3>1, <3>2
  <2>2. CASE i = n
    <3>1. u[n + 1] = s[1] /\ u[n] = t[n]
      BY <1>1, <1>2
    <3>. QED
      BY <2>2, <3>1 DEF n
  <2>3. CASE i > n
    <3>1. PICK j \in Nat : i = n + j
      BY <1>1, <2>3
    <3>2. j \in 1..(Len(s) - 1) /\ j \in 1..Len(s) /\ j + 1 \in 1..Len(s)
      BY <1>1, <1>2, <2>3, <3>1
    <3>3. s[j + 1] \notin Tops /\ Parent[s[j + 1]] = s[j]
      BY <3>2 DEF IsPath
    <3>4. u[n + (j + 1)] = s[j + 1] /\ u[n + j] = s[j] /\ n + (j + 1) = i + 1
      BY <1>1, <1>2, <3>1, <3>2
    <3>. QED
      BY <3>1, <3>3, <3>4
  <2>. QED
    BY <1>1, <1>2, <2>1, <2>2, <2>3
<1>4. IsPath(u)
  BY <1>3 DEF IsPath
<1>5. u # <<>> /\ u[1] \in Tops /\ DOMAIN u = 1..(n + Len(s))
  BY <1>1, <1>2
<1>6. ASSUME NEW i \in DOMAIN t, NEW j \in DOMAIN s, t[i] = s[j]
      PROVE  FALSE
  <2>1. i \in 1..n /\ j \in 1..Len(s) /\ i \in DOMAIN u /\ n + j \in DOMAIN u /\ i # n + j
    BY <1>1, <1>5
  <2>2. u[i] = u[n + j]
    BY <1>2, <1>6, <2>1
  <2>. QED
    BY <1>2, <1>4, <1>5, <2>1, <2>2, PathDistinct
<1>. QED
  BY <1>6

-----------------------------------------------------------------------------
(***************************************************************************)
(* A file that is parsed.                                                  *)
(***************************************************************************)

\* The modes of the file's chain are none of those that were put aside.
LEMMA InnerApart ==
    ASSUME IInv, file # NoFile, NEW w, Good(w), Inner(w)
    PROVE  \A i \in DOMAIN file.stack, j \in DOMAIN w.stack : file.stack[i] # w.stack[j]
<1>1. w.stack \in Seq(Modes) /\ w.stack # <<>> /\ IsPath(w.stack)
  BY SessionShape DEF Good
<1>2. /\ file.stack \in Seq(Modes) /\ file.stack # <<>> /\ IsPath(file.stack)
      /\ file.stack[1] \in Tops
  BY DEF IInv, FileInv
<1>. QED
  BY <1>1, <1>2, ChainsApart DEF Inner

\* Silent processors write nothing.
LEMMA InnerSilent ==
    ASSUME NEW w, Good(w), Inner(w), NEW i \in DOMAIN w.stack, NEW what
    PROVE  Written(w, w.stack[i], what) = w.out
BY DEF Written, Inner

\* One processor of the file's chain changes.
LEMMA InnerProc ==
    ASSUME IInv, file # NoFile, NEW w, Good(w), Inner(w), NEW i \in DOMAIN w.stack,
           NEW p, p.silent, ~p.awaiting,
           NEW v, v.stack = w.stack, v.pipe = w.pipe, v.handler = w.handler, v.out = w.out,
           v.proc = [w.proc EXCEPT ![w.stack[i]] = p]
    PROVE  Inner(v)
<1>1. w.proc \in [Modes -> Processor] /\ w.stack \in Seq(Modes)
  BY SessionShape DEF Good
<1>2. w.stack[i] \in Modes
  BY <1>1
<1>3. v.proc[w.stack[i]] = p /\ \A m \in Modes : m # w.stack[i] => v.proc[m] = w.proc[m]
  BY <1>1, <1>2
<1>4. \A j \in DOMAIN v.stack : v.proc[v.stack[j]].silent
  BY <1>1, <1>3 DEF Inner
<1>5. \A j \in DOMAIN file.stack : v.proc[file.stack[j]] = w.proc[file.stack[j]]
  <2>1. \A j \in DOMAIN file.stack : file.stack[j] \in Modes /\ file.stack[j] # w.stack[i]
    BY InnerApart DEF IInv
  <2>. QED
    BY <1>3, <2>1
<1>6. NoneAwaits(v)
  BY <1>3 DEF Inner, NoneAwaits
<1>. QED
  BY <1>4, <1>5, <1>6 DEF Inner

\* Its methods keep it what it is: the end of process_command, ...
LEMMA InnerSettled ==
    ASSUME NEW w, Good(w), Inner(w), NEW i \in DOMAIN w.stack
    PROVE  Inner(Settled(w, i))
<1>. DEFINE v == Settled(w, i)
<1>1. SettledTo(w, v, i)
  BY SettledIs DEF Good
<1>. HIDE DEF v
<1>2. v.stack = w.stack /\ v.proc = w.proc /\ v.handler = w.handler /\ v.pipe = w.pipe /\ v.out = w.out
  BY <1>1 DEF SettledTo, Inner
<1>3. Inner(v)
  BY <1>2 DEF Inner, NoneAwaits
<1>. QED
  BY <1>3 DEF v

\* ... the chain cut at a place, ...
LEMMA InnerCut ==
    ASSUME NEW w, Good(w), Inner(w), NEW i \in DOMAIN w.stack, NEW v, v.stack \in Seq(Modes),
           Len(v.stack) = i, \A j \in 1..i : v.stack[j] = w.stack[j],
           v.proc = w.proc, v.pipe = w.pipe, v.handler = w.handler, v.out = w.out
    PROVE  Inner(v)
<1>1. i \in 1..Len(w.stack) /\ DOMAIN w.stack = 1..Len(w.stack)
  BY SessionShape DEF Good
<1>2. DOMAIN v.stack = 1..i /\ \A j \in 1..i : j \in DOMAIN w.stack
  BY <1>1
<1>3. v.stack[1] = w.stack[1]
  BY <1>1
<1>4. NoneAwaits(v)
  BY DEF Inner, NoneAwaits
<1>. QED
  BY <1>2, <1>3, <1>4 DEF Inner

\* ... the turn of a sub_processor, ...
LEMMA InnerReturned ==
    ASSUME IInv, file # NoFile, NEW w, Good(w), Inner(w), NEW i \in DOMAIN w.stack
    PROVE  Inner(Returned(w, i))
<1>. DEFINE v == Returned(w, i)
            m == w.stack[i]
<1>1. ReturnedTo(w, v, i) /\ Good(v)
  BY ReturnedIs, ReturnedKeeps
<1>2. w.proc \in [Modes -> Processor] /\ m \in Modes /\ v.stack \in Seq(Modes) /\ w.proc[m].silent
      /\ ~w.proc[m].awaiting
  BY <1>1, SessionShape DEF Good, Inner, NoneAwaits
<1>. SUFFICES Inner(v)
  OBVIOUS
<1>. HIDE DEF v
<1>3. CASE ~Leaves(w, i)
  BY <1>1, <1>3 DEF ReturnedTo
<1>4. CASE Leaves(w, i) /\ m \in FollowsChild
  <2>. DEFINE p == [w.proc[m] EXCEPT !.done = TRUE]
  <2>1. /\ v.stack = w.stack /\ v.out = w.out /\ v.pipe = w.pipe /\ v.handler = w.handler
        /\ v.proc = [w.proc EXCEPT ![m] = p]
    BY <1>1, <1>4 DEF ReturnedTo
  <2>2. p.silent /\ ~p.awaiting
    BY <1>2 DEF Processor
  <2>. HIDE DEF p
  <2>. QED
    BY <2>1, <2>2, InnerProc
<1>5. CASE Leaves(w, i) /\ m \notin FollowsChild
  <2>1. /\ Len(v.stack) = i /\ \A j \in 1..i : v.stack[j] = w.stack[j]
        /\ v.proc = w.proc /\ v.pipe = w.pipe /\ v.handler = w.handler
        /\ v.out = Written(w, m, m)
    BY <1>1, <1>5 DEF ReturnedTo
  <2>2. v.out = w.out
    BY <2>1, InnerSilent
  <2>. QED
    BY <1>2, <2>1, <2>2, InnerCut
<1>. QED
  BY <1>3, <1>4, <1>5

\* ... and move_to().
LEMMA InnerMoveTo ==
    ASSUME IInv, file # NoFile, NEW w, Good(w), Inner(w), NEW i \in DOMAIN w.stack,
           NEW m \in Modes, m \notin Tops, Parent[m] = w.stack[i]
    PROVE  Inner(MoveTo(w, i, m))
<1>. DEFINE v == MoveTo(w, i, m)
<1>1. MovedTo(w, v, i, m) /\ Good(v)
  BY MoveToIs, MoveToKeeps
<1>2. /\ w.proc \in [Modes -> Processor] /\ v.stack \in Seq(Modes) /\ v.stack # <<>> /\ IsPath(v.stack)
      /\ i \in 1..Len(w.stack) /\ DOMAIN w.stack = 1..Len(w.stack)
  BY <1>1, SessionShape DEF Good
<1>. HIDE DEF v
<1>3. /\ Len(v.stack) = i + 1 /\ v.stack[i + 1] = m
      /\ \A j \in 1..i : v.stack[j] = w.stack[j]
  BY <1>1 DEF MovedTo
<1>4. /\ v.proc = [w.proc EXCEPT ![m] = Fresh(w.proc[w.stack[i]].silent)]
      /\ v.pipe = w.pipe /\ v.handler = w.handler
  BY <1>1 DEF MovedTo
<1>5. v.out = w.out
  <2>1. v.out = Written(w, w.stack[i], m)
    BY <1>1 DEF MovedTo
  <2>. QED
    BY <2>1, InnerSilent
<1>6. v.stack[1] = w.stack[1] /\ DOMAIN v.stack = 1..(i + 1)
  BY <1>2, <1>3
<1>7. v.stack[1] \notin Tops /\ Parent[v.stack[1]] = file.stack[Len(file.stack)]
  BY <1>6 DEF Inner
<1>8. /\ v.proc[m].silent = w.proc[w.stack[i]].silent /\ ~v.proc[m].awaiting
      /\ \A n \in Modes : n # m => v.proc[n] = w.proc[n]
  BY <1>2, <1>4 DEF Fresh
<1>9. ASSUME NEW j \in DOMAIN v.stack
      PROVE  v.proc[v.stack[j]].silent
  <2>1. v.stack[j] \in Modes
    BY <1>2
  <2>2. CASE v.stack[j] = m
    BY <1>2, <1>8, <2>2 DEF Inner
  <2>3. CASE v.stack[j] # m
    <3>1. j \in 1..i /\ j \in DOMAIN w.stack
      BY <1>2, <1>3, <1>6, <2>3
    <3>2. v.proc[v.stack[j]] = w.proc[w.stack[j]]
      BY <1>3, <1>8, <2>1, <2>3, <3>1
    <3>. QED
      BY <3>1, <3>2 DEF Inner
  <2>. QED
    BY <2>2, <2>3
<1>10. /\ file.stack \in Seq(Modes) /\ file.stack # <<>> /\ IsPath(file.stack)
       /\ file.stack[1] \in Tops
  BY DEF IInv, FileInv
<1>11. \A j \in DOMAIN file.stack : file.stack[j] \in Modes /\ file.stack[j] # m
  <2>1. \A j \in DOMAIN file.stack, k \in DOMAIN v.stack : file.stack[j] # v.stack[k]
    BY <1>2, <1>7, <1>10, ChainsApart
  <2>2. i + 1 \in DOMAIN v.stack
    BY <1>2, <1>6
  <2>. QED
    BY <1>3, <1>10, <2>1, <2>2
<1>12. NoneAwaits(v)
  BY <1>4, <1>8 DEF Inner, NoneAwaits
<1>13. \A j \in DOMAIN file.stack :
          LET p == v.proc[file.stack[j]] IN ~p.silent /\ ~p.done /\ p.cont = "none"
  BY <1>8, <1>11 DEF Inner
<1>14. ~v.pipe /\ v.out = <<>>
  BY <1>4, <1>5 DEF Inner
<1>15. Inner(v)
  BY <1>7, <1>9, <1>12, <1>13, <1>14 DEF Inner
<1>. QED
  BY <1>15 DEF v

\* The last processor of a chain that has nothing else to show prompts.
LEMMA SettledShows ==
    ASSUME NEW x, Good(x), Live(x), NoneAwaits(x), x.out = <<>>,
           Question(x, Len(x.stack)) = "none", NEW i, i = Len(x.stack)
    PROVE  Shows(Settled(x, i))
<1>. DEFINE v == Settled(x, i)
<1>1. x \in Session /\ x.stack \in Seq(Modes) /\ x.stack # <<>>
  BY SessionShape DEF Good
<1>2. i \in DOMAIN x.stack /\ x.stack[i] \in Modes
  BY <1>1
<1>3. Prompts(x, i) /\ ~x.proc[x.stack[i]].silent
  BY <1>2 DEF Prompts, Live, Question, NoneAwaits
<1>4. SettledTo(x, v, i)
  BY <1>1, SettledIs
<1>. SUFFICES Shows(v)
  OBVIOUS
<1>. HIDE DEF v
<1>5. /\ v.stack = x.stack /\ v.proc = x.proc /\ v.handler = x.handler
      /\ v.pipe = FALSE /\ v.out = Append(x.out, x.stack[i])
  BY <1>3, <1>4 DEF SettledTo
<1>6. v.out = <<Deepest(v)>>
  <2>1. Append(x.out, x.stack[i]) = <<x.stack[i]>>
    OBVIOUS
  <2>. QED
    BY <1>5, <2>1 DEF Deepest
<1>7. Live(v)
  BY <1>5 DEF Live, Question
<1>8. NoneAwaits(v)
  BY <1>5 DEF NoneAwaits
<1>9. Question(v, Len(v.stack)) = "none"
  BY <1>5 DEF Question
<1>. QED
  BY <1>5, <1>6, <1>7, <1>8, <1>9 DEF Shows, ShowsPrompt

\* A taken line leaves the session as it should be between lines.
LEMMA ComesShows ==
    ASSUME IInv, file = NoFile, NEW v, Shows(v), Comes(v)
    PROVE  DInv'
<1>1. session' = v /\ file' = NoFile /\ call'.taken = TRUE
  <2>1. call \in [at : Nat, cmd : Commands, taken : BOOLEAN]
    BY DEF IInv
  <2>. QED
    BY <2>1 DEF Comes
<1>2. call' # NoCall
  BY <1>1 DEF NoCall
<1>. QED
  BY <1>1, <1>2 DEF DInv, Shows, Live, Question, NoneAwaits, ShowsPrompt, ShowsQuestion,
     ShowsPage, ShowsNothing, Deepest

\* The session's chain again, when the file is over.
LEMMA CloseShows ==
    ASSUME IInv, file # NoFile, InFile, NEW w, Good(w), Inner(w), CloseFile(w)
    PROVE  DInv'
<1>. DEFINE x == [w EXCEPT !.stack = file.stack]
            v == Settled(x, file.at)
<1>1. /\ file.stack \in Seq(Modes) /\ file.at \in 1..Len(file.stack) /\ IsPath(file.stack)
      /\ file.root = 0 /\ file.at = Len(file.stack) /\ file.root # file.at
  BY DEF IInv, FileInv, InFile
<1>2. w \in Session /\ Asks(w)
  BY DEF Good
<1>3. /\ x \in Session /\ x.stack = file.stack /\ x.proc = w.proc /\ x.pipe = w.pipe
      /\ x.handler = w.handler /\ x.out = w.out
  BY <1>1, <1>2 DEF Session
<1>4. session' = v /\ file' = NoFile /\ call'.taken = TRUE
  <2>1. call \in [at : Nat, cmd : Commands, taken : BOOLEAN]
    BY DEF IInv
  <2>. QED
    BY <1>1, <2>1 DEF CloseFile
<1>. HIDE DEF x
<1>5. Good(x)
  BY <1>1, <1>2, <1>3 DEF Good, Asks
<1>6. \A i \in DOMAIN x.stack :
         LET p == x.proc[x.stack[i]] IN ~p.silent /\ ~p.done /\ p.cont = "none"
  BY <1>3 DEF Inner
<1>7. Live(x)
  BY <1>6 DEF Live, Question
<1>8. Len(x.stack) \in DOMAIN x.stack
  BY <1>1, <1>3
<1>9. Question(x, Len(x.stack)) = "none"
  BY <1>6, <1>8 DEF Question
<1>10. NoneAwaits(x) /\ x.out = <<>>
  BY <1>3 DEF Inner, NoneAwaits
<1>11. Shows(v)
  BY <1>1, <1>3, <1>5, <1>7, <1>9, <1>10, SettledShows
<1>. HIDE DEF v
<1>12. call' # NoCall
  BY <1>4 DEF NoCall
<1>. QED
  BY <1>4, <1>11, <1>12 DEF DInv, Shows, Live, Question, NoneAwaits, ShowsPrompt, ShowsQuestion,
     ShowsPage, ShowsNothing, Deepest

\* A call of the file comes back.
LEMMA InnerBack ==
    ASSUME IInv, file # NoFile, InFile, InCall, NEW w, Inner(w), session' = w,
           file' = file, call'.at = call.at - 1, call'.cmd = call.cmd
    PROVE  DInv'
<1>1. call.at > 0 /\ call.cmd \in FileCommands
  BY DEF InFile, InCall, IInv
<1>. QED
  BY <1>1 DEF DInv, InFile, Inner, NoneAwaits

LEMMA InnerComes ==
    ASSUME IInv, file # NoFile, InFile, InCall, NEW w, Good(w), Inner(w),
           call.at \in DOMAIN w.stack, Comes(Settled(w, call.at))
    PROVE  DInv'
<1>1. Inner(Settled(w, call.at))
  BY InnerSettled
<1>2. /\ session' = Settled(w, call.at) /\ file' = file
      /\ call'.at = call.at - 1 /\ call'.cmd = call.cmd
  <2>1. call \in [at : Nat, cmd : Commands, taken : BOOLEAN]
    BY DEF IInv
  <2>. QED
    BY <2>1 DEF Comes
<1>. QED
  BY <1>1, <1>2, InnerBack

\* Whatever the lines of a file say, they stay in the chain of the file.
LEMMA InnerProcess ==
    ASSUME IInv, FilesNeverPause, file # NoFile, InFile, Process
    PROVE  DInv'
<1>. DEFINE i == call.at
<1>0. Inner(session) /\ Good(session)
  BY DEF InFile, IInv
<1>1. ASSUME InCall
      PROVE  /\ i \in DOMAIN Here.stack /\ Me \in Modes /\ Here.stack[i] = Me
             /\ Good(Here) /\ Here \in Session /\ Inner(Here)
             /\ Here.proc \in [Modes -> Processor]
             /\ Here.proc[Me].silent /\ ~Here.proc[Me].awaiting
  <2>1. /\ i \in DOMAIN session.stack /\ Me \in Modes /\ Here.stack[i] = Me
        /\ Good(Here) /\ i \in DOMAIN Here.stack
    BY <1>1, HereIsGood DEF Above
  <2>2. Inner(Here)
    BY <1>0, <2>1, InnerReturned DEF Here
  <2>3. Here \in Session /\ Here.proc \in [Modes -> Processor]
    BY <2>1, SessionShape DEF Good
  <2>. HIDE DEF i
  <2>4. Here.proc[Me].silent /\ ~Here.proc[Me].awaiting
    BY <2>1, <2>2 DEF Inner, NoneAwaits
  <2>. QED
    BY <2>1, <2>2, <2>3, <2>4
<1>2. call \in [at : Nat, cmd : Commands, taken : BOOLEAN] /\ call.cmd \in Commands
  BY DEF IInv
<1>3. Effect # "unknown" => Effect = Does[Me][call.cmd]
  BY DEF Effect
<1>4. CASE Pass
  <2>1. /\ session' = Here /\ file' = file /\ call'.at = call.at - 1 /\ call'.cmd = call.cmd /\ InCall
    BY <1>2, <1>4 DEF Pass, Comes
  <2>. QED
    BY <1>1, <2>1, InnerBack
<1>5. CASE FallThrough
  <2>1. /\ session' = Here /\ file' = file /\ call'.at = call.at - 1 /\ call'.cmd = call.cmd /\ InCall
    BY <1>2, <1>5 DEF FallThrough
  <2>. QED
    BY <1>1, <2>1, InnerBack
<1>6. CASE Say
  BY <1>1, <1>6, InnerComes DEF Say
<1>7. CASE Enter
  <2>1. InCall /\ Effect \in Modes /\ Comes(Settled(MoveTo(Here, i, Effect), i))
    BY <1>7 DEF Enter
  <2>2. Effect \notin Tops /\ Parent[Effect] = Me
    BY <1>1, <1>2, <1>3, <2>1, ModeAssumption, CommandAssumption DEF Kinds
  <2>3. /\ Inner(MoveTo(Here, i, Effect)) /\ Good(MoveTo(Here, i, Effect))
        /\ i \in DOMAIN MoveTo(Here, i, Effect).stack
    BY <1>1, <2>1, <2>2, InnerMoveTo, MoveToKeeps DEF Above
  <2>. QED
    BY <2>1, <2>3, InnerComes
<1>8. CASE Exit
  <2>. DEFINE p == [Here.proc[Me] EXCEPT !.done = TRUE]
              x == [Here EXCEPT !.proc[Me].done = TRUE]
  <2>1. InCall /\ Comes(Settled(x, i))
    BY <1>8 DEF Exit
  <2>2. Good(x) /\ x.stack = Here.stack
    BY <1>1, <2>1, DoneKeeps
  <2>3. /\ x.pipe = Here.pipe /\ x.handler = Here.handler /\ x.out = Here.out
        /\ x.proc = [Here.proc EXCEPT ![Me] = p]
    BY <1>1, <2>1 DEF Session
  <2>4. p.silent /\ ~p.awaiting
    BY <1>1, <2>1 DEF Processor
  <2>. HIDE DEF p, x
  <2>5. Inner(x)
    BY <1>1, <2>1, <2>2, <2>3, <2>4, InnerProc
  <2>. QED
    BY <1>1, <2>1, <2>2, <2>5, InnerComes
<1>9. ASSUME InCall, NEW what \in {"password", "file"},
             what = "password" => AsksPassword(Me),
             Comes(Settled(Ask(Here, Me, what), i))
      PROVE  DInv'
  <2>. DEFINE p == [Here.proc[Me] EXCEPT !.cont = what, !.hide = (what = "password")]
              x == Ask(Here, Me, what)
  <2>1. Good(x) /\ x.stack = Here.stack /\ Asked(Here, x, Me, what)
    BY <1>1, <1>9, AskKeeps, AskIs
  <2>2. Comes(Settled(x, i))
    BY <1>9
  <2>3. p.silent /\ ~p.awaiting
    BY <1>1, <1>9 DEF Processor
  <2>. HIDE DEF x
  <2>4. /\ x.pipe = Here.pipe /\ x.handler = Here.handler
        /\ x.out = Written(Here, Me, "question")
    BY <2>1 DEF Asked
  <2>5. x.out = Here.out
    BY <1>1, <1>9, <2>4, InnerSilent
  <2>6. x.proc = [Here.proc EXCEPT ![Me] = p]
    BY <1>1, <1>9, <2>1 DEF Asked, Processor
  <2>. HIDE DEF p
  <2>7. Inner(x)
    BY <1>1, <1>9, <2>1, <2>3, <2>4, <2>5, <2>6, InnerProc
  <2>. QED
    BY <1>1, <1>9, <2>1, <2>2, <2>7, InnerComes
<1>10. CASE AskPassword
  <2>1. AsksPassword(Me)
    BY <1>1, <1>2, <1>3, <1>10 DEF AskPassword, AsksPassword
  <2>. QED
    BY <1>9, <1>10, <2>1 DEF AskPassword
<1>11. CASE AskFile
  BY <1>9, <1>11 DEF AskFile
<1>12. CASE Pause
  <2>1. InCall /\ Does[Me][call.cmd] = "pause"
    BY <1>3, <1>12 DEF Pause
  <2>2. call.cmd \in FileCommands
    BY <2>1, <1>2 DEF InFile, InCall
  <2>. QED
    BY <1>1, <2>1, <2>2 DEF FilesNeverPause
<1>13. CASE Drop
  <2>. DEFINE x == [Here EXCEPT !.stack = SubSeq(@, 1, i)]
  <2>1. InCall /\ Comes(Settled(x, i))
    BY <1>13 DEF Drop
  <2>2. Good(x) /\ i \in DOMAIN x.stack
    BY <1>1, <2>1, CutKeeps DEF Above
  <2>3. /\ Len(SubSeq(Here.stack, 1, i)) = i
        /\ \A j \in 1..i : SubSeq(Here.stack, 1, i)[j] = Here.stack[j]
    BY <1>1, <2>1, SessionShape, CutIsPath DEF Good
  <2>4. /\ x.stack = SubSeq(Here.stack, 1, i) /\ x.proc = Here.proc /\ x.pipe = Here.pipe
        /\ x.handler = Here.handler /\ x.out = Here.out
    BY <1>1, <2>1 DEF Session
  <2>. HIDE DEF x
  <2>5. x.stack \in Seq(Modes)
    BY <2>2, SessionShape DEF Good
  <2>6. Inner(x)
    BY <1>1, <2>1, <2>3, <2>4, <2>5, InnerCut
  <2>. QED
    BY <2>1, <2>2, <2>6, InnerComes
<1>14. CASE CheckPassword
  <2>. DEFINE p == [Here.proc[Me] EXCEPT !.cont = "none", !.hide = FALSE]
              x == Answered(Here, Me)
              to == EnabledOf[Me]
  <2>1. /\ InCall /\ Answering = "password"
        /\ Comes(Settled(IF call.cmd \in Accepted THEN MoveTo(x, i, to) ELSE x, i))
    BY <1>14 DEF CheckPassword
  <2>2. Good(x) /\ x.stack = Here.stack /\ AnsweredTo(Here, x, Me)
    BY <1>1, <2>1, AnsweredKeeps, AnsweredIs
  <2>3. p.silent /\ ~p.awaiting
    BY <1>1, <2>1 DEF Processor
  <2>. HIDE DEF x
  <2>4. /\ x.pipe = Here.pipe /\ x.handler = Here.handler /\ x.out = Here.out
        /\ x.proc = [Here.proc EXCEPT ![Me] = p]
    BY <1>1, <2>1, <2>2 DEF AnsweredTo, Processor
  <2>. HIDE DEF p
  <2>5. Inner(x)
    BY <1>1, <2>1, <2>2, <2>3, <2>4, InnerProc
  <2>6. to \in Modes /\ to \notin Tops /\ Parent[to] = x.stack[i]
    BY <1>1, <2>1, <2>2, EnabledIsChild DEF Answering, Good, Asks, MayBe
  <2>. HIDE DEF to
  <2>7. Inner(MoveTo(x, i, to)) /\ Good(MoveTo(x, i, to)) /\ i \in DOMAIN MoveTo(x, i, to).stack
    BY <1>1, <2>1, <2>2, <2>5, <2>6, InnerMoveTo, MoveToKeeps DEF Above
  <2>8. CASE call.cmd \in Accepted
    BY <2>1, <2>7, <2>8, InnerComes
  <2>9. CASE call.cmd \notin Accepted
    BY <1>1, <2>1, <2>2, <2>5, <2>9, InnerComes
  <2>. QED
    BY <2>8, <2>9
<1>15. CASE FileUnreadable \/ OpenFile \/ LineAborted
  BY <1>15 DEF FileUnreadable, OpenFile, LineAborted
<1>16. CASE FileEnd
  BY <1>0, <1>16, CloseShows DEF FileEnd
<1>17. CASE FileAborted
  BY <1>1, <1>17, CloseShows DEF FileAborted
<1>18. ASSUME NEW c \in FileCommands, FileLine(c)
       PROVE  DInv'
  <2>1. /\ call' = [at |-> Len(session.stack), cmd |-> c, taken |-> FALSE]
        /\ file' = [file EXCEPT !.read = @ + 1]
        /\ session' = session
    BY <1>18 DEF FileLine
  <2>2. file \in [stack : Seq(Modes), at : Nat, root : Nat, read : 0..MaxFile]
    BY DEF IInv
  <2>3. /\ file'.stack = file.stack /\ file'.at = file.at /\ file'.root = file.root
        /\ call'.cmd = c
    BY <2>1, <2>2
  <2>4. file' # NoFile
    <3>1. file'.at # 0
      BY <2>3 DEF IInv, FileInv
    <3>. QED
      BY <3>1 DEF NoFile
  <2>. QED
    BY <1>0, <1>18, <2>1, <2>3, <2>4 DEF DInv, InFile, Inner, NoneAwaits
<1>. QED
  BY <1>4, <1>5, <1>6, <1>7, <1>8, <1>10, <1>11, <1>12, <1>13, <1>14, <1>15, <1>16, <1>17, <1>18 DEF Process

-----------------------------------------------------------------------------
(***************************************************************************)
(* A line of the session.                                                  *)
(***************************************************************************)

\* No sub_processor of a live chain is done, so that nothing happens on the way back.
LEMMA HereLive ==
    ASSUME IInv, InCall, Live(session)
    PROVE  /\ Here = session
           /\ call.at \in DOMAIN session.stack /\ call.at \in Nat \ {0}
           /\ Me \in Modes /\ session.stack[call.at] = Me
           /\ call.cmd \in Commands
<1>1. /\ call.at \in DOMAIN session.stack /\ call.at \in Nat \ {0} /\ Me \in Modes
      /\ session.stack \in Seq(Modes)
  BY HereIsGood, SessionShape DEF IInv, Good
<1>2. ~Leaves(session, call.at)
  BY <1>1 DEF Leaves, Live
<1>3. Here = session
  BY <1>1, <1>2, ReturnedIs DEF Here, IInv, ReturnedTo
<1>. QED
  BY <1>1, <1>3 DEF Me, IInv

\* Whoever knows the line has no question open; if it neither moves nor drops what
\* is under it, it is the deepest of the chain.  An answer is for the deepest.
LEMMA TakerIs ==
    ASSUME IInv, file = NoFile, Untaken, InCall, ~call.taken
    PROVE  /\ Effect # "unknown" =>
                /\ Question(session, Len(session.stack)) = "none"
                /\ session.pipe => call.at = Len(session.stack) /\ Effect = "print"
                /\ Effect \notin Modes \cup {"drop"} => call.at = Len(session.stack)
           /\ Answering # "none" =>
                /\ call.at = Len(session.stack) /\ Answering = Question(session, Len(session.stack))
                /\ ~session.pipe
           /\ Effect = "unknown" /\ Answering = "none" =>
                /\ Question(session, Len(session.stack)) = "none"
                /\ Does[Me][call.cmd] = "unknown"
<1>. DEFINE i == call.at
            n == Len(session.stack)
<1>1. /\ Here = session /\ i \in DOMAIN session.stack /\ i \in Nat \ {0}
      /\ Me \in Modes /\ session.stack[i] = Me /\ call.cmd \in Commands
  BY HereLive DEF Untaken
<1>2. /\ session.stack \in Seq(Modes) /\ n \in Nat /\ DOMAIN session.stack = 1..n
      /\ Deepest(session) = session.stack[n]
  BY SessionShape DEF IInv, Good, Deepest
<1>. HIDE DEF i, n
<1>3. Answering = Question(session, i)
  BY <1>1 DEF Answering, Question
<1>4. Answering # "none" => i = n
  BY <1>1, <1>3 DEF Untaken, Live, n
<1>5. Question(session, n) # "none" => i = n
  BY DEF Untaken, i, n
<1>6. ASSUME Effect # "unknown"
      PROVE  Effect = Does[Me][call.cmd] /\ Question(session, n) = "none"
  BY <1>3, <1>5, <1>6 DEF Effect
<1>7. ASSUME Effect # "unknown", i # n
      PROVE  Effect \in Modes \cup {"drop"}
  <2>1. Belongs(call.cmd, i)
    BY <1>6, <1>7 DEF Untaken, i, n
  <2>2. i \in 1..(n - 1)
    BY <1>1, <1>2, <1>7
  <2>3. Does[Me][call.cmd] \in Modes \cup {"drop", "unknown"}
    BY <1>1, <2>1, <2>2 DEF Belongs, n
  <2>. QED
    BY <1>6, <1>7, <2>3
<1>8. ASSUME Effect # "unknown", session.pipe
      PROVE  i = n /\ Effect = "print"
  <2>1. Does[Deepest(session)][call.cmd] = "print" /\ Belongs(call.cmd, i)
    BY <1>6, <1>8 DEF Untaken, i, n
  <2>2. i = n
    <3>. SUFFICES ASSUME i # n PROVE FALSE
      OBVIOUS
    <3>1. n \in (i + 1)..n
      BY <1>1, <1>2
    <3>. QED
      BY <1>2, <2>1, <3>1 DEF Belongs, n
  <2>. QED
    BY <1>1, <1>2, <1>6, <1>8, <2>1, <2>2
<1>9. Answering # "none" => ~session.pipe
  BY <1>3, <1>4 DEF Untaken, n
<1>10. ASSUME Effect = "unknown", Answering = "none"
       PROVE  Question(session, n) = "none" /\ Does[Me][call.cmd] = "unknown"
  BY <1>3, <1>5, <1>10 DEF Effect
<1>. QED
  BY <1>3, <1>4, <1>6, <1>7, <1>8, <1>9, <1>10 DEF i, n

\* move_to() leaves a session that shows the prompt of the processor it moved to.
LEMMA MoveToShows ==
    ASSUME IInv, file = NoFile, NEW w, Good(w), NEW i \in DOMAIN w.stack,
           \A j \in 1..i : /\ ~w.proc[w.stack[j]].silent /\ ~w.proc[w.stack[j]].done
                           /\ Question(w, j) = "none",
           w.stack[1] \in Tops, NoneAwaits(w), w.out = <<>>, ~w.pipe,
           NEW to \in Modes, to \notin Tops, Parent[to] = w.stack[i],
           Comes(Settled(MoveTo(w, i, to), i))
    PROVE  DInv'
<1>. DEFINE x == MoveTo(w, i, to)
            v == Settled(x, i)
<1>1. MovedTo(w, x, i, to) /\ Good(x)
  BY MoveToIs, MoveToKeeps
<1>2. w.stack \in Seq(Modes) /\ i \in 1..Len(w.stack) /\ w.proc \in [Modes -> Processor]
  BY SessionShape DEF Good
<1>3. x.stack \in Seq(Modes) /\ x.stack # <<>> /\ IsPath(x.stack) /\ x \in Session
  BY <1>1, SessionShape DEF Good
<1>4. SettledTo(x, v, i)
  BY <1>3, SettledIs
<1>. HIDE DEF x, v
<1>5. /\ Len(x.stack) = i + 1 /\ x.stack[i + 1] = to /\ \A j \in 1..i : x.stack[j] = w.stack[j]
  BY <1>1 DEF MovedTo
<1>6. /\ x.proc = [w.proc EXCEPT ![to] = Fresh(w.proc[w.stack[i]].silent)]
      /\ x.pipe = w.pipe /\ x.handler = w.handler
      /\ x.out = Written(w, w.stack[i], to)
  BY <1>1 DEF MovedTo
<1>7. v = x
  BY <1>2, <1>4, <1>5 DEF SettledTo, Prompts
<1>8. DOMAIN x.stack = 1..(i + 1) /\ x.stack[1] \in Tops /\ i + 1 \in DOMAIN x.stack
  BY <1>2, <1>3, <1>5
<1>9. ~w.proc[w.stack[i]].silent /\ w.stack[i] \in Modes
  BY <1>2
<1>10. x.proc[to] = Fresh(w.proc[w.stack[i]].silent)
  BY <1>2, <1>6
<1>11. /\ ~x.proc[to].silent /\ ~x.proc[to].done /\ ~x.proc[to].awaiting
       /\ x.proc[to].cont = "none"
  BY <1>9, <1>10 DEF Fresh
<1>12. ASSUME NEW j \in 1..i
       PROVE  x.stack[j] \in Modes /\ x.proc[x.stack[j]] = w.proc[w.stack[j]]
  <2>1. j \in DOMAIN x.stack /\ j # i + 1
    BY <1>2, <1>8
  <2>2. x.stack[j] \in Modes /\ x.stack[j] # to
    BY <1>3, <1>5, <1>8, <2>1, PathDistinct
  <2>. QED
    BY <1>2, <1>5, <1>6, <2>2
<1>13. \A j \in DOMAIN x.stack : /\ ~x.proc[x.stack[j]].silent /\ ~x.proc[x.stack[j]].done
                                 /\ Question(x, j) = "none"
  <2>. SUFFICES ASSUME NEW j \in DOMAIN x.stack
                PROVE  /\ ~x.proc[x.stack[j]].silent /\ ~x.proc[x.stack[j]].done
                       /\ Question(x, j) = "none"
    OBVIOUS
  <2>1. CASE j = i + 1
    BY <1>5, <1>11, <2>1 DEF Question
  <2>2. CASE j \in 1..i
    BY <1>12, <2>2 DEF Question
  <2>. QED
    BY <1>2, <1>8, <2>1, <2>2
<1>14. Live(x) /\ Question(x, Len(x.stack)) = "none"
  BY <1>5, <1>8, <1>13 DEF Live
<1>15. NoneAwaits(x)
  BY <1>2, <1>6, <1>11 DEF NoneAwaits
<1>16. x.out = <<Deepest(x)>>
  <2>1. Written(w, w.stack[i], to) = Append(w.out, to)
    BY <1>9 DEF Written
  <2>2. Append(w.out, to) = <<to>>
    OBVIOUS
  <2>. QED
    BY <1>5, <1>6, <2>1, <2>2 DEF Deepest
<1>17. Shows(v)
  BY <1>6, <1>7, <1>14, <1>15, <1>16 DEF Shows, ShowsPrompt
<1>18. Comes(v)
  BY DEF v, x
<1>. QED
  BY <1>17, <1>18, ComesShows

\* A question, or a page that waits for its key, is all that is shown.
LEMMA AskShows ==
    ASSUME IInv, file = NoFile, Live(session), NoneAwaits(session), session.out = <<>>, ~session.pipe,
           NEW i, i = Len(session.stack), i \in DOMAIN session.stack, session.stack[i] \in Modes,
           NEW what \in {"password", "file"},
           LET m == session.stack[i]
           IN /\ what = "password" => AsksPassword(m)
              /\ what = "file" => ConfigOf[m] \notin Tops /\ Parent[ConfigOf[m]] = m,
           Comes(Settled(Ask(session, session.stack[i], what), i))
    PROVE  DInv'
<1>. DEFINE m == session.stack[i]
            x == Ask(session, m, what)
            v == Settled(x, i)
<1>1. /\ Good(session) /\ session \in Session /\ session.proc \in [Modes -> Processor]
      /\ session.stack \in Seq(Modes)
  BY SessionShape DEF IInv, Good
<1>2. Good(x) /\ Asked(session, x, m, what) /\ x \in Session
  BY <1>1, AskKeeps, AskIs DEF Good
<1>3. SettledTo(x, v, i)
  BY <1>2, SettledIs
<1>. HIDE DEF x, v
<1>4. /\ x.stack = session.stack /\ x.pipe = session.pipe /\ x.handler = session.handler
      /\ x.out = Written(session, m, "question")
  BY <1>2 DEF Asked
<1>5. x.proc = [session.proc EXCEPT ![m].cont = what, ![m].hide = (what = "password")]
  BY <1>2 DEF Asked
<1>6. \A n \in Modes : /\ x.proc[n].silent = session.proc[n].silent
                       /\ x.proc[n].done = session.proc[n].done
                       /\ x.proc[n].awaiting = session.proc[n].awaiting
                       /\ x.proc[n].cont = IF n = m THEN what ELSE session.proc[n].cont
  BY <1>1, <1>5 DEF Processor
<1>7. \A j \in DOMAIN session.stack : session.stack[j] \in Modes /\ (session.stack[j] = m => j = i)
  BY <1>1, ChainDistinct
<1>8. Question(x, i) = what
  BY <1>4, <1>6 DEF Question
<1>9. v = x
  BY <1>3, <1>8 DEF SettledTo, Prompts, Question
<1>10. Live(x)
  <2>. SUFFICES ASSUME NEW j \in DOMAIN session.stack
                PROVE  /\ ~x.proc[session.stack[j]].silent /\ ~x.proc[session.stack[j]].done
                       /\ Question(x, j) # "none" => j = i
                       /\ Question(x, j) = "file" => ConfigOf[session.stack[j]] \notin Tops
                             /\ Parent[ConfigOf[session.stack[j]]] = session.stack[j]
    BY <1>4 DEF Live
  <2>. QED
    BY <1>4, <1>6, <1>7 DEF Live, Question
<1>11. NoneAwaits(x)
  BY <1>4, <1>6 DEF NoneAwaits
<1>12. x.out = <<"question">>
  <2>1. Written(session, m, "question") = Append(session.out, "question")
    BY DEF Written, Live
  <2>2. Append(session.out, "question") = <<"question">>
    OBVIOUS
  <2>. QED
    BY <1>4, <2>1, <2>2
<1>13. Shows(v)
  BY <1>4, <1>8, <1>9, <1>10, <1>11, <1>12 DEF Shows, ShowsQuestion
<1>14. Comes(v)
  BY DEF v, x
<1>. QED
  BY <1>13, <1>14, ComesShows

LEMMA PageShows ==
    ASSUME NEW w, Good(w), Live(w), w.out = <<>>, ~w.pipe,
           \A m \in Modes : ~w.proc[m].awaiting,
           NEW i, i = Len(w.stack), i \in DOMAIN w.stack, w.stack[i] \in Modes,
           Question(w, i) = "none", NEW left \in 0..MaxPages
    PROVE  /\ Shows(OnKeystroke(w, w.stack[i], left))
           /\ Settled(OnKeystroke(w, w.stack[i], left), i) = OnKeystroke(w, w.stack[i], left)
<1>. DEFINE m == w.stack[i]
            x == OnKeystroke(w, m, left)
            v == Settled(x, i)
<1>1. w \in Session /\ w.proc \in [Modes -> Processor] /\ w.stack \in Seq(Modes)
  BY SessionShape DEF Good
<1>2. Good(x) /\ Paused(w, x, m, left) /\ x \in Session
  BY <1>1, OnKeystrokeKeeps, OnKeystrokeIs DEF Good
<1>3. SettledTo(x, v, i)
  BY <1>2, SettledIs
<1>. SUFFICES Shows(x) /\ v = x
  OBVIOUS
<1>. HIDE DEF x, v
<1>4. x.stack = w.stack /\ x.pipe = w.pipe /\ x.out = Written(w, m, "more")
  BY <1>2 DEF Paused
<1>5. x.proc = [w.proc EXCEPT ![m].awaiting = TRUE]
  BY <1>2 DEF Paused
<1>6. \A n \in Modes : /\ x.proc[n].silent = w.proc[n].silent
                       /\ x.proc[n].done = w.proc[n].done
                       /\ x.proc[n].cont = w.proc[n].cont
                       /\ x.proc[n].awaiting <=> n = m
  BY <1>1, <1>5 DEF Processor
<1>7. \A j \in DOMAIN w.stack : w.stack[j] \in Modes
  BY <1>1
<1>8. v = x
  BY <1>3, <1>4, <1>6 DEF SettledTo, Prompts
<1>9. Live(x)
  BY <1>4, <1>6, <1>7 DEF Live, Question
<1>10. x.handler = [by |-> m, left |-> left]
  BY <1>2 DEF Paused, Live
<1>11. x.handler # NoKey /\ x.handler.by = m
  <2>1. m # "nobody"
    BY ModeAssumption
  <2>2. NoKey.by = "nobody" /\ x.handler.by = m
    BY <1>10 DEF NoKey
  <2>. QED
    BY <2>1, <2>2
<1>12. Question(x, i) = "none" /\ Deepest(x) = m
  BY <1>4, <1>6 DEF Question, Deepest
<1>13. x.out = <<"more">>
  <2>1. Written(w, m, "more") = Append(w.out, "more")
    BY DEF Written, Live
  <2>2. Append(w.out, "more") = <<"more">>
    OBVIOUS
  <2>. QED
    BY <1>4, <2>1, <2>2
<1>. QED
  BY <1>4, <1>6, <1>8, <1>9, <1>11, <1>12, <1>13 DEF Shows, ShowsPage

\* is_done = True: the parents see it on the way back.
LEMMA ExitLeaves ==
    ASSUME IInv, file = NoFile, Live(session), NoneAwaits(session), session.out = <<>>, ~session.pipe,
           InCall, call.at = Len(session.stack), Question(session, call.at) = "none",
           Comes(Settled([session EXCEPT !.proc[Me].done = TRUE], call.at))
    PROVE  DInv'
<1>. DEFINE i == call.at
            x == [session EXCEPT !.proc[Me].done = TRUE]
            v == Settled(x, i)
<1>1. /\ Good(session) /\ session \in Session /\ session.proc \in [Modes -> Processor]
      /\ session.stack \in Seq(Modes) /\ i \in DOMAIN session.stack /\ i \in Nat \ {0}
      /\ Me \in Modes /\ Me = session.stack[i]
  BY HereLive, SessionShape DEF IInv, Good
<1>2. x \in Session
  BY <1>1, DoneKeeps DEF Good
<1>3. SettledTo(x, v, i)
  BY <1>2, SettledIs
<1>4. /\ x.stack = session.stack /\ x.pipe = session.pipe /\ x.handler = session.handler
      /\ x.out = session.out /\ x.proc = [session.proc EXCEPT ![Me].done = TRUE]
  BY <1>1 DEF Session
<1>5. call' = [at |-> i - 1, cmd |-> call.cmd, taken |-> TRUE] /\ session' = v /\ file' = file
  <2>1. call \in [at : Nat, cmd : Commands, taken : BOOLEAN]
    BY DEF IInv
  <2>. QED
    BY <2>1 DEF Comes
<1>. HIDE DEF x, v, i
<1>6. \A n \in Modes : /\ x.proc[n].silent = session.proc[n].silent
                       /\ x.proc[n].done <=> (n = Me \/ session.proc[n].done)
                       /\ x.proc[n].awaiting = session.proc[n].awaiting
                       /\ x.proc[n].cont = session.proc[n].cont
  BY <1>1, <1>4 DEF Processor
<1>7. v = x
  BY <1>1, <1>3, <1>4, <1>6 DEF SettledTo, Prompts
<1>8. ASSUME NEW j \in 1..(i - 1)
      PROVE  /\ ~x.proc[x.stack[j]].silent /\ ~x.proc[x.stack[j]].done
             /\ Question(x, j) = "none"
  <2>1. j \in DOMAIN session.stack /\ j # i
    BY <1>1
  <2>2. session.stack[j] \in Modes /\ session.stack[j] # Me
    BY <1>1, <2>1, ChainDistinct
  <2>3. /\ ~session.proc[session.stack[j]].silent /\ ~session.proc[session.stack[j]].done
        /\ Question(session, j) = "none"
    BY <2>1 DEF Live, i
  <2>. QED
    BY <1>4, <1>6, <2>2, <2>3 DEF Question
<1>9. NoneAwaits(x)
  BY <1>4, <1>6 DEF NoneAwaits
<1>10. x.proc[x.stack[(i - 1) + 1]].done /\ i - 1 < Len(x.stack)
  BY <1>1, <1>4, <1>6 DEF i
<1>11. Leaving(x, i - 1)
  BY <1>4, <1>8, <1>9, <1>10 DEF Leaving
<1>12. call'.at = i - 1 /\ call'.taken = TRUE /\ call' # NoCall
  BY <1>5 DEF NoCall
<1>. QED
  BY <1>5, <1>7, <1>11, <1>12 DEF DInv, Leaving, NoneAwaits, Question

\* A file is opened by the deepest processor of the chain.
LEMMA OpenFileInner ==
    ASSUME IInv, Untaken, ~call.taken, OpenFile
    PROVE  DInv'
<1>. DEFINE i == call.at
            config == ConfigOf[Me]
            a == Answered(session, Me)
<1>1. InCall /\ file = NoFile /\ Parses
  BY DEF OpenFile
<1>2. /\ Here = session /\ i \in DOMAIN session.stack /\ i \in Nat \ {0} /\ Me \in Modes
      /\ Me = session.stack[i] /\ call.cmd \in Commands
      /\ Good(session) /\ session \in Session /\ session.proc \in [Modes -> Processor]
      /\ session.stack \in Seq(Modes) /\ session.stack # <<>> /\ IsPath(session.stack)
      /\ session.stack[1] \in Tops
  BY <1>1, HereLive, SessionShape DEF IInv, Good, Untaken, FileInv
<1>3. i = Len(session.stack) /\ ~session.pipe
  <2>1. CASE Answering = "file"
    BY <1>1, <2>1, TakerIs
  <2>2. CASE Effect = "parse"
    <3>1. Effect \notin Modes \cup {"drop"}
      BY <2>2, ModeAssumption DEF Kinds
    <3>. QED
      BY <1>1, <2>2, <3>1, TakerIs
  <2>. QED
    BY <1>1, <2>1, <2>2 DEF Parses
<1>4. config \in Modes /\ config \notin Tops /\ Parent[config] = Me
  <2>1. config \in Modes
    BY <1>2, ModeAssumption
  <2>2. CASE Answering = "file"
    BY <1>2, <2>1, <2>2 DEF Answering, Untaken, Live, Question
  <2>3. CASE Effect = "parse"
    <3>1. Does[Me][call.cmd] = "parse"
      BY <2>3 DEF Effect
    <3>. QED
      BY <1>2, <2>1, <3>1, CommandAssumption
  <2>. QED
    BY <1>1, <2>2, <2>3 DEF Parses
<1>5. AnsweredTo(session, a, Me) /\ Good(a)
  BY <1>2, AnsweredIs, AnsweredKeeps
<1>6. /\ session' = [a EXCEPT !.proc[config] = Fresh(TRUE), !.stack = <<config>>]
      /\ file' = [stack |-> session.stack, at |-> i, root |-> Len(<<config>>) - 1, read |-> 0]
      /\ call' = [call EXCEPT !.at = Len(<<config>>) - 1]
  <2>1. ~(i < Len(Here.stack))
    BY <1>2, <1>3
  <2>2. /\ session' = [Answered(Here, Me) EXCEPT !.proc[config] = Fresh(TRUE), !.stack = <<config>>]
        /\ file' = [stack |-> Here.stack, at |-> i, root |-> Len(<<config>>) - 1, read |-> 0]
        /\ call' = [call EXCEPT !.at = Len(<<config>>) - 1]
    BY <2>1, Zenon DEF OpenFile
  <2>. QED
    BY <1>2, <2>2, Zenon
<1>7. Len(<<config>>) - 1 = 0
  OBVIOUS
<1>. HIDE DEF a, config, i
<1>8. /\ session'.stack = <<config>> /\ session'.proc = [a.proc EXCEPT ![config] = Fresh(TRUE)]
      /\ session'.pipe = a.pipe /\ session'.handler = a.handler /\ session'.out = a.out
  BY <1>5, <1>6 DEF Good, Session
<1>9. /\ file'.stack = session.stack /\ file'.at = i /\ file'.root = 0
  BY <1>6, <1>7
<1>10. call'.at = 0
  <2>1. call \in [at : Nat, cmd : Commands, taken : BOOLEAN]
    BY DEF IInv
  <2>. QED
    BY <1>6, <1>7, <2>1
<1>11. file' # NoFile
  BY <1>2, <1>9 DEF NoFile
<1>12. /\ a.pipe = session.pipe /\ a.handler = session.handler /\ a.out = session.out
       /\ a.proc = [session.proc EXCEPT ![Me].cont = "none", ![Me].hide = FALSE]
  BY <1>5 DEF AnsweredTo
<1>13. \A m \in Modes : /\ a.proc[m].silent = session.proc[m].silent
                        /\ a.proc[m].done = session.proc[m].done
                        /\ a.proc[m].awaiting = session.proc[m].awaiting
                        /\ a.proc[m].cont = IF m = Me THEN "none" ELSE session.proc[m].cont
  BY <1>2, <1>12 DEF Processor
<1>14. a.proc \in [Modes -> Processor]
  BY <1>5, SessionShape DEF Good
<1>15. /\ session'.proc[config] = Fresh(TRUE)
       /\ \A m \in Modes : m # config => session'.proc[m] = a.proc[m]
  BY <1>4, <1>8, <1>14
<1>16. Fresh(TRUE).silent /\ ~Fresh(TRUE).awaiting
  BY DEF Fresh
<1>17. \A j \in DOMAIN session.stack : session.stack[j] \in Modes /\ session.stack[j] # config
  <2>. DEFINE s == <<config>>
  <2>1. /\ s \in Seq(Modes) /\ s # <<>> /\ Len(s) = 1 /\ s[1] = config /\ 1 \in DOMAIN s
    BY <1>4
  <2>. HIDE DEF s
  <2>2. IsPath(s)
    BY <2>1 DEF IsPath
  <2>3. Parent[s[1]] = session.stack[Len(session.stack)]
    BY <1>2, <1>3, <1>4, <2>1
  <2>4. \A j \in DOMAIN session.stack, k \in DOMAIN s : session.stack[j] # s[k]
    BY <1>2, <1>4, <2>1, <2>2, <2>3, ChainsApart
  <2>. QED
    BY <1>2, <2>1, <2>4
<1>18. \A j \in DOMAIN session.stack :
          LET p == session'.proc[session.stack[j]] IN ~p.silent /\ ~p.done /\ p.cont = "none"
  <2>. SUFFICES ASSUME NEW j \in DOMAIN session.stack
                PROVE  LET p == session'.proc[session.stack[j]] IN ~p.silent /\ ~p.done /\ p.cont = "none"
    OBVIOUS
  <2>1. /\ ~session.proc[session.stack[j]].silent /\ ~session.proc[session.stack[j]].done
        /\ session.proc[session.stack[j]].cont # "none" => j = i
    BY <1>3 DEF Untaken, Live, Question
  <2>2. j = i => session.stack[j] = Me
    BY <1>2
  <2>. QED
    BY <1>13, <1>15, <1>17, <2>1, <2>2
<1>19. session'.handler = NoKey /\ \A m \in Modes : ~session'.proc[m].awaiting
  <2>1. session.handler = NoKey /\ \A m \in Modes : ~session.proc[m].awaiting
    BY DEF Untaken, NoneAwaits
  <2>2. ASSUME NEW m \in Modes PROVE ~session'.proc[m].awaiting
    <3>1. CASE m = config
      BY <1>15, <1>16, <3>1
    <3>2. CASE m # config
      BY <1>13, <1>15, <2>1, <3>2
    <3>. QED
      BY <3>1, <3>2
  <2>3. session'.handler = NoKey
    BY <1>8, <1>12, <2>1
  <2>. QED
    BY <2>2, <2>3
<1>20. session'.out = <<>> /\ ~session'.pipe
  BY <1>3, <1>8, <1>12 DEF Untaken
<1>21. /\ session'.stack[1] \notin Tops
       /\ Parent[session'.stack[1]] = file'.stack[Len(file'.stack)]
       /\ \A j \in DOMAIN session'.stack : session'.proc[session'.stack[j]].silent
  <2>1. session'.stack[1] = config /\ \A j \in DOMAIN session'.stack : session'.stack[j] = config
    BY <1>8
  <2>2. file'.stack[Len(file'.stack)] = Me
    BY <1>2, <1>3, <1>9
  <2>. QED
    BY <1>4, <1>15, <1>16, <2>1, <2>2
<1>22. Inner(session)'
  BY <1>9, <1>18, <1>19, <1>20, <1>21 DEF Inner, NoneAwaits
<1>. QED
  BY <1>3, <1>9, <1>10, <1>11, <1>22 DEF DInv, InFile

\* A processor that is done is seen by its parent, which prompts in its place or
\* is done as well.
LEMMA TakenComes ==
    ASSUME IInv, DInv, file = NoFile, InCall, call.taken, Comes(Here)
    PROVE  DInv'
<1>. DEFINE i == call.at
            v == Here
<1>1. call # NoCall
  BY DEF NoCall
<1>2. Shows(session) \/ Leaving(session, i)
  BY <1>1 DEF DInv
<1>3. /\ Good(session) /\ i \in DOMAIN session.stack /\ i \in Nat \ {0} /\ Me \in Modes
      /\ Me = session.stack[i] /\ Good(v)
  BY HereIsGood DEF IInv, Me
<1>4. /\ session.stack \in Seq(Modes) /\ session.proc \in [Modes -> Processor]
      /\ v.stack \in Seq(Modes) /\ v.stack # <<>> /\ DOMAIN session.stack = 1..Len(session.stack)
  BY <1>3, SessionShape DEF Good
<1>5. ReturnedTo(session, v, i)
  BY <1>3, ReturnedIs DEF Here
<1>6. session' = v /\ file' = file /\ call'.at = i - 1 /\ call'.taken = TRUE
  <2>1. call \in [at : Nat, cmd : Commands, taken : BOOLEAN]
    BY DEF IInv
  <2>. QED
    BY <2>1 DEF Comes
<1>7. CASE Shows(session)
  <2>1. v = session
    BY <1>7, HereLive DEF Shows
  <2>. QED
    BY <1>7, <2>1, ComesShows
<1>8. CASE Leaving(session, i)
  <2>. HIDE DEF v
  <2>1. Leaves(session, i)
    BY <1>3, <1>4, <1>8 DEF Leaving, Leaves
  <2>2. \A j \in 1..i : /\ ~session.proc[session.stack[j]].silent /\ ~session.proc[session.stack[j]].done
                        /\ Question(session, j) = "none" /\ session.stack[j] \in Modes
                        /\ (session.stack[j] = Me => j = i)
    <3>1. \A j \in 1..i : j \in DOMAIN session.stack /\ session.stack[j] \in Modes
      BY <1>3, <1>4
    <3>2. \A j \in 1..i : session.stack[j] = session.stack[i] => j = i
      BY <1>3, <3>1, ChainDistinct
    <3>. QED
      BY <1>3, <1>8, <3>1, <3>2 DEF Leaving
  <2>3. NoneAwaits(session) /\ session.out = <<>> /\ ~session.pipe
    BY <1>8 DEF Leaving
  <2>4. CASE Me \in FollowsChild
    <3>1. /\ v.pipe = session.pipe /\ v.handler = session.handler
          /\ v.stack = session.stack /\ v.out = session.out
          /\ v.proc = [session.proc EXCEPT ![Me].done = TRUE]
      BY <1>3, <1>5, <2>1, <2>4 DEF ReturnedTo
    <3>2. \A n \in Modes : /\ v.proc[n].silent = session.proc[n].silent
                           /\ v.proc[n].done <=> (n = Me \/ session.proc[n].done)
                           /\ v.proc[n].awaiting = session.proc[n].awaiting
                           /\ v.proc[n].cont = session.proc[n].cont
      BY <1>3, <1>4, <3>1 DEF Processor
    <3>3. \A j \in 1..(i - 1) : /\ ~v.proc[v.stack[j]].silent /\ ~v.proc[v.stack[j]].done
                                /\ Question(v, j) = "none"
      <4>. SUFFICES ASSUME NEW j \in 1..(i - 1)
                    PROVE  /\ ~v.proc[v.stack[j]].silent /\ ~v.proc[v.stack[j]].done
                           /\ Question(v, j) = "none"
        OBVIOUS
      <4>1. j \in 1..i /\ j # i
        BY <1>3
      <4>. QED
        BY <2>2, <3>1, <3>2, <4>1 DEF Question
    <3>4. NoneAwaits(v)
      BY <2>3, <3>1, <3>2 DEF NoneAwaits
    <3>5. v.proc[v.stack[(i - 1) + 1]].done /\ i - 1 < Len(v.stack)
      BY <1>3, <1>4, <3>1, <3>2
    <3>6. Leaving(v, i - 1)
      BY <2>3, <3>1, <3>3, <3>4, <3>5 DEF Leaving
    <3>7. call' # NoCall
      BY <1>6 DEF NoCall
    <3>. QED
      BY <1>6, <3>6, <3>7 DEF DInv, Leaving, NoneAwaits, Question
  <2>5. CASE Me \notin FollowsChild
    <3>1. /\ v.pipe = session.pipe /\ v.handler = session.handler
          /\ Len(v.stack) = i /\ \A j \in 1..i : v.stack[j] = session.stack[j]
          /\ v.proc = session.proc
          /\ v.out = Written(session, Me, Me)
      BY <1>3, <1>5, <2>1, <2>5 DEF ReturnedTo
    <3>2. DOMAIN v.stack = 1..i /\ i \in 1..i
      BY <1>3, <1>4, <3>1
    <3>3. Deepest(v) = Me
      BY <1>3, <3>1, <3>2 DEF Deepest
    <3>4. v.out = <<Me>>
      <4>1. Written(session, Me, Me) = Append(session.out, Me)
        BY <1>3, <2>2, <2>3, <3>2 DEF Written
      <4>2. Append(session.out, Me) = <<Me>>
        BY <2>3
      <4>. QED
        BY <3>1, <4>1, <4>2
    <3>5. Live(v) /\ Question(v, Len(v.stack)) = "none"
      BY <2>2, <3>1, <3>2 DEF Live, Question
    <3>6. NoneAwaits(v)
      BY <2>3, <3>1 DEF NoneAwaits
    <3>7. Shows(v)
      BY <2>3, <3>1, <3>3, <3>4, <3>5, <3>6 DEF Shows, ShowsPrompt
    <3>. QED
      BY <3>7, ComesShows DEF v
  <2>. QED
    BY <2>4, <2>5
<1>. QED
  BY <1>2, <1>7, <1>8

\* No call and no file: the session shows what it should.
LEMMA RestShows ==
    ASSUME NEW v, Shows(v), session' = v, file' = NoFile, call' = NoCall
    PROVE  DInv'
BY DEF DInv, Shows, Live, Question, NoneAwaits, ShowsPrompt, ShowsQuestion,
     ShowsPage, ShowsNothing, Deepest

\* A line that nobody took yet is given to the parent, or taken.
LEMMA UntakenProcess ==
    ASSUME IInv, DInv, file = NoFile, call # NoCall, ~call.taken, Process
    PROVE  DInv'
<1>. DEFINE i == call.at
            n == Len(session.stack)
<1>0. Untaken /\ Live(session) /\ NoneAwaits(session) /\ session.out = <<>>
  BY DEF DInv, Untaken
<1>1. InCall
  BY ModeAssumption DEF Process, Pass, FallThrough, Say, Enter, Exit, AskPassword, AskFile, Pause, Drop,
                        CheckPassword, FileUnreadable, OpenFile, LineAborted, FileEnd, FileAborted,
                        FileLine, Parsing
<1>2. /\ Here = session /\ i \in DOMAIN session.stack /\ i \in Nat \ {0} /\ Me \in Modes
      /\ session.stack[i] = Me /\ call.cmd \in Commands
  BY <1>0, <1>1, HereLive
<1>3. /\ Good(session) /\ session \in Session /\ session.proc \in [Modes -> Processor]
      /\ session.stack \in Seq(Modes) /\ session.stack # <<>> /\ session.stack[1] \in Tops
      /\ i \in 1..n /\ DOMAIN session.stack = 1..n
  BY <1>2, SessionShape DEF IInv, Good, FileInv
<1>4. Effect # "unknown" => Effect = Does[Me][call.cmd]
  BY DEF Effect
<1>5. ASSUME Effect # "unknown", Effect \notin Modes \cup {"drop"}
      PROVE  i = n /\ Question(session, i) = "none"
  BY <1>0, <1>1, <1>5, TakerIs
<1>6. ASSUME Effect # "unknown", Effect # "print"
      PROVE  ~session.pipe
  BY <1>0, <1>1, <1>6, TakerIs
<1>7. \A j \in 1..i : /\ ~session.proc[session.stack[j]].silent
                      /\ ~session.proc[session.stack[j]].done
                      /\ Question(session, n) = "none" => Question(session, j) = "none"
  BY <1>0, <1>2, <1>3 DEF Live
<1>8. ~\E m \in Modes : m \in Kinds
  BY ModeAssumption
<1>9. CASE FallThrough
  <2>1. Effect = "unknown" /\ Answering = "none"
    BY <1>9 DEF FallThrough
  <2>2. Question(session, n) = "none" /\ Does[Me][call.cmd] = "unknown"
    BY <1>0, <1>1, <2>1, TakerIs
  <2>3. /\ session' = session /\ file' = NoFile
        /\ call'.at = i - 1 /\ call'.cmd = call.cmd /\ call'.taken = FALSE
    <3>1. call \in [at : Nat, cmd : Commands, taken : BOOLEAN]
      BY DEF IInv
    <3>. QED
      BY <1>2, <1>9, <3>1 DEF FallThrough
  <2>4. call' # NoCall
    <3>1. call.cmd # "blank"
      BY <1>2, <2>2, CommandAssumption
    <3>. QED
      BY <2>3, <3>1 DEF NoCall
  <2>5. Belongs(call.cmd, i)
    BY <1>0, <2>2 DEF Untaken
  <2>6. Belongs(call.cmd, i - 1)
    <3>1. \A j \in ((i - 1) + 1)..n : j = i \/ j \in (i + 1)..n
      BY <1>2, <1>3
    <3>2. \A j \in ((i - 1) + 1)..n : Does[session.stack[j]][call.cmd] = "unknown"
      BY <1>2, <2>2, <2>5, <3>1 DEF Belongs
    <3>. QED
      BY <2>5, <3>2 DEF Belongs
  <2>7. Untaken'
    BY <1>0, <2>2, <2>3, <2>6 DEF Untaken, Live, NoneAwaits, Question, Belongs, Deepest
  <2>. QED
    BY <2>3, <2>4, <2>7 DEF DInv
<1>10. CASE Say
  <2>1. Effect = "print" /\ Comes(Settled(session, i))
    BY <1>2, <1>10 DEF Say
  <2>2. i = n /\ Question(session, n) = "none"
    BY <1>5, <1>8, <2>1 DEF Kinds
  <2>3. Shows(Settled(session, i))
    BY <1>0, <1>3, <2>2, SettledShows
  <2>. QED
    BY <2>1, <2>3, ComesShows
<1>11. CASE Enter
  <2>1. Effect \in Modes /\ Comes(Settled(MoveTo(session, i, Effect), i))
    BY <1>2, <1>11 DEF Enter
  <2>2. Effect # "unknown" /\ Effect # "print"
    BY <1>8, <2>1 DEF Kinds
  <2>3. Effect \notin Tops /\ Parent[Effect] = session.stack[i]
    BY <1>2, <1>4, <2>1, <2>2, CommandAssumption
  <2>4. Question(session, n) = "none" /\ ~session.pipe
    BY <1>0, <1>1, <1>6, <2>2, TakerIs
  <2>. QED
    BY <1>0, <1>2, <1>3, <1>7, <2>1, <2>3, <2>4, MoveToShows
<1>12. CASE Exit
  <2>1. Effect = "exit" /\ Comes(Settled([session EXCEPT !.proc[Me].done = TRUE], i))
    BY <1>2, <1>12 DEF Exit
  <2>2. i = n /\ Question(session, i) = "none" /\ ~session.pipe
    BY <1>5, <1>6, <1>8, <2>1 DEF Kinds
  <2>. QED
    BY <1>0, <1>1, <2>1, <2>2, ExitLeaves
<1>13. CASE AskPassword
  <2>1. Effect = "password" /\ Comes(Settled(Ask(session, session.stack[i], "password"), i))
    BY <1>2, <1>13 DEF AskPassword
  <2>2. i = n /\ ~session.pipe
    BY <1>5, <1>6, <1>8, <2>1 DEF Kinds
  <2>3. AsksPassword(Me)
    BY <1>2, <1>4, <2>1 DEF AsksPassword
  <2>. QED
    BY <1>0, <1>2, <2>1, <2>2, <2>3, AskShows
<1>14. CASE AskFile
  <2>1. Effect = "file" /\ Comes(Settled(Ask(session, session.stack[i], "file"), i))
    BY <1>2, <1>14 DEF AskFile
  <2>2. i = n /\ ~session.pipe
    BY <1>5, <1>6, <1>8, <2>1 DEF Kinds
  <2>3. ConfigOf[Me] \notin Tops /\ Parent[ConfigOf[Me]] = Me
    BY <1>2, <1>4, <2>1, CommandAssumption
  <2>. QED
    BY <1>0, <1>2, <2>1, <2>2, <2>3, AskShows
<1>15. CASE Pause
  <2>1. PICK left \in 0..MaxPages : Comes(Settled(OnKeystroke(session, Me, left), i))
    BY <1>2, <1>15 DEF Pause
  <2>2. Effect = "pause"
    BY <1>15 DEF Pause
  <2>3. i = n /\ Question(session, i) = "none" /\ ~session.pipe
    BY <1>5, <1>6, <1>8, <2>2 DEF Kinds
  <2>. DEFINE x == OnKeystroke(session, session.stack[i], left)
  <2>4. Shows(x) /\ Settled(x, i) = x
    BY <1>0, <1>2, <1>3, <2>3, PageShows DEF NoneAwaits
  <2>5. Comes(x)
    BY <1>2, <2>1, <2>4
  <2>. HIDE DEF x
  <2>. QED
    BY <2>4, <2>5, ComesShows
<1>16. CASE Drop
  <2>. DEFINE x == [session EXCEPT !.stack = SubSeq(@, 1, i)]
              s == SubSeq(session.stack, 1, i)
  <2>1. Effect = "drop" /\ Comes(Settled(x, i))
    BY <1>2, <1>16 DEF Drop
  <2>2. Question(session, n) = "none"
    BY <1>0, <1>1, <2>1, TakerIs
  <2>3. Good(x) /\ i \in DOMAIN x.stack
    BY <1>2, <1>3, CutKeeps DEF Above
  <2>4. /\ Len(s) = i /\ s \in Seq(Modes)
        /\ \A j \in 1..i : s[j] = session.stack[j]
    BY <1>2, <1>3, CutIsPath DEF Good
  <2>5. /\ x.stack = s /\ x.proc = session.proc /\ x.pipe = session.pipe
        /\ x.handler = session.handler /\ x.out = session.out
    BY <1>3 DEF Session
  <2>. HIDE DEF x, s
  <2>6. DOMAIN x.stack = 1..i
    BY <1>2, <2>4, <2>5
  <2>7. Live(x) /\ Question(x, Len(x.stack)) = "none"
    BY <1>2, <1>7, <2>2, <2>4, <2>5, <2>6 DEF Live, Question
  <2>8. NoneAwaits(x)
    BY <1>0, <2>5 DEF NoneAwaits
  <2>9. Shows(Settled(x, i))
    BY <1>0, <2>3, <2>4, <2>5, <2>7, <2>8, SettledShows
  <2>. QED
    BY <2>1, <2>9, ComesShows
<1>17. ASSUME Answering # "none" \/ Effect = "parse"
       PROVE  LET x == Answered(session, Me)
              IN /\ i = n /\ Good(x) /\ x.stack = session.stack /\ Live(x) /\ NoneAwaits(x)
                 /\ x.out = <<>> /\ ~x.pipe
                 /\ \A j \in 1..i : Question(x, j) = "none"
  <2>. DEFINE x == Answered(session, Me)
  <2>1. i = n /\ ~session.pipe
    BY <1>0, <1>1, <1>5, <1>6, <1>8, <1>17, TakerIs DEF Kinds
  <2>2. Good(x) /\ AnsweredTo(session, x, Me)
    BY <1>2, <1>3, AnsweredKeeps, AnsweredIs
  <2>. HIDE DEF x
  <2>3. /\ x.stack = session.stack /\ x.pipe = session.pipe /\ x.handler = session.handler
        /\ x.out = session.out
        /\ x.proc = [session.proc EXCEPT ![Me].cont = "none", ![Me].hide = FALSE]
    BY <2>2 DEF AnsweredTo
  <2>4. \A m \in Modes : /\ x.proc[m].silent = session.proc[m].silent
                         /\ x.proc[m].done = session.proc[m].done
                         /\ x.proc[m].awaiting = session.proc[m].awaiting
                         /\ x.proc[m].cont = IF m = Me THEN "none" ELSE session.proc[m].cont
    BY <1>2, <1>3, <2>3 DEF Processor
  <2>5. \A j \in 1..n : session.stack[j] \in Modes
    BY <1>3
  <2>6. \A j \in 1..n : Question(x, j) = "none"
    <3>. SUFFICES ASSUME NEW j \in 1..n PROVE Question(x, j) = "none"
      OBVIOUS
    <3>1. j = i \/ session.proc[session.stack[j]].cont = "none"
      BY <1>0, <1>3, <2>1 DEF Live, Question
    <3>. QED
      BY <1>2, <2>3, <2>4, <2>5, <3>1 DEF Question
  <2>7. Live(x)
    BY <1>0, <1>3, <2>3, <2>4, <2>5, <2>6 DEF Live
  <2>8. NoneAwaits(x)
    BY <1>0, <2>3, <2>4 DEF NoneAwaits
  <2>9. x.out = <<>>
    BY <1>0, <2>3
  <2>. QED
    BY <2>1, <2>2, <2>3, <2>6, <2>7, <2>8, <2>9 DEF x
<1>18. CASE CheckPassword
  <2>. DEFINE x == Answered(session, Me)
              to == EnabledOf[Me]
  <2>1. /\ Answering = "password"
        /\ Comes(Settled(IF call.cmd \in Accepted THEN MoveTo(x, i, to) ELSE x, i))
    BY <1>2, <1>18 DEF CheckPassword
  <2>2. /\ i = n /\ Good(x) /\ x.stack = session.stack /\ Live(x) /\ NoneAwaits(x)
        /\ x.out = <<>> /\ ~x.pipe
        /\ \A j \in 1..i : Question(x, j) = "none"
    BY <1>17, <2>1
  <2>3. to \in Modes /\ to \notin Tops /\ Parent[to] = session.stack[i]
    BY <1>2, <1>3, <2>1, EnabledIsChild DEF Answering, Good, Asks, MayBe
  <2>. HIDE DEF x, to
  <2>4. CASE call.cmd \in Accepted
    <3>1. Comes(Settled(MoveTo(x, i, to), i))
      BY <2>1, <2>4
    <3>2. \A j \in 1..i : ~x.proc[x.stack[j]].silent /\ ~x.proc[x.stack[j]].done
      BY <1>3, <2>2 DEF Live
    <3>. QED
      BY <1>2, <1>3, <2>2, <2>3, <3>1, <3>2, MoveToShows
  <2>5. CASE call.cmd \notin Accepted
    <3>1. Comes(Settled(x, i))
      BY <2>1, <2>5
    <3>2. Shows(Settled(x, i))
      BY <1>3, <2>2, SettledShows
    <3>. QED
      BY <3>1, <3>2, ComesShows
  <2>. QED
    BY <2>4, <2>5
<1>19. CASE FileUnreadable
  <2>. DEFINE x == Answered(session, Me)
  <2>1. (Answering = "file" \/ Effect = "parse") /\ Comes(Settled(x, i))
    BY <1>2, <1>19 DEF FileUnreadable, Parses
  <2>2. /\ i = n /\ Good(x) /\ x.stack = session.stack /\ Live(x) /\ NoneAwaits(x)
        /\ x.out = <<>> /\ ~x.pipe
        /\ \A j \in 1..i : Question(x, j) = "none"
    BY <1>17, <2>1
  <2>. HIDE DEF x
  <2>3. Shows(Settled(x, i))
    BY <1>3, <2>2, SettledShows
  <2>. QED
    BY <2>1, <2>3, ComesShows
<1>20. CASE OpenFile
  BY <1>0, <1>20, OpenFileInner
<1>21. CASE LineAborted
  <2>. DEFINE x == [session EXCEPT !.out = <<"raised">>]
  <2>1. /\ file' = NoFile /\ call' = NoCall /\ Effect \in {"leave", "raise"}
        /\ over' \/ (Effect = "raise" /\ session' = [session EXCEPT !.out = Append(@, "raised")])
    BY <1>2, <1>21 DEF LineAborted
  <2>2. CASE over'
    BY <2>1, <2>2 DEF DInv
  <2>3. CASE ~over'
    <3>1. i = n /\ Question(session, n) = "none" /\ ~session.pipe
      BY <1>5, <1>6, <1>8, <2>1 DEF Kinds
    <3>2. Live(session) /\ NoneAwaits(session) /\ session.out = <<>>
      BY <1>0 DEF Untaken
    <3>3. session' = x
      BY <2>1, <2>3, <3>2
    <3>4. /\ x.stack = session.stack /\ x.proc = session.proc /\ x.pipe = session.pipe
          /\ x.handler = session.handler /\ x.out = <<"raised">>
      BY <1>3 DEF Session
    <3>. HIDE DEF x
    <3>5. Shows(x)
      BY <3>1, <3>2, <3>4 DEF Shows, ShowsNothing, Live, Question, NoneAwaits
    <3>. QED
      BY <2>1, <3>3, <3>5, RestShows
  <2>. QED
    BY <2>2, <2>3
<1>22. CASE Pass \/ FileEnd \/ FileAborted \/ \E c \in FileCommands : FileLine(c)
  BY <1>22 DEF Pass, FileEnd, FileAborted, FileLine, Parsing
<1>. QED
  BY <1>9, <1>10, <1>11, <1>12, <1>13, <1>14, <1>15, <1>16, <1>18, <1>19, <1>20, <1>21, <1>22 DEF Process

-----------------------------------------------------------------------------
(***************************************************************************)
(* What reaches the engine between two lines.                              *)
(***************************************************************************)

\* show_prompt() of a session that shows nothing.
LEMMA PromptShows ==
    ASSUME NEW w, Good(w), Live(w), NoneAwaits(w), w.out = <<>>, ~w.pipe,
           Question(w, Len(w.stack)) = "none"
    PROVE  Shows(ShowPrompt(w))
<1>. DEFINE v == ShowPrompt(w)
            d == Deepest(w)
<1>1. /\ w \in Session /\ Len(w.stack) \in DOMAIN w.stack /\ d = w.stack[Len(w.stack)]
  BY DeepestIsMode, SessionShape DEF Good, Deepest
<1>2. SameBut(w, v) /\ v.out = Written(w, d, d)
  BY <1>1, ShowPromptIs
<1>. HIDE DEF v, d
<1>3. v.out = <<d>>
  <2>1. Written(w, d, d) = Append(w.out, d)
    BY <1>1 DEF Written, Live
  <2>2. Append(w.out, d) = <<d>>
    OBVIOUS
  <2>. QED
    BY <1>2, <2>1, <2>2
<1>4. Deepest(v) = d /\ Question(v, Len(v.stack)) = "none"
  BY <1>1, <1>2 DEF SameBut, Deepest, Question
<1>5. Live(v) /\ NoneAwaits(v) /\ ~v.pipe
  BY <1>2 DEF SameBut, Live, NoneAwaits, Question
<1>6. Shows(v)
  BY <1>3, <1>4, <1>5 DEF Shows, ShowsPrompt
<1>. QED
  BY <1>6 DEF v

\* The client gives a command in its mode.
LEMMA ReceiveUntaken ==
    ASSUME Disciplined, IInv, DInv, NEW line \in Lines, Receive(line)
    PROVE  DInv'
<1>. DEFINE n == Len(session.stack)
            c == line.cmd
<1>1. file = NoFile /\ call = NoCall /\ ~over /\ Shows(session) /\ InItsMode(line)
  BY DEF Receive, Idle, Expected, DInv
<1>2. /\ session \in Session /\ n \in Nat \ {0} /\ DOMAIN session.stack = 1..n
      /\ Deepest(session) = session.stack[n]
  BY DeepestIsMode, SessionShape DEF IInv, Good, Deepest
<1>3. NoneAwaits(session) /\ ~session.pipe /\ Live(session)
  BY <1>1 DEF InItsMode, Shows, ShowsPrompt, ShowsQuestion, ShowsPage, ShowsNothing
<1>. DEFINE w == [session EXCEPT !.out = <<>>, !.pipe = @ \/ line.pipe = "drop"]
<1>4. /\ session' = w /\ file' = NoFile
      /\ call' = [at |-> n, cmd |-> c, taken |-> FALSE]
  BY <1>1 DEF Receive, Received
<1>5. /\ w.stack = session.stack /\ w.proc = session.proc /\ w.handler = session.handler
      /\ w.out = <<>>
      /\ w.pipe = (session.pipe \/ line.pipe = "drop")
  BY <1>2 DEF Session
<1>. HIDE DEF w
<1>6. call'.at = n /\ call'.cmd = c /\ ~call'.taken /\ call' # NoCall
  BY <1>2, <1>4 DEF NoCall
<1>7. /\ session'.stack = session.stack /\ session'.proc = session.proc
      /\ session'.handler = session.handler /\ session'.out = <<>>
      /\ session'.pipe <=> line.pipe = "drop"
  <2>1. w.pipe <=> line.pipe = "drop"
    BY <1>3, <1>5, Zenon
  <2>. QED
    BY <1>4, <1>5, <2>1, Zenon
<1>8. (Live(session) /\ NoneAwaits(session))'
  BY <1>3, <1>7 DEF Live, NoneAwaits, Question
<1>9. ASSUME Question(session, n) # "none"
      PROVE  line.pipe = "none"
  BY <1>1, <1>2, <1>9 DEF InItsMode, Question
<1>10. ASSUME Question(session, n) = "none"
       PROVE  /\ Knowing(c) # {} => \/ TakenBy(c) = n
                                    \/ Does[session.stack[TakenBy(c)]][c] \in Modes \cup {"drop"}
              /\ line.pipe = "drop" => Does[session.stack[n]][c] = "print"
  BY <1>1, <1>2, <1>10 DEF InItsMode, Question
<1>11. ASSUME Question(session, n) = "none", NEW j \in 1..(n - 1),
              \A k \in (j + 1)..n : Does[session.stack[k]][c] = "unknown"
       PROVE  Does[session.stack[j]][c] \in Modes \cup {"drop", "unknown"}
  <2>. SUFFICES ASSUME Does[session.stack[j]][c] # "unknown"
                PROVE  Does[session.stack[j]][c] \in Modes \cup {"drop"}
    OBVIOUS
  <2>1. j \in Knowing(c)
    BY <1>2 DEF Knowing
  <2>2. \A k \in Knowing(c) : k \in 1..n /\ k \notin (j + 1)..n
    BY <1>2, <1>11 DEF Knowing
  <2>3. \A k \in Knowing(c) : k <= j
    BY <1>2, <2>2
  <2>4. TakenBy(c) \in Knowing(c) /\ \A k \in Knowing(c) : k <= TakenBy(c)
    BY <2>1, <2>3 DEF TakenBy
  <2>5. TakenBy(c) = j
    <3>1. TakenBy(c) <= j /\ j <= TakenBy(c) /\ TakenBy(c) \in 1..n
      BY <2>1, <2>2, <2>3, <2>4
    <3>. QED
      BY <1>2, <3>1
  <2>. QED
    BY <1>2, <1>10, <1>11, <2>1, <2>5
<1>12. Question(session, n) = "none" => Belongs(c, n)
  BY <1>2, <1>11 DEF Belongs
<1>13. (Question(session, Len(session.stack)))' = Question(session, n)
  BY <1>7 DEF Question
<1>14. Question(session, n) = "none" => Belongs(call.cmd, call.at)'
  BY <1>6, <1>7, <1>12 DEF Belongs
<1>15. Deepest(session)' = session.stack[n]
  BY <1>7 DEF Deepest
<1>16. Untaken'
  BY <1>6, <1>7, <1>8, <1>9, <1>10, <1>13, <1>14, <1>15 DEF Untaken
<1>. QED
  BY <1>4, <1>6, <1>16 DEF DInv

\* The end of a line, a line that is not processed, and a key.
LEMMA TransportShows ==
    ASSUME Disciplined, IInv, DInv,
           \/ \E line \in Lines : ReceiveBadPipe(line)
           \/ Answer \/ KeyPressed
    PROVE  DInv'
<1>1. /\ Good(session) /\ session \in Session /\ session.proc \in [Modes -> Processor]
      /\ session.stack \in Seq(Modes) /\ session.stack # <<>>
  BY SessionShape DEF IInv, Good
<1>2. ASSUME NEW line \in Lines, ReceiveBadPipe(line)
      PROVE  DInv'
  <2>. DEFINE x == [session EXCEPT !.out = <<>>]
  <2>1. /\ file = NoFile /\ call = NoCall /\ Shows(session) /\ InItsMode(line) /\ line.pipe = "bad"
        /\ session' = ShowPrompt(x) /\ file' = NoFile /\ call' = NoCall
    BY <1>2 DEF ReceiveBadPipe, Idle, Expected, DInv
  <2>2. /\ x.stack = session.stack /\ x.proc = session.proc /\ x.handler = session.handler
        /\ x.out = <<>> /\ x.pipe = session.pipe /\ Good(x)
    <3>1. <<>> \in Seq(Modes \cup {"question", "more", "raised"})
      OBVIOUS
    <3>. QED
      BY <1>1, <3>1 DEF Session, Good, Asks
  <2>3. NoneAwaits(session) /\ ~session.pipe /\ Live(session)
    BY <2>1 DEF InItsMode, Shows, ShowsPrompt, ShowsQuestion, ShowsPage, ShowsNothing
  <2>4. Question(session, Len(session.stack)) = "none"
    BY <2>1 DEF InItsMode, Question, Deepest
  <2>. HIDE DEF x
  <2>5. /\ Live(x) /\ NoneAwaits(x) /\ ~x.pipe /\ Question(x, Len(x.stack)) = "none"
    BY <2>2, <2>3, <2>4 DEF Live, NoneAwaits, Question
  <2>6. Shows(ShowPrompt(x))
    BY <2>2, <2>5, PromptShows
  <2>. QED
    BY <2>1, <2>6, RestShows
<1>3. CASE Answer
  <2>1. /\ file = NoFile /\ call # NoCall /\ call.at = 0 /\ file' = NoFile /\ call' = NoCall
        /\ session' = IF call.taken THEN session ELSE ShowPrompt(session)
        /\ over' = (over \/ session.proc[session.stack[1]].done)
    BY <1>3 DEF Answer
  <2>2. CASE call.taken /\ Shows(session)
    BY <2>1, <2>2, RestShows
  <2>3. CASE call.taken /\ ~Shows(session)
    <3>1. Leaving(session, 0)
      BY <2>1, <2>3 DEF DInv
    <3>2. session.proc[session.stack[1]].done
      BY <3>1 DEF Leaving
    <3>3. over'
      BY <2>1, <3>2, Zenon
    <3>. QED
      BY <2>1, <3>3 DEF DInv
  <2>4. CASE ~call.taken
    <3>1. Untaken
      BY <2>1, <2>4 DEF DInv
    <3>2. Len(session.stack) \in Nat \ {0} /\ Len(session.stack) \in (0 + 1)..Len(session.stack)
      BY <1>1
    <3>3. Question(session, Len(session.stack)) = "none"
      BY <2>1, <3>1, <3>2 DEF Untaken
    <3>4. Does[Deepest(session)][call.cmd] = "unknown"
      BY <2>1, <3>1, <3>2, <3>3 DEF Untaken, Belongs, Deepest
    <3>5. Live(session) /\ NoneAwaits(session) /\ session.out = <<>> /\ ~session.pipe
      BY <3>1, <3>3, <3>4 DEF Untaken
    <3>6. Shows(ShowPrompt(session))
      BY <1>1, <3>3, <3>5, PromptShows
    <3>. QED
      BY <2>1, <2>4, <3>6, RestShows
  <2>. QED
    BY <2>2, <2>3, <2>4
<1>4. CASE KeyPressed
  <2>. DEFINE m == session.handler.by
              left == session.handler.left
              k == KeyTaken(session)
              n == Len(session.stack)
  <2>1. /\ file = NoFile /\ call = NoCall /\ Shows(session) /\ session.handler # NoKey
        /\ session' = TurnPage(k, m, left) /\ file' = NoFile /\ call' = NoCall
    BY <1>4 DEF KeyPressed, Idle, DInv
  <2>2. /\ Live(session) /\ ~session.pipe /\ m = session.stack[n] /\ Question(session, n) = "none"
        /\ \A a \in Modes : session.proc[a].awaiting <=> a = m
    BY <2>1 DEF Shows, ShowsPrompt, ShowsQuestion, ShowsPage, ShowsNothing, NoneAwaits, Deepest
  <2>3. left \in 0..MaxPages /\ m \in Modes
    BY <1>1, <2>1, SessionShape
  <2>4. Good(k) /\ Pressed(session, k)
    BY <1>1, <1>4, KeyTakenKeeps, KeyTakenIs DEF KeyPressed
  <2>. HIDE DEF k
  <2>5. /\ k.stack = session.stack /\ k.pipe = session.pipe /\ k.handler = NoKey /\ k.out = <<>>
        /\ k.proc = [session.proc EXCEPT ![m].awaiting = FALSE]
    BY <2>4 DEF Pressed
  <2>6. \A a \in Modes : /\ k.proc[a].silent = session.proc[a].silent
                         /\ k.proc[a].done = session.proc[a].done
                         /\ k.proc[a].cont = session.proc[a].cont
                         /\ ~k.proc[a].awaiting
    <3>. HIDE DEF m
    <3>. SUFFICES ASSUME NEW a \in Modes
                  PROVE  /\ k.proc[a].silent = session.proc[a].silent
                         /\ k.proc[a].done = session.proc[a].done
                         /\ k.proc[a].cont = session.proc[a].cont
                         /\ ~k.proc[a].awaiting
      OBVIOUS
    <3>1. CASE a = m
      BY <1>1, <2>3, <2>5, <3>1 DEF Processor
    <3>2. CASE a # m
      <4>1. k.proc[a] = session.proc[a]
        BY <1>1, <2>3, <2>5, <3>2
      <4>. QED
        BY <2>2, <3>2, <4>1
    <3>. QED
      BY <3>1, <3>2
  <2>7. \A j \in DOMAIN session.stack : session.stack[j] \in Modes
    BY <1>1
  <2>8. n \in DOMAIN session.stack /\ n = Len(k.stack)
    BY <1>1, <2>5
  <2>9. Live(k) /\ NoneAwaits(k) /\ Question(k, n) = "none"
    BY <2>2, <2>5, <2>6, <2>7, <2>8 DEF Live, NoneAwaits, Question
  <2>. HIDE DEF m, left, n
  <2>10. CASE left > 0
    <3>1. left - 1 \in 0..MaxPages
      BY <2>3, <2>10, CommandAssumption
    <3>2. Shows(OnKeystroke(k, k.stack[n], left - 1))
      BY <2>2, <2>3, <2>4, <2>5, <2>6, <2>8, <2>9, <3>1, PageShows
    <3>3. session' = OnKeystroke(k, k.stack[n], left - 1)
      BY <2>1, <2>2, <2>5, <2>10 DEF TurnPage
    <3>. QED
      BY <2>1, <3>2, <3>3, RestShows
  <2>11. CASE ~(left > 0)
    <3>1. \E j \in DOMAIN k.stack : k.stack[j] = m
      BY <2>2, <2>5, <2>8
    <3>2. session' = ShowPrompt(k)
      BY <2>1, <2>11, <3>1 DEF TurnPage
    <3>3. Shows(ShowPrompt(k))
      BY <2>2, <2>4, <2>5, <2>8, <2>9, PromptShows
    <3>. QED
      BY <2>1, <3>2, <3>3, RestShows
  <2>. QED
    BY <2>10, <2>11
<1>. QED
  BY <1>2, <1>3, <1>4

LEMMA InitDInv == Init => DInv
<1>. SUFFICES ASSUME Init PROVE DInv
  OBVIOUS
<1>0. PICK top \in Tops :
        session = [stack |-> <<top>>, proc |-> [m \in Modes |-> Fresh(FALSE)],
                   pipe |-> FALSE, handler |-> NoKey, out |-> <<top>>]
  BY DEF Init
<1>1. /\ session.stack = <<top>> /\ session.out = <<top>> /\ ~session.pipe
      /\ session.handler = NoKey /\ session.proc = [m \in Modes |-> Fresh(FALSE)]
  BY <1>0
<1>2. DOMAIN session.stack = {1} /\ Len(session.stack) = 1 /\ session.stack[1] = top /\ top \in Modes
  BY <1>1, ModeAssumption
<1>3. \A m \in Modes : session.proc[m] = Fresh(FALSE)
  BY <1>1, Zenon
<1>4. /\ ~Fresh(FALSE).silent /\ ~Fresh(FALSE).done /\ ~Fresh(FALSE).awaiting
      /\ Fresh(FALSE).cont = "none"
  BY DEF Fresh
<1>5. Live(session) /\ Question(session, Len(session.stack)) = "none"
  BY <1>2, <1>3, <1>4 DEF Live, Question
<1>6. NoneAwaits(session)
  BY <1>1, <1>3, <1>4 DEF NoneAwaits
<1>7. session.out = <<Deepest(session)>>
  BY <1>1, <1>2 DEF Deepest
<1>. QED
  BY <1>1, <1>5, <1>6, <1>7 DEF DInv, Init, Shows, ShowsPrompt

LEMMA NextDInv ==
    Disciplined /\ FilesNeverPause => (IInv /\ DInv /\ [Next]_vars => DInv')
<1>. SUFFICES ASSUME Disciplined, FilesNeverPause, IInv, DInv, [Next]_vars PROVE DInv'
  OBVIOUS
<1>1. CASE Process
  <2>1. CASE file # NoFile
    BY <1>1, <2>1, InnerProcess DEF DInv
  <2>2. CASE file = NoFile /\ call # NoCall /\ ~call.taken
    BY <1>1, <2>2, UntakenProcess
  <2>3. CASE file = NoFile /\ call.taken
    <3>1. Effect = "unknown"
      BY <2>3 DEF Effect
    <3>2. Pass
      BY <1>1, <2>3, <3>1, ModeAssumption
         DEF Process, FallThrough, Say, Enter, Exit, AskPassword, AskFile, Pause, Drop,
             CheckPassword, FileUnreadable, OpenFile, LineAborted, FileEnd, FileAborted,
             FileLine, Parsing, Parses, Kinds
    <3>. QED
      BY <2>3, <3>2, TakenComes DEF Pass
  <2>4. CASE file = NoFile /\ call = NoCall
    <3>1. ~InCall
      BY <2>4 DEF InCall, NoCall, NoFile
    <3>. QED
      BY <1>1, <2>4, <3>1
         DEF Process, Pass, FallThrough, Say, Enter, Exit, AskPassword, AskFile, Pause, Drop,
             CheckPassword, FileUnreadable, OpenFile, LineAborted, FileEnd, FileAborted,
             FileLine, Parsing
  <2>. QED
    BY <2>1, <2>2, <2>3, <2>4
<1>2. ASSUME NEW line \in Lines, Receive(line) \/ ReceiveBadPipe(line)
      PROVE  DInv'
  BY <1>2, ReceiveUntaken, TransportShows
<1>3. CASE Answer \/ KeyPressed
  BY <1>3, TransportShows
<1>4. CASE Closed \/ UNCHANGED vars
  <2>1. session' = session /\ call' = call /\ file' = file /\ over' = over
    BY <1>4 DEF Closed, vars
  <2>2. InFile' <=> InFile
    BY <2>1 DEF InFile, Inner, NoneAwaits
  <2>3. Shows(session)' <=> Shows(session)
    BY <2>1 DEF Shows, Live, Question, NoneAwaits, ShowsPrompt, ShowsQuestion,
     ShowsPage, ShowsNothing, Deepest
  <2>4. Untaken' <=> Untaken
    BY <2>1 DEF Untaken, Live, Question, NoneAwaits, Belongs, Deepest
  <2>5. Leaving(session, call.at)' <=> Leaving(session, call.at)
    BY <2>1 DEF Leaving, Question, NoneAwaits
  <2>. QED
    BY <2>1, <2>2, <2>3, <2>4, <2>5 DEF DInv
<1>. QED
  BY <1>1, <1>2, <1>3, <1>4 DEF Next

\* Between lines a session that is open shows exactly one thing.
LEMMA DInvShows ==
    ASSUME IInv, DInv, Idle, ~over
    PROVE  Shows(session) /\ session.stack \in Seq(Modes) /\ session.stack # <<>>
                          /\ Deepest(session) = session.stack[Len(session.stack)]
                          /\ Len(session.stack) \in DOMAIN session.stack
<1>1. session.stack \in Seq(Modes) /\ session.stack # <<>>
  BY SessionShape DEF IInv, Good
<1>. QED
  BY <1>1 DEF DInv, Idle, Deepest

\* Whatever a client sends that gives each command in its mode, and whatever files it
\* has parsed, ...
LEMMA DInvAlways == Disciplined /\ FilesNeverPause => (Spec => [](IInv /\ DInv))
<1>. SUFFICES ASSUME Disciplined, FilesNeverPause PROVE Spec => [](IInv /\ DInv)
  OBVIOUS
<1>1. IInv /\ DInv /\ [Next]_vars => DInv'
  BY NextDInv
<1>. QED
  BY InitIInv, NextIInv, InitDInv, <1>1, PTL DEF Spec

\* ... the terminal shows exactly one of the prompt of the mode the session is in, a
\* question this mode waits for, and a pause that a key ends.
THEOREM OneAnswerAlways == Disciplined /\ FilesNeverPause => (Spec => []OneAnswer)
<1>. SUFFICES ASSUME Disciplined, FilesNeverPause PROVE Spec => []OneAnswer
  OBVIOUS
<1>1. IInv /\ DInv => OneAnswer
  <2>. SUFFICES ASSUME IInv, DInv, Idle, ~over PROVE OneAnswer
    BY DEF OneAnswer
  <2>. QED
    BY DInvShows DEF OneAnswer, Shows, ShowsPrompt, ShowsQuestion, ShowsPage, ShowsNothing,
                     NoneAwaits, Question
<1>. QED
  BY DInvAlways, <1>1, PTL

\* No processor of the chain is done: its parent removed it, or the session ended.
THEOREM NoneDoneAlways == Disciplined /\ FilesNeverPause => (Spec => []NoneDone)
<1>. SUFFICES ASSUME Disciplined, FilesNeverPause PROVE Spec => []NoneDone
  OBVIOUS
<1>1. IInv /\ DInv => NoneDone
  BY DInvShows DEF NoneDone, Shows, Live
<1>. QED
  BY DInvAlways, <1>1, PTL

\* A question is open in the deepest processor only, so that its answer is not taken for
\* a command by another.
THEOREM AnswerReachesAskerAlways ==
    Disciplined /\ FilesNeverPause => (Spec => []AnswerReachesAsker)
<1>. SUFFICES ASSUME Disciplined, FilesNeverPause PROVE Spec => []AnswerReachesAsker
  OBVIOUS
<1>1. IInv /\ DInv => AnswerReachesAsker
  BY DInvShows DEF AnswerReachesAsker, Shows, Live, Question
<1>. QED
  BY DInvAlways, <1>1, PTL

\* A key handler is set exactly while the processor that set it awaits a key, and that
\* processor is one of the chain.
THEOREM KeyIsAwaitedAlways == Disciplined /\ FilesNeverPause => (Spec => []KeyIsAwaited)
<1>. SUFFICES ASSUME Disciplined, FilesNeverPause PROVE Spec => []KeyIsAwaited
  OBVIOUS
<1>1. IInv /\ DInv => KeyIsAwaited
  <2>. SUFFICES ASSUME IInv, DInv, Idle, ~over PROVE KeyIsAwaited
    BY DEF KeyIsAwaited
  <2>1. CASE NoneAwaits(session)
    <3>1. NoKey.by \notin Modes
      BY ModeAssumption DEF NoKey
    <3>. QED
      BY <2>1, <3>1 DEF KeyIsAwaited, NoneAwaits
  <2>2. CASE ShowsPage(session)
    BY <2>2, DInvShows DEF KeyIsAwaited, ShowsPage
  <2>. QED
    BY <2>1, <2>2, DInvShows DEF Shows, ShowsPrompt, ShowsQuestion, ShowsNothing
<1>. QED
  BY DInvAlways, <1>1, PTL
=============================================================================
