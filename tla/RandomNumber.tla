------------------------------ MODULE RandomNumber ------------------------------
(***************************************************************************)
(* The calculator's RandomNumberModel: new operands restart a timer, and   *)
(* only when it has run out a number between them is drawn.  The operands  *)
(* are weak pointers, but the handler that was connected last holds what   *)
(* it was started with: an operand that everyone else has let go of, while *)
(* the node was frozen, is lost when the next one comes and not before.    *)
(***************************************************************************)
EXTENDS Integers

CONSTANTS
  Operand,      \* numbers that may arrive
  Duration,     \* _secondsRemaining of a new computation
  Missing

ASSUME RandomConstants ==
  Operand \subseteq Int /\ Duration \in Nat \ {0} /\ Missing \notin Int

VARIABLES
  operand,      \* _number1 and _number2, Missing when they expired
  taken,        \* what the timer's handler has captured
  orphaned,     \* the operands that only the handler still holds
  seconds,      \* _secondsRemaining while the timer runs, otherwise 0
  drawn,        \* _result
  progress,     \* the processing status
  refusing      \* the node is frozen

randomVars == <<operand, taken, orphaned, seconds, drawn, progress, refusing>>

complete(pair) == pair[0] # Missing /\ pair[1] # Missing

RandomInit ==
  /\ operand = [p \in {0, 1} |-> Missing] /\ taken = operand /\ orphaned = {}
  /\ seconds = 0 /\ drawn = Missing
  /\ progress = "Empty" /\ refusing = FALSE

\* Mutant: a computation that runs is left to finish.
computeUnlessRunning(now) ==
  /\ progress' = IF complete(now) THEN "Processing" ELSE progress
  /\ seconds' = IF seconds = 0 THEN Duration ELSE seconds
  /\ taken' = IF seconds = 0 THEN now ELSE taken

\* Any previous computation stops, its handler is disconnected.
compute(now) ==
  /\ progress' = IF complete(now) THEN "Processing" ELSE progress
  /\ seconds' = Duration
  /\ taken' = now

\* The old handler goes first, and with it what nobody else holds.
newOperand(p, v) ==
  /\ ~refusing
  /\ operand' = [q \in {0, 1} |-> CASE q = p -> v
                                     [] q # p /\ q \in orphaned -> Missing
                                     [] OTHER -> operand[q]]
  /\ orphaned' = {}
  /\ compute(operand')
  /\ UNCHANGED <<drawn, refusing>>

\* The node the number came from has made another one, or is gone; a node that
\* is not frozen is given the new one before anything else happens.
sourceLetsGo(p) ==
  /\ refusing
  /\ orphaned' = orphaned \cup {p}
  /\ UNCHANGED <<operand, taken, seconds, drawn, progress, refusing>>

freeze(on) ==
  /\ refusing' = on
  /\ UNCHANGED <<operand, taken, orphaned, seconds, drawn, progress>>

secondPasses ==
  /\ seconds > 1 /\ seconds' = seconds - 1
  /\ UNCHANGED <<operand, taken, orphaned, drawn, progress, refusing>>

\* The result is announced, except when the interval is empty.
timeout ==
  /\ seconds = 1 /\ seconds' = 0
  /\ \/ /\ ~complete(taken)
        /\ drawn' = Missing /\ UNCHANGED progress
     \/ /\ complete(taken) /\ taken[0] > taken[1]
        /\ progress' = "Failed" /\ UNCHANGED drawn
     \/ /\ complete(taken) /\ taken[0] <= taken[1]
        /\ drawn' \in taken[0] .. taken[1] /\ progress' = "Updated"
  /\ UNCHANGED <<operand, taken, orphaned, refusing>>

RandomNext ==
  \/ \E p \in {0, 1}, v \in Operand \cup {Missing} : newOperand(p, v)
  \/ \E p \in {0, 1} : sourceLetsGo(p)
  \/ \E on \in BOOLEAN : freeze(on)
  \/ secondPasses \/ timeout

RandomSpec == RandomInit /\ [][RandomNext]_randomVars

-----------------------------------------------------------------------------
\* When the timer is at rest the node answers for the operands it has, not for
\* those of a computation that was overtaken: a number between them with the
\* status "Updated", or "Failed" (RandomNumberModel::compute).
AnswersLatestOperands ==
  seconds = 0 /\ complete(operand) =>
    IF operand[0] > operand[1] THEN progress = "Failed"
    ELSE progress = "Updated" /\ drawn \in operand[0] .. operand[1]
=============================================================================
