----------------------------- MODULE CommandRunner -----------------------------
(* Running a command of the system (src/src/core/run-command.ts).  The child   *)
(* writes, exits and is killed on its own; the events of Node arrive in any    *)
(* order the streams and timers allow, and the first that settles the call     *)
(* decides its reply.                                                          *)
(*                                                                              *)
(* An output is the sequence of the widths of its characters, in bytes.  A      *)
(* chunk of the stream is decoded by itself: it is a character of the model, or *)
(* one of the two halves of a wide one, which comes out as U+FFFD.              *)
EXTENDS Integers, Sequences, FiniteSets

CONSTANTS
  MaxOutput,    \* maxOutputBytes
  MaxChars      \* bound: characters the child writes

ASSUME CommandAssumption == {MaxOutput, MaxChars} \subseteq Nat

VARIABLES
  child,     \* "none", "running", "exited", its exit code, and the signals it was sent
  wrote,     \* what the child has written so far
  arrived,   \* how many of these characters have been delivered
  torn,      \* the first half of the next one has been delivered
  stdout, outputTruncated,
  timer,     \* "armed", "fired", "escalated" or "none"
  reply     \* what the call resolved to

commandVars == <<child, wrote, arrived, torn, stdout, outputTruncated, timer, reply>>

Pending == [code |-> 0, stdout |-> <<>>, timedOut |-> FALSE, settled |-> FALSE]
NoExit == -1       \* the exit code of a child that a signal ended, or that never started
Replacement == 3   \* U+FFFD

Chars(widths, most) == UNION {[1..n -> widths] : n \in 0..most}
Received == Chars(1..3, 2 * MaxChars)

CommandTypeOK ==
  /\ child \in [state : {"none", "running", "exited"}, code : {0, 1, NoExit}, signalled : BOOLEAN,
                killed : BOOLEAN]
  /\ wrote \in Chars({1, 2}, MaxChars) /\ stdout \in Received /\ arrived \in 0..Len(wrote)
  /\ torn \in BOOLEAN /\ outputTruncated \in BOOLEAN
  /\ timer \in {"none", "armed", "fired", "escalated"}
  /\ reply \in [code : {0, 1, NoExit, 124}, stdout : Received, timedOut : BOOLEAN, settled : BOOLEAN]

CommandInit ==
  /\ child = [state |-> "none", code |-> 0, signalled |-> FALSE, killed |-> FALSE]
  /\ wrote = <<>> /\ arrived = 0 /\ torn = FALSE /\ stdout = <<>> /\ outputTruncated = FALSE
  /\ timer = "none" /\ reply = Pending

\* The bytes of an output: character and place in it.
Utf8(chars) == {at \in (DOMAIN chars) \X (1..3) : at[2] <= chars[at[1]]}
SizeOf(chars) == Cardinality(Utf8(chars))

\* The first event settles the call, and clears the timer.
Settle(code) ==
  IF reply.settled THEN UNCHANGED <<reply, timer>>
  ELSE /\ reply' = [code |-> code, stdout |-> stdout, timedOut |-> timer = "fired", settled |-> TRUE]
       /\ timer' = IF timer = "armed" THEN "none" ELSE timer

\* A call has a timer unless it was given none.
Spawn ==
  /\ child.state = "none" /\ timer = "none" /\ ~reply.settled
  /\ \/ /\ timer' \in {"armed", "none"}
        /\ child' = [child EXCEPT !.state = "running"] /\ UNCHANGED reply
     \/ /\ child' = [child EXCEPT !.state = "exited", !.code = NoExit] /\ UNCHANGED timer
        /\ reply' = [Pending EXCEPT !.code = NoExit, !.settled = TRUE]
  /\ UNCHANGED <<wrote, arrived, torn, stdout, outputTruncated>>

Writes ==
  /\ child.state = "running" /\ Len(wrote) < MaxChars
  /\ \E width \in {1, 2} : wrote' = Append(wrote, width)
  /\ UNCHANGED <<child, arrived, torn, stdout, outputTruncated, timer, reply>>

\* A child that is told to end may take its time, and may call it a success.
Exits ==
  /\ child.state = "running"
  /\ \E code \in {0, 1, NoExit} : child' = [child EXCEPT !.state = "exited", !.code = code]
  /\ UNCHANGED <<wrote, arrived, torn, stdout, outputTruncated, timer, reply>>

\* A character that does not fit is dropped; a limit of 0 turns the collection off.
appendCapped(width) ==
  LET fits == SizeOf(stdout) + width <= MaxOutput
  IN  /\ stdout' = IF fits THEN Append(stdout, width) ELSE stdout
      /\ outputTruncated' = (outputTruncated \/ (MaxOutput > 0 /\ ~fits))

Data ==
  /\ arrived < Len(wrote)
  /\ \/ /\ ~torn /\ appendCapped(wrote[arrived + 1])
        /\ arrived' = arrived + 1 /\ UNCHANGED torn
     \/ /\ wrote[arrived + 1] = 2 /\ appendCapped(Replacement)
        /\ arrived' = (IF torn THEN arrived + 1 ELSE arrived) /\ torn' = ~torn
  /\ UNCHANGED <<child, wrote, timer, reply>>

\* The streams have ended: the exit code counts, also after a timeout.
Close ==
  /\ child.state = "exited" /\ arrived = Len(wrote)
  /\ Settle(IF child.code = NoExit /\ timer = "fired" THEN 124 ELSE child.code)
  /\ UNCHANGED <<child, wrote, arrived, torn, stdout, outputTruncated>>

\* The child is asked to end, and a second timer starts.
TimeoutFires ==
  /\ timer = "armed" /\ ~reply.settled
  /\ timer' = "fired" /\ child' = [child EXCEPT !.signalled = TRUE]
  /\ UNCHANGED <<wrote, arrived, torn, stdout, outputTruncated, reply>>

\* It is killed, and the call ends without waiting for its streams.
Escalate ==
  /\ timer = "fired"
  /\ IF reply.settled THEN timer' = "escalated" /\ UNCHANGED <<child, reply>>
     ELSE /\ child' = [child EXCEPT !.killed = TRUE, !.state = "exited",
                                    !.code = IF child.state = "running" THEN NoExit ELSE @]
          /\ reply' = [code |-> 124, stdout |-> stdout, timedOut |-> TRUE, settled |-> TRUE]
          /\ timer' = "escalated"
  /\ UNCHANGED <<wrote, arrived, torn, stdout, outputTruncated>>

CommandNext == Spawn \/ Writes \/ Exits \/ Data \/ Close \/ TimeoutFires \/ Escalate

CommandSpec == CommandInit /\ [][CommandNext]_commandVars

-----------------------------------------------------------------------------
\* A reply a caller may use as a success is one: the child ended with that code and was not
\* killed, and its output is all it wrote, in order, unless some of it was cut off or came in
\* pieces, which the reply shows; a call that timed out has no child left, and no reply holds
\* more than the limit.
CommandTruthful ==
  reply.settled =>
    /\ reply.code = 0 =>
         /\ child.state = "exited" /\ child.code = 0 /\ ~child.killed
         /\ \/ outputTruncated \/ MaxOutput = 0
            \/ \E n \in DOMAIN reply.stdout : reply.stdout[n] = Replacement
            \/ reply.stdout = wrote
    /\ reply.code = 124 => child.state = "exited" /\ reply.timedOut
    /\ child.killed => reply.code = 124
    /\ SizeOf(reply.stdout) <= MaxOutput
=============================================================================
