------------------------------- MODULE Lines --------------------------------
(***************************************************************************)
(* What the console promises its readers: keys edit a line, a finished     *)
(* line is delivered, each character to one read(), and a read() returns   *)
(* with a whole line, as much as was asked for, or nothing at end of file. *)
(***************************************************************************)
EXTENDS Naturals, Sequences

CONSTANTS Procs, Capacity,
          MaxCount      \* largest count of a read()

VARIABLES line,         \* the characters that can still be edited
          ready,        \* the characters that can be read
          open,         \* the processes in read()
          want, got     \* what each of them asked for, and has got

call == <<open, want, got>>
vars == <<line, ready, call>>

Init ==
  /\ line = <<>> /\ ready = <<>>
  /\ open = {} /\ want = [p \in Procs |-> 0] /\ got = [p \in Procs |-> <<>>]

Erase == line # <<>> /\ line' = SubSeq(line, 1, Len(line) - 1) /\ UNCHANGED <<ready, call>>
Kill == line' = <<>> /\ UNCHANGED <<ready, call>>
Type(c) ==
  LET l == Append(line, c)
      full == Len(ready) + Len(l) = Capacity
  IN /\ Len(ready) + Len(line) < Capacity
     /\ IF c \in {"nl", "eof"} \/ full THEN line' = <<>> /\ ready' = ready \o l
        ELSE line' = l /\ UNCHANGED ready
     /\ UNCHANGED call

Read(p, n) ==
  /\ p \notin open
  /\ open' = open \cup {p}
  /\ want' = [want EXCEPT ![p] = n] /\ got' = [got EXCEPT ![p] = <<>>]
  /\ UNCHANGED <<line, ready>>

Take(p) ==
  LET g == Append(got[p], Head(ready))
      done == Head(ready) = "nl" \/ Len(g) = want[p]
  IN /\ p \in open /\ ready # <<>> /\ Head(ready) # "eof"
     /\ ready' = Tail(ready)
     /\ got' = [got EXCEPT ![p] = g]
     /\ open' = IF done THEN open \ {p} ELSE open
     /\ UNCHANGED <<line, want>>

(* The end of file ends a call, and is kept for the next one if this call  *)
(* has got something.                                                      *)
EndOfFile(p) ==
  /\ p \in open /\ ready # <<>> /\ Head(ready) = "eof"
  /\ ready' = IF got[p] = <<>> THEN Tail(ready) ELSE ready
  /\ open' = open \ {p}
  /\ UNCHANGED <<line, want, got>>

(* The process was killed while there was nothing to read; or its buffer   *)
(* is not writable, and a character is lost.                               *)
Fail(p) ==
  /\ p \in open
  /\ \/ ready = <<>> /\ UNCHANGED ready
     \/ ready # <<>> /\ Head(ready) # "eof" /\ ready' = Tail(ready)
  /\ open' = open \ {p}
  /\ UNCHANGED <<line, want, got>>

Next ==
  \/ Erase \/ Kill \/ \E c \in {"a", "nl", "eof"} : Type(c)
  \/ \E p \in Procs : Take(p) \/ EndOfFile(p) \/ Fail(p) \/ \E n \in 1 .. MaxCount : Read(p, n)

Spec == Init /\ [][Next]_vars
=============================================================================
