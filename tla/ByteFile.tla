------------------------------ MODULE ByteFile ------------------------------
(* What a file promises the programs that have it open: a sequence of bytes *)
(* shared by all its descriptors, each with a position of its own.  Writing *)
(* past the end fills the gap with zeros; reading stops at the end.         *)
EXTENDS Integers

CONSTANTS File,     \* open files on it
          Byte,     \* what a byte can be; 0 is one of them
          MaxChunk, \* the most bytes moved at once
          MaxPos    \* the last position

VARIABLES contents, \* the bytes, a function on 0 .. size - 1
          size,
          pos,      \* [File -> position]
          got       \* the bytes the last read has returned

fileVars == <<contents, size, pos, got>>

\* Byte strings of at most n bytes.
Strings(n) == UNION {[0 .. k - 1 -> Byte] : k \in 1 .. n}
Length(s) == CHOOSE k \in 1 .. MaxChunk : DOMAIN s = 0 .. k - 1

Larger(a, b) == IF a < b THEN b ELSE a
Smaller(a, b) == IF a < b THEN a ELSE b

Init ==
  /\ contents = [i \in {} |-> 0]
  /\ size = 0
  /\ pos = [f \in File |-> 0]
  /\ got = [i \in {} |-> 0]

Write(f, s) ==
  LET end == pos[f] + Length(s) IN
  /\ size' = Larger(size, end)
  /\ contents' = [i \in 0 .. Larger(size, end) - 1 |->
                    IF i \in pos[f] .. end - 1 THEN s[i - pos[f]]
                    ELSE IF i < size THEN contents[i] ELSE 0]
  /\ pos' = [pos EXCEPT ![f] = end]
  /\ UNCHANGED got

Read(f, n) ==
  LET k == IF pos[f] < size THEN Smaller(n, size - pos[f]) ELSE 0 IN
  /\ got' = [i \in 0 .. k - 1 |-> contents[pos[f] + i]]
  /\ pos' = [pos EXCEPT ![f] = @ + k]
  /\ UNCHANGED <<contents, size>>

Seek(f, p) ==
  /\ pos' = [pos EXCEPT ![f] = p]
  /\ UNCHANGED <<contents, size, got>>

Next ==
  \E f \in File :
    \/ \E s \in Strings(MaxChunk) : Write(f, s)
    \/ \E n \in 1 .. MaxChunk : Read(f, n)
    \/ \E p \in 0 .. MaxPos : Seek(f, p)

Spec == Init /\ [][Next]_fileVars
=============================================================================
